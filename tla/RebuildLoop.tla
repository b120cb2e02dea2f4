----------------------------- MODULE RebuildLoop -----------------------------
(***************************************************************************)
(* The two loops over the patches of ClusterConfigs, one patch at a time:  *)
(* ipamFromClusterConfigs (internal/shared/restore.go), which rebuilds the *)
(* IPAM state, and the loop of releaseCIDRsForClusterConfig_internal       *)
(* (utils.go), here applied to the rebuilt state.  The parents and the     *)
(* ClusterConfigs come in any order (both are Go maps), the patches of a   *)
(* ClusterConfig in the order in which they were written.                  *)
(***************************************************************************)
EXTENDS Integers, Sequences, FiniteSets

CONSTANTS
    Width, NoCidr,
    Key,     \* names of ClusterConfigs
    Inputs   \* the parents of the config, and the patches of each ClusterConfig

VARIABLES
    input,       \* an element of Inputs, the patches as they are stored
    pc,          \* the loop that is being executed
    todo,        \* the parents or ClusterConfigs that still have to be registered
    patches,     \* the patches of the current ClusterConfig that are left
    parents,     \* the list of registered parents
    tmpParents,  \* the CIDRs of the current ClusterConfig that were registered
    st,          \* the store
    rebuilt,     \* the store when the first loop was through
    released,    \* the ClusterConfig of the second loop
    orphan       \* how the library releases a CIDR whose parent record is missing

loopVars == <<input, pc, todo, patches, parents, tmpParents, st, rebuilt, released, orphan>>

INSTANCE Rebuild WITH OrphanRelease <- orphan

SX == INSTANCE SequencesExt

CidrsOfKey(k) == {input.ccs[k][i].cidr : i \in DOMAIN input.ccs[k]}
AllCidrs == [k \in Key |-> CidrsOfKey(k)]

(* Before a ClusterConfig is written its patches are sorted: from large to *)
(* small, then by path.                                                    *)
SortPatches(S) ==
    SX!SetToSortSeq(S, LAMBDA a, b : \/ SubnetSize(a.cidr) < SubnetSize(b.cidr)
                                     \/ SubnetSize(a.cidr) = SubnetSize(b.cidr) /\ a.path < b.path)

Written(in) == [in EXCEPT !.ccs = [k \in Key |-> SortPatches(in.ccs[k])]]

(* The first range of the list that overlaps x, or NoCidr. *)
IdentifyParentPrefix(x, list) ==
    LET overlapping == SelectSeq(list, LAMBDA p : Overlaps(p, x))
    IN  IF overlapping = <<>> THEN NoCidr ELSE Head(overlapping)

-----------------------------------------------------------------------------
(* External: NewPrefix and AcquireSpecificChildPrefix of go-ipam.          *)
NewPrefixFails(x) == \E y \in Registered(st) : Overlaps(x, y)

AcquireSpecificFails(parent, x) ==
    \/ ~StrictlyContains(parent, x)
    \/ \E y \in ChildrenOf(st, parent) : Overlaps(x, y)

Fail(loop) ==
    /\ pc' = loop
    /\ UNCHANGED st

(* fetchOrNewPrefix *)
FetchOrNewPrefix(x) ==
    \/ /\ x \in Registered(st)
       /\ UNCHANGED <<st, pc>>
    \/ /\ x \notin Registered(st) /\ ~NewPrefixFails(x)
       /\ st' = Record(st, x, NoCidr)
       /\ UNCHANGED pc
    \/ /\ x \notin Registered(st) /\ NewPrefixFails(x)
       /\ Fail("failed")

RegisterParent(p) ==
    /\ pc = "parents" /\ p \in todo
    /\ FetchOrNewPrefix(p)
    /\ parents' = Append(parents, p)
    /\ todo' = todo \ {p}
    /\ UNCHANGED <<input, patches, tmpParents, rebuilt, released, orphan>>

ParentsRegistered ==
    /\ pc = "parents" /\ todo = {}
    /\ pc' = "ccs"
    /\ todo' = Key
    /\ UNCHANGED <<input, patches, parents, tmpParents, st, rebuilt, released, orphan>>

NextClusterConfig(k) ==
    /\ pc = "ccs" /\ k \in todo /\ patches = <<>>
    /\ patches' = input.ccs[k]
    /\ tmpParents' = <<>>
    /\ todo' = todo \ {k}
    /\ UNCHANGED <<input, pc, parents, st, rebuilt, released, orphan>>

(* Mutant: the list of registered CIDRs is not reversed. *)
PossibleParents_NotReversed == tmpParents \o parents

PossibleParents == SX!Reverse(tmpParents) \o parents

RegisterPatch ==
    /\ pc = "ccs" /\ patches # <<>>
    /\ LET x == Head(patches).cidr
           parent == IdentifyParentPrefix(x, PossibleParents)
       IN  \/ /\ parent = NoCidr
              /\ FetchOrNewPrefix(x)
              /\ UNCHANGED tmpParents
           \/ /\ parent = x
              /\ UNCHANGED <<st, pc, tmpParents>>
           \/ /\ parent \notin {NoCidr, x} /\ ~AcquireSpecificFails(parent, x)
              /\ st' = Record(st, x, parent)
              /\ tmpParents' = Append(tmpParents, x)
              /\ UNCHANGED pc
           \/ /\ parent \notin {NoCidr, x} /\ AcquireSpecificFails(parent, x)
              /\ Fail("failed")
              /\ UNCHANGED tmpParents
    /\ patches' = Tail(patches)
    /\ UNCHANGED <<input, todo, parents, rebuilt, released, orphan>>

ClusterConfigsRegistered ==
    /\ pc = "ccs" /\ todo = {} /\ patches = <<>>
    /\ pc' = "rebuilt"
    /\ rebuilt' = st
    /\ UNCHANGED <<input, todo, patches, parents, tmpParents, st, released, orphan>>

-----------------------------------------------------------------------------
(* The CIDRs of one of the ClusterConfigs are released. *)
BeginRelease(k) ==
    /\ pc = "rebuilt"
    /\ pc' = "release"
    /\ released' = k
    /\ orphan' \in {"notfound", "error"}
    /\ patches' = input.ccs[k]
    /\ UNCHANGED <<input, todo, parents, tmpParents, st, rebuilt>>

(* Mutant: ErrNotFound ends the loop like any other error. *)
ReleasePatch_NotFoundFails ==
    /\ pc = "release" /\ patches # <<>>
    /\ LET x == Head(patches).cidr
       IN  \/ /\ x \notin Registered(st)
              /\ UNCHANGED <<st, pc>>
           \/ /\ x \in Registered(st) /\ st[x] \in Registered(st)
              /\ st' = Forget(st, {x})
              /\ UNCHANGED pc
           \/ /\ x \in Registered(st) /\ st[x] \notin Registered(st)
              /\ Fail("releaseFailed")
    /\ patches' = Tail(patches)
    /\ UNCHANGED <<input, todo, parents, tmpParents, rebuilt, released, orphan>>

(* A CIDR that is not registered is skipped.  One whose parent is not      *)
(* there any more ends as the library decides.                             *)
ReleasePatch ==
    /\ pc = "release" /\ patches # <<>>
    /\ LET x == Head(patches).cidr
       IN  \/ /\ x \notin Registered(st)
              /\ UNCHANGED <<st, pc>>
           \/ /\ x \in Registered(st) /\ st[x] \in Registered(st)
              /\ st' = Forget(st, {x})
              /\ UNCHANGED pc
           \/ /\ x \in Registered(st) /\ st[x] \notin Registered(st)
              /\ IF orphan = "error" THEN Fail("releaseFailed") ELSE UNCHANGED <<st, pc>>
    /\ patches' = Tail(patches)
    /\ UNCHANGED <<input, todo, parents, tmpParents, rebuilt, released, orphan>>

ReleaseDone ==
    /\ pc = "release" /\ patches = <<>>
    /\ pc' = "released"
    /\ UNCHANGED <<input, todo, patches, parents, tmpParents, st, rebuilt, released, orphan>>

Init ==
    /\ input \in {Written(in) : in \in Inputs}
    /\ pc = "parents"
    /\ todo = input.parents
    /\ patches = <<>> /\ parents = <<>> /\ tmpParents = <<>>
    /\ st = EmptyStore /\ rebuilt = EmptyStore
    /\ released = CHOOSE k \in Key : TRUE
    /\ orphan = "notfound"

Next ==
    \/ \E p \in todo : RegisterParent(p) \/ NextClusterConfig(p)
    \/ ParentsRegistered \/ RegisterPatch \/ ClusterConfigsRegistered
    \/ \E k \in Key : BeginRelease(k)
    \/ ReleasePatch \/ ReleaseDone

Spec == Init /\ [][Next]_loopVars

-----------------------------------------------------------------------------
(* Whatever the order, the loop fails exactly when RebuildFails says so,   *)
(* and otherwise yields the store Rebuilt describes: the Restore of the    *)
(* service may be modelled by these definitions.                           *)
LoopAgrees ==
    /\ pc = "failed" => RebuildFails(input.parents, AllCidrs)
    /\ pc = "rebuilt" => /\ ~RebuildFails(input.parents, AllCidrs)
                         /\ st = Rebuilt(input.parents, AllCidrs)

(* The releasing loop drops exactly the CIDRs of ReleasedInOrder, and      *)
(* fails exactly when ReleaseFails says so, whichever way the library      *)
(* answers for a CIDR whose parent is not there any more.                  *)
ReleaseAgrees ==
    LET S == CidrsOfKey(released)
    IN  /\ pc = "released" => /\ ~ReleaseFails(rebuilt, S)
                              /\ st = Forget(rebuilt, ReleasedInOrder(rebuilt, S))
        /\ pc = "releaseFailed" => ReleaseFails(rebuilt, S)
=============================================================================
