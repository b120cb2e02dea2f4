------------------------------- MODULE Rebuild -------------------------------
(***************************************************************************)
(* The loops over the CIDRs of a ClusterConfig or of a rule, in closed     *)
(* form (RebuildLoop.tla has the first two as loops).  A loop takes the    *)
(* patches of a ClusterConfig as they are stored: the service sorts them   *)
(* from large to small before it writes them (SortPatches).                *)
(***************************************************************************)
EXTENDS GoIpam

-----------------------------------------------------------------------------
(* ipamFromClusterConfigs: the store rebuilt from the parents P of the     *)
(* config and the CIDRs H[k] of each ClusterConfig k, whatever the order   *)
(* of the parents and of the ClusterConfigs.                               *)

Parentless(P, x) == \A p \in P : ~Overlaps(p, x)

(* The ranges of P and of the same ClusterConfig around x; the innermost   *)
(* one is x's parent.                                                      *)
Around(P, S, x) == {y \in P \cup S : StrictlyContains(y, x)}

(* Mutant: the list of parents is not reversed, the outermost one wins. *)
ParentOf_Outermost(P, S, x) ==
    IF Parentless(P, x) THEN NoCidr
    ELSE CHOOSE y \in Around(P, S, x) : \A z \in Around(P, S, x) : Contains(y, z)

ParentOf(P, S, x) ==
    IF Parentless(P, x) THEN NoCidr
    ELSE CHOOSE y \in Around(P, S, x) : \A z \in Around(P, S, x) : Contains(z, y)

(* Mutant: a CIDR without a parent is an error. *)
RebuildFails_NeedsParent(P, H) ==
    \E k \in DOMAIN H : \E x \in H[k] : Parentless(P, x)

(* Registering fails: the parents overlap; a CIDR is larger than a parent; *)
(* two different parentless CIDRs overlap; or two ClusterConfigs have      *)
(* overlapping CIDRs below the same parent.                                *)
RebuildFails(P, H) ==
    \/ ~DisjointRanges(P)
    \/ \E k \in DOMAIN H : \E x \in H[k], p \in P : StrictlyContains(x, p)
    \/ \E k, l \in DOMAIN H : \E x \in H[k], y \in H[l] :
         /\ x # y /\ Overlaps(x, y)
         /\ Parentless(P, x) /\ Parentless(P, y)
    \/ \E k, l \in DOMAIN H : \E x \in H[k] \ P, y \in H[l] \ P :
         /\ <<k, x>> # <<l, y>> /\ Overlaps(x, y)
         /\ ~Parentless(P, x) /\ ~Parentless(P, y)
         /\ ParentOf(P, H[k], x) = ParentOf(P, H[l], y)

Rebuilt(P, H) ==
    LET D == P \cup UNION {H[k] : k \in DOMAIN H}
    IN  [x \in D |-> IF x \in P THEN NoCidr
                     ELSE LET k == CHOOSE k \in DOMAIN H : x \in H[k]
                          IN  ParentOf(P, H[k], x)]

-----------------------------------------------------------------------------
(* releaseCIDRsForClusterConfig_internal: the CIDRs S of a ClusterConfig   *)
(* are released, parents before children; one is dropped from the store    *)
(* if its parent is still there at its turn.  The equation has one         *)
(* solution because a parent is strictly larger than its child.            *)
ReleasedInOrder(st, S) ==
    CHOOSE R \in SUBSET (S \cap DOMAIN st) :
        R = {c \in S \cap DOMAIN st : st[c] \in DOMAIN st \ R}

(* ErrNotFound is ignored, any other error ends the loop. *)
ReleaseFails(st, S) ==
    /\ OrphanRelease = "error"
    /\ ReleasedInOrder(st, S) # S \cap DOMAIN st

(* generateCIDRsForInjectionRule: what a rule has acquired is given back   *)
(* in the order of a Go map, errors are logged; a CIDR stays behind only   *)
(* if its parent is missing or was released before it.                     *)
ReleasedInAnyOrder(st, S) ==
    {R \in SUBSET (S \cap DOMAIN st) :
        /\ \A c \in R : st[c] \in DOMAIN st
        /\ \A c \in (S \cap DOMAIN st) \ R : st[c] \in R \/ st[c] \notin DOMAIN st}
=============================================================================
