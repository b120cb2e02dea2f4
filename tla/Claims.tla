------------------------------- MODULE Claims -------------------------------
(***************************************************************************)
(* Why no two rules ever hold overlapping CIDRs: the inductive invariant   *)
(* behind the promises of GardenerIpam.tla.  It says that some claims G,   *)
(* what is reserved for each rule of each Cluster, account for every copy  *)
(* of a CIDR, in the API objects and in the memory of the process.         *)
(***************************************************************************)
EXTENDS GardenerIpam

AllParents == UNION {ParentCIDRs(cfg) : cfg \in Configs}

(***************************************************************************)
(* What the theorems assume of the constants.  Each conjunct excludes one  *)
(* of the ways in which the code is known to lose the property (the runs   *)
(* that expect a violation), or an intervention by hand:                   *)
(*   - the name of a deleted Cluster is not used again, and there is no    *)
(*     second replica that waits with an old IPAM state;                   *)
(*   - the deletion of a ClusterConfig does not fail without effect (the   *)
(*     CIDRs would be released twice);                                     *)
(*   - nobody edits ClusterConfigs or puts a finalizer on them;            *)
(*   - there are no periodic refreshes, and a change of the config does    *)
(*     not change which Clusters it matches (a Restore skips the others);  *)
(*   - the parents of all configs that are ever stored are equal or do not *)
(*     overlap.                                                            *)
(* API calls other than deletions may fail, every response may be lost,    *)
(* and the process may crash, at any time and any number of times.         *)
(***************************************************************************)
Undisturbed ==
    /\ ~ReuseNames /\ ~LeaderElection
    /\ "delete" \notin FailingCalls
    /\ UserActions \cap {"edit", "finalizer"} = {}
    /\ \A cfg \in Configs : ~cfg.refresh
    /\ \A cfg1, cfg2 \in Configs, p \in Purpose : Matches(cfg1, p) => Matches(cfg2, p)
    /\ DisjointRanges(AllParents)

(* No injection has an ID, so that none takes its CIDR from another one.   *)
Unnamed(rules) ==
    \A i \in DOMAIN rules : \A j \in DOMAIN rules[i].injections : rules[i].injections[j].id = NoId

Flat == \A cfg \in Configs : Unnamed(cfg.rules)

-----------------------------------------------------------------------------
(* The phases of the process, and the names in use.                        *)

Live(cc) == Exists(cc) /\ cc.fin

(* The IPAM state has been rebuilt and is in use. *)
Ready == proc = "running" \/ (proc = "booting" /\ rs.pc = "done")

(* The Cluster controller and the Restore never run at the same time. *)
Phases ==
    /\ standby = NoStandby
    /\ proc # "running" => wk = IdleWorker
    /\ proc # "booting" => rs = IdleRestore
    /\ cf.pc \notin {"refresh", "refreshing"}
    /\ ~Ready => ipam = EmptyStore

(* Whatever the service deals with has a name that is not given again. *)
Named ==
    /\ queue \subseteq used.names
    /\ wk.pc # "idle" => wk.c \in used.names
    /\ \A c \in Cluster : Exists(clusters[c]) => c \in used.names
    /\ \A c \in Cluster, r \in Rule : Exists(ccs[c][r]) => c \in used.names

(* A ClusterConfig without the finalizer is the one that the Cluster       *)
(* controller is about to delete.                                          *)
Finalized ==
    Ready => \A c \in Cluster, r \in Rule :
        Exists(ccs[c][r]) /\ ~ccs[c][r].fin => wk.pc = "delDelete" /\ wk.c = c /\ wk.r = r

-----------------------------------------------------------------------------
(***************************************************************************)
(* The claims G: the patches that are reserved for rule r of Cluster c.    *)
(* Every copy of them, in an annotation, in a ClusterConfig or in the      *)
(* memory of a process, is either not there or is G[c][r].                 *)
(***************************************************************************)
ClaimMap == [Cluster -> [Rule -> SUBSET Patch]]

Copy(S, g) == S = {} \/ S = g

(* The configs match the Cluster, so that a Restore lists it. *)
Entitled(c) == Exists(clusters[c]) => \E cfg \in Configs : Matches(cfg, clusters[c].purpose)

(* No foreign finalizer, and gone with its own one if it is in deletion. *)
Shape(cc) == ~cc.foreign /\ (cc.fin \/ ~cc.deleting)

AnnotationCopies(G) ==
    \A c \in Cluster, r \in Rule : Exists(clusters[c]) =>
        /\ Copy(clusters[c].ann[r], G[c][r])
        /\ clusters[c].ann[r] # {} => Entitled(c)

ClusterConfigCopies(G) ==
    \A c \in Cluster, r \in Rule : Exists(ccs[c][r]) =>
        /\ Shape(ccs[c][r])
        /\ ccs[c][r].fin => ccs[c][r].patches = G[c][r]
        /\ ~ccs[c][r].fin => ~Exists(clusters[c])
        /\ Entitled(c)

-----------------------------------------------------------------------------
(* The Cluster controller.                                                 *)

RulesOK(rules) ==
    /\ \A i, k \in DOMAIN rules : i # k => rules[i].id # rules[k].id
    /\ \A i \in DOMAIN rules : \A j \in DOMAIN rules[i].injections :
        rules[i].injections[j].paths # {}
    /\ Flat => Unnamed(rules)

(* Nothing is ever missing from a ClusterConfig, and the CIDRs that have   *)
(* an ID are among those acquired for the rule.                            *)
WorkerScratch ==
    /\ wk.update = NoUpdates
    /\ RulesOK(wk.rules)
    /\ \A id \in Id : wk.tmp[id] # NoCidr => ~Flat /\ wk.tmp[id] \in CidrsOf(wk.raw)
    /\ wk.pc # "generate" => wk.raw = {}

WorkerCopies(G) ==
    wk.pc \in {"config", "list", "generate", "annotate", "apply"} =>
        /\ Entitled(wk.c)
        /\ \A r \in Rule :
            /\ Copy(wk.cl.ann[r], G[wk.c][r])
            /\ Copy(wk.ann[r], G[wk.c][r])
            /\ Copy(wk.create[r], G[wk.c][r])

(* Nobody has anything for a rule that is still to be generated. *)
Untouched(r) ==
    wk.cl.ann[r] = {} /\ wk.ann[r] = {} /\ wk.create[r] = {} /\ ~Exists(ccs[wk.c][r])

Generating(G) ==
    wk.pc = "generate" =>
        /\ wk.cfg \in Configs
        /\ Copy(wk.raw, G[wk.c][wk.rules[CurrentRule].id])
        /\ \A i \in wk.todo : Untouched(wk.rules[i].id)

(* What handleDelete has listed and not released yet is as it was listed. *)
Listed(G, r) ==
    /\ Live(wk.del[r]) /\ ~wk.del[r].foreign /\ wk.del[r].patches = G[wk.c][r]
    /\ Live(ccs[wk.c][r])

Deleting(G) ==
    /\ wk.pc \in {"delList", "delRelease", "delDelete"} => ~Exists(clusters[wk.c])
    /\ wk.pc \in {"delRelease", "delDelete"} =>
        \A r \in Rule : Exists(wk.del[r]) /\ (wk.pc = "delDelete" => r # wk.r) => Listed(G, r)

WorkerClaims(G) == WorkerScratch /\ WorkerCopies(G) /\ Generating(G) /\ Deleting(G)

-----------------------------------------------------------------------------
(* The Restore.                                                            *)

(* It works with a config that somebody stored. *)
Configured == rs.pc \notin {"idle", "done", "failed"} => rs.cfg \in Configs

(* Every Cluster that has anything is among the listed ones. *)
Listing ==
    rs.pc = "listCCs" => \A c \in Cluster, r \in Rule :
        /\ Exists(clusters[c]) /\ clusters[c].ann[r] # {} => Exists(rs.todo[c])
        /\ Exists(clusters[c]) /\ Exists(ccs[c][r]) => Exists(rs.todo[c])
        /\ Exists(ccs[c][r]) /\ ~ccs[c][r].fin => ~Exists(rs.todo[c])

TodoOK(G) ==
    \A c \in Cluster : Exists(rs.todo[c]) =>
        /\ c \in used.names
        /\ Entitled(c)
        /\ \A r \in Rule : Copy(rs.todo[c].ann[r], G[c][r])
        /\ Exists(clusters[c]) => clusters[c].ann = rs.todo[c].ann

(* A listed ClusterConfig that is left belongs to a Cluster that is still  *)
(* to be checked, or to none.                                              *)
Left(G, c, r, cc, now) ==
    /\ c \in used.names
    /\ Shape(cc)
    /\ cc.fin => cc.patches = G[c][r] /\ Live(now)
    /\ Exists(now) => (cc.deleting => now.deleting) /\ (now.fin => cc.fin)
    /\ Exists(rs.todo[c]) => cc.fin
    /\ ~Exists(rs.todo[c]) => ~Exists(clusters[c])

RestOK(G) ==
    \A c \in Cluster, r \in Rule :
        Exists(rs.rest[c][r]) => Left(G, c, r, rs.rest[c][r], ccs[c][r])

HandledOK(G) ==
    \A c \in Cluster, r \in Rule :
        Exists(rs.handled[c][r]) => rs.handled[c][r].patches = G[c][r] /\ ~Exists(rs.todo[c])

ApplyOK(G) ==
    rs.pc = "apply" =>
        /\ rs.c \in used.names
        /\ Entitled(rs.c)
        /\ ~Exists(rs.todo[rs.c])
        /\ \A r \in Rule : Copy(rs.create[r], G[rs.c][r]) /\ ~Exists(rs.rest[rs.c][r])

OrphanOK ==
    /\ rs.update = NoUpdates
    /\ rs.pc = "release" =>
        /\ rs.rest[rs.c][rs.r].fin
        /\ Exists(ccs[rs.c][rs.r]) => ccs[rs.c][rs.r].deleting
    /\ rs.pc \in {"orphans", "delete", "release", "build"} => rs.todo = NoClusters
    /\ rs.pc = "build" => rs.rest = NoClusterConfigs /\ ~rs.err

Checking == rs.pc \in {"check", "apply", "orphans", "delete", "release", "build"}

(* Whatever somebody holds is still to be dealt with or handled, and a     *)
(* ClusterConfig without the finalizer is still to be deleted.             *)
Covered ==
    Checking => \A c \in Cluster, r \in Rule :
        /\ Exists(ccs[c][r]) /\ ~ccs[c][r].fin => Exists(rs.rest[c][r])
        /\ ~rs.err /\ Exists(clusters[c]) /\ clusters[c].ann[r] # {} =>
            \/ Exists(rs.todo[c])
            \/ rs.pc = "apply" /\ c = rs.c /\ (rs.bad \/ rs.create[r] # {} \/ Exists(ccs[c][r]))
            \/ Exists(rs.handled[c][r])
        /\ ~rs.err /\ Live(ccs[c][r]) =>
            \/ Exists(rs.rest[c][r])
            \/ rs.pc = "apply" /\ c = rs.c
            \/ Exists(rs.handled[c][r])

RestoreClaims(G) ==
    /\ Configured /\ Listing /\ TodoOK(G) /\ RestOK(G) /\ HandledOK(G)
    /\ ApplyOK(G) /\ OrphanOK /\ Covered

-----------------------------------------------------------------------------
(* That a Restore succeeds needs more: the parents never change.           *)
ParentsStay == \A cfg1, cfg2 \in Configs : ParentCIDRs(cfg1) = ParentCIDRs(cfg2)

(* What a Restore is about to create does not exist, so that its calls     *)
(* succeed unless they fail by themselves.                                 *)
Smooth ==
    /\ Checking => \A c \in Cluster, r \in Rule :
        Exists(rs.todo[c]) /\ Exists(ccs[c][r]) => Exists(rs.rest[c][r])
    /\ rs.pc = "apply" => \A r \in Rule : rs.create[r] # {} => ~Exists(ccs[rs.c][r])

-----------------------------------------------------------------------------
(* The ranges.                                                             *)

DisjointClaims(G) ==
    /\ \A c, d \in Cluster : \A r, s \in Rule :
        <<c, r>> # <<d, s>> =>
            \A x \in CidrsOf(G[c][r]), y \in CidrsOf(G[d][s]) : ~Overlaps(x, y)
    /\ Flat => \A c \in Cluster, r \in Rule : DisjointRanges(CidrsOf(G[c][r]))

InsideParents(G) ==
    \A c \in Cluster, r \in Rule : \A x \in CidrsOf(G[c][r]) :
        \E a \in AllParents : StrictlyContains(a, x)

(* A range that keeps a parent, or the top level, from handing out         *)
(* anything inside it.                                                     *)
Anchor(st, z) == z \in DOMAIN st /\ z \notin AllParents /\ st[z] \in AllParents \cup {NoCidr}

Anchored(st, x) == x \in DOMAIN st /\ \E z \in CIDR : Anchor(st, z) /\ Contains(z, x)

TopParents(st) == \A p \in AllParents : p \in DOMAIN st => st[p] = NoCidr

BlockedIn(st, G) ==
    /\ TopParents(st)
    /\ \A c \in Cluster, r \in Rule : \A x \in CidrsOf(G[c][r]) : Anchored(st, x)

Blocked(G) == Ready => BlockedIn(ipam, G)

-----------------------------------------------------------------------------
ClaimsOK(G) ==
    /\ AnnotationCopies(G) /\ ClusterConfigCopies(G)
    /\ WorkerClaims(G) /\ RestoreClaims(G)
    /\ DisjointClaims(G) /\ InsideParents(G) /\ Blocked(G)

Steady == Phases /\ Named /\ Finalized

(* The invariant: some claims account for every copy. *)
Claimed == \E G \in ClaimMap : ClaimsOK(G)

-----------------------------------------------------------------------------
(* All that anybody has of each rule of each Cluster: the claims of the    *)
(* current state.                                                          *)
CurrentClaims ==
    [c \in Cluster |-> [r \in Rule |->
        (IF Exists(clusters[c]) THEN clusters[c].ann[r] ELSE {}) \cup
        (IF Live(ccs[c][r]) THEN ccs[c][r].patches ELSE {}) \cup
        (IF wk.pc \in {"config", "list", "generate", "annotate", "apply"} /\ wk.c = c
         THEN wk.cl.ann[r] \cup wk.ann[r] \cup wk.create[r] ELSE {}) \cup
        (IF wk.pc = "generate" /\ wk.c = c /\ wk.rules[CurrentRule].id = r THEN wk.raw ELSE {}) \cup
        (IF Exists(rs.todo[c]) THEN rs.todo[c].ann[r] ELSE {}) \cup
        (IF Live(rs.rest[c][r]) THEN rs.rest[c][r].patches ELSE {}) \cup
        (IF Exists(rs.handled[c][r]) THEN rs.handled[c][r].patches ELSE {}) \cup
        (IF rs.pc = "apply" /\ rs.c = c THEN rs.create[r] ELSE {})]]

(* The invariant, with claims that TLC can compute. *)
ClaimsHold ==
    Undisturbed =>
        /\ Steady
        /\ \E G \in {CurrentClaims} : G \in ClaimMap /\ ClaimsOK(G)
        /\ ParentsStay => Smooth
=============================================================================
