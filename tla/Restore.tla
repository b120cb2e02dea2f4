------------------------------- MODULE Restore -------------------------------
(***************************************************************************)
(* RestoreIPAMFromClusterState (internal/shared/restore.go): repairs the   *)
(* ClusterConfigs of the relevant Clusters, cleans up orphaned ones and    *)
(* rebuilds the IPAM state from what is left.  It runs at startup and, if  *)
(* the config asks for it, periodically beside the Cluster controller.  It *)
(* holds the IPAM lock from its first step to its last.                    *)
(***************************************************************************)
EXTENDS Shared

VARIABLE rs   \* the local state of the Restore

(***************************************************************************)
(* pc       the next call                                                  *)
(* cfg      the config it works with                                       *)
(* todo     the listed relevant Clusters that are not checked yet          *)
(* rest     the listed ClusterConfigs that no checked Cluster owns         *)
(* handled  the ClusterConfigs that go into the IPAM state                 *)
(* c, r     the Cluster and the rule of the object in hand                 *)
(* uid, create, update, bad   the RestorationInstruction being applied,    *)
(*          and whether one of its calls failed                            *)
(* err      an error occurred: the Restore fails                           *)
(***************************************************************************)
Restoration ==
    [pc: {"idle", "listCCs", "check", "apply", "orphans", "delete", "release",
          "build", "done", "failed"},
     cfg: IPAMConfig \cup {NoObject},
     todo: [Cluster -> ClusterObject \cup {NoObject}],
     rest: [Cluster -> [Rule -> ClusterConfig \cup {NoObject}]],
     handled: [Cluster -> [Rule -> ClusterConfig \cup {NoObject}]],
     c: Cluster \cup {NoObject}, r: Rule \cup {NoObject}, uid: Nat,
     create: [Rule -> SUBSET Patch],
     update: [Rule -> Update \cup {NoObject}],
     bad: BOOLEAN, err: BOOLEAN]

NoClusters == [c \in Cluster |-> NoObject]
NoClusterConfigs == [c \in Cluster |-> NoConfigs]

IdleRestore ==
    [pc |-> "idle", cfg |-> NoObject, todo |-> NoClusters, rest |-> NoClusterConfigs,
     handled |-> NoClusterConfigs, c |-> NoObject, r |-> NoObject,
     uid |-> 0, create |-> NoInjections, update |-> NoUpdates, bad |-> FALSE, err |-> FALSE]

restoreUnchanged == <<nextUid, stored, proc, config, cfgQueued>>

(* The function returns; its caller sees the result (see GardenerIpam.tla). *)
RestoreReturns(result) ==
    /\ rs' = [IdleRestore EXCEPT !.pc = result]
    /\ lock' = FALSE

(***************************************************************************)
(* Taking the lock and FetchRelevantClusters, on behalf of the caller.     *)
(***************************************************************************)
BeginRestore(cfg) ==
    /\ rs.pc = "idle"
    /\ \/ /\ rs' = [IdleRestore EXCEPT
                        !.pc = "listCCs", !.cfg = cfg,
                        !.todo = [c \in Cluster |->
                                    IF c \in RelevantClusters(cfg) THEN clusters[c] ELSE NoObject]]
          /\ lock' = TRUE
          /\ UNCHANGED used
       \/ ApiFails("list") /\ RestoreReturns("failed")

(* FetchClusterConfigs *)
RestoreList ==
    /\ rs.pc = "listCCs"
    /\ \/ /\ rs' = [rs EXCEPT !.pc = "check", !.rest = ccs]
          /\ UNCHANGED <<lock, used>>
       \/ ApiFails("list") /\ RestoreReturns("failed")
    /\ UNCHANGED <<clusters, ccs, ipam, queue, restoreUnchanged>>

-----------------------------------------------------------------------------
(* The integrity check of each relevant Cluster.                           *)

RestoreCheck(c) ==
    /\ rs.pc = "check"
    /\ Exists(rs.todo[c])
    /\ LET ri == CheckClusterConfigs(rs.todo[c].ann, rs.rest[c])
           empty == ri.create = NoInjections /\ ri.update = NoUpdates
       IN  rs' = [rs EXCEPT !.todo[c] = NoObject, !.rest[c] = NoConfigs,
                            !.handled[c] = rs.rest[c],
                            !.pc = IF empty THEN "check" ELSE "apply",
                            !.c = c, !.uid = rs.todo[c].uid, !.bad = FALSE,
                            !.create = ri.create, !.update = ri.update]
    /\ UNCHANGED <<clusters, ccs, ipam, lock, queue, used, restoreUnchanged>>

RestoreCreate ==
    /\ rs.pc = "apply"
    /\ \E r \in Rule, ok \in BOOLEAN :
        /\ rs.create[r] # {}
        /\ ApplyCreate(rs.c, r, rs.uid, rs.create[r], ok)
        /\ rs' = [rs EXCEPT !.create[r] = {}, !.bad = @ \/ ~ok]
    /\ UNCHANGED <<ipam, lock, proc, config, cfgQueued>>

RestoreUpdate ==
    /\ rs.pc = "apply" /\ rs.create = NoInjections
    /\ \E r \in Rule, ok \in BOOLEAN :
        /\ Exists(rs.update[r])
        /\ ApplyUpdate(rs.c, r, rs.update[r], ok)
        /\ rs' = [rs EXCEPT !.update[r] = NoObject, !.bad = @ \/ ~ok]
    /\ UNCHANGED <<ipam, lock, proc, config, cfgQueued>>

(* Mutant: the ClusterConfigs are not listed again. *)
RestoreRefetch_Stale ==
    /\ rs.pc = "apply" /\ rs.create = NoInjections /\ rs.update = NoUpdates
    /\ rs' = [rs EXCEPT !.pc = "check", !.err = @ \/ rs.bad]
    /\ UNCHANGED <<clusters, ccs, ipam, lock, queue, used, restoreUnchanged>>

(* After a successful Apply the ClusterConfigs of the Cluster are listed   *)
(* again; after a failed one the next Cluster follows.                     *)
RestoreRefetch ==
    /\ rs.pc = "apply" /\ rs.create = NoInjections /\ rs.update = NoUpdates
    /\ \/ /\ ~rs.bad
          /\ rs' = [rs EXCEPT !.pc = "check",
                              !.handled[rs.c] = [r \in Rule |-> IF Exists(ccs[rs.c][r])
                                                                THEN ccs[rs.c][r] ELSE @[r]]]
          /\ UNCHANGED used
       \/ /\ rs.bad
          /\ rs' = [rs EXCEPT !.pc = "check", !.err = TRUE]
          /\ UNCHANGED used
       \/ /\ ~rs.bad
          /\ ApiFails("list")
          /\ rs' = [rs EXCEPT !.pc = "check", !.err = TRUE]
    /\ UNCHANGED <<clusters, ccs, ipam, lock, queue, restoreUnchanged>>

RestoreChecked ==
    /\ rs.pc = "check" /\ rs.todo = NoClusters
    /\ IF rs.err THEN RestoreReturns("failed")
       ELSE rs' = [rs EXCEPT !.pc = "orphans"] /\ UNCHANGED lock
    /\ UNCHANGED <<clusters, ccs, ipam, queue, used, restoreUnchanged>>

-----------------------------------------------------------------------------
(* handleOrphanedClusterConfigs_internal for the ClusterConfigs that are   *)
(* left.                                                                   *)

(* The ClusterConfig in hand is dealt with. *)
OrphanHandled == [rs EXCEPT !.pc = "orphans", !.rest[rs.c][rs.r] = NoObject]

(* Does the Cluster exist?  If it does, the CIDRs of the ClusterConfig     *)
(* stay allocated if it has the finalizer.  If not, the ClusterConfig is   *)
(* cleaned up, and so it is when the call fails with another error than    *)
(* NotFound.                                                               *)
OrphanGetCluster(c, r) ==
    /\ rs.pc = "orphans" /\ Exists(rs.rest[c][r])
    /\ LET cc == rs.rest[c][r]
       IN  \/ /\ Exists(clusters[c])
              /\ rs' = [rs EXCEPT !.rest[c][r] = NoObject,
                                  !.handled[c][r] = IF cc.fin THEN cc ELSE @]
              /\ UNCHANGED used
           \/ /\ ~Exists(clusters[c])
              /\ rs' = [rs EXCEPT !.pc = "delete", !.c = c, !.r = r]
              /\ UNCHANGED used
           \/ /\ ApiFails("get")
              /\ rs' = [rs EXCEPT !.pc = "delete", !.c = c, !.r = r, !.err = TRUE]
    /\ UNCHANGED <<clusters, ccs, ipam, lock, queue, restoreUnchanged>>

OrphanDelete ==
    /\ rs.pc = "delete"
    /\ LET cc == rs.rest[rs.c][rs.r]
           next == IF cc.fin THEN [rs EXCEPT !.pc = "release"] ELSE OrphanHandled
       IN  \/ /\ cc.deleting
              /\ rs' = next
              /\ UNCHANGED <<clusters, ccs, queue, used, stored, nextUid>>
           \/ /\ ~cc.deleting
              /\ DeleteClusterConfig(rs.c, rs.r, TRUE)
              /\ rs' = next
           \/ /\ ~cc.deleting
              /\ DeleteClusterConfig(rs.c, rs.r, FALSE)
              /\ rs' = [OrphanHandled EXCEPT !.err = TRUE]
    /\ UNCHANGED <<ipam, lock, proc, config, cfgQueued>>

OrphanReleaseCIDRs ==
    /\ rs.pc = "release"
    /\ \E ok \in BOOLEAN :
        /\ ReleaseCIDRs(rs.c, rs.r, rs.rest[rs.c][rs.r], ok)
        /\ rs' = [OrphanHandled EXCEPT !.err = @ \/ ~ok]
    /\ UNCHANGED <<lock, proc, config, cfgQueued>>

RestoreOrphansHandled ==
    /\ rs.pc = "orphans" /\ rs.rest = NoClusterConfigs
    /\ IF rs.err THEN RestoreReturns("failed")
       ELSE rs' = [rs EXCEPT !.pc = "build"] /\ UNCHANGED lock
    /\ UNCHANGED <<clusters, ccs, ipam, queue, used, restoreUnchanged>>

-----------------------------------------------------------------------------
(* Mutant: CIDRs inside another one of the ClusterConfig are left out. *)
HandledCidrs_OutermostOnly ==
    [k \in Cluster \X Rule |->
        LET cc == rs.handled[k[1]][k[2]]
            S  == IF Exists(cc) THEN CidrsOf(cc.patches) ELSE {}
        IN  {x \in S : \A y \in S : ~StrictlyContains(y, x)}]

HandledCidrs ==
    [k \in Cluster \X Rule |->
        LET cc == rs.handled[k[1]][k[2]] IN IF Exists(cc) THEN CidrsOf(cc.patches) ELSE {}]

(* The new IPAM state replaces the old one, or the old one stays. *)
RestoreBuild ==
    /\ rs.pc = "build"
    /\ IF RebuildFails(ParentCIDRs(rs.cfg), HandledCidrs)
       THEN RestoreReturns("failed") /\ UNCHANGED ipam
       ELSE RestoreReturns("done") /\ ipam' = Rebuilt(ParentCIDRs(rs.cfg), HandledCidrs)
    /\ UNCHANGED <<clusters, ccs, queue, used, restoreUnchanged>>

RestoreStep ==
    \/ RestoreList
    \/ \E c \in Cluster : RestoreCheck(c)
    \/ RestoreCreate \/ RestoreUpdate \/ RestoreRefetch \/ RestoreChecked
    \/ \E c \in Cluster, r \in Rule : OrphanGetCluster(c, r)
    \/ OrphanDelete \/ OrphanReleaseCIDRs \/ RestoreOrphansHandled
    \/ RestoreBuild
=============================================================================
