------------------------------- MODULE Shared -------------------------------
(***************************************************************************)
(* internal/shared: the IPAM state in the memory of the service and the    *)
(* functions both controllers use.  Every IPAM operation of the Cluster    *)
(* controller is one step that needs the IPAM lock; only a Restore holds   *)
(* the lock over several steps (Restore.tla).                              *)
(***************************************************************************)
EXTENDS Platform, Rebuild

VARIABLES
    ipam,   \* shared.IPAM.internal, a store of GoIpam
    lock    \* shared.IPAM.lock is held by a Restore

(* One ClusterConfig to update: the object as it was listed, whose         *)
(* resourceVersion the update is checked against, and the new object.      *)
Update == [was: ClusterConfig, now: ClusterConfig]

(* A RestorationInstruction: the patches of the ClusterConfigs to create   *)
(* ({} for none) and the ClusterConfigs to update (NoObject for none).     *)
Instruction ==
    [create: [Rule -> SUBSET Patch], update: [Rule -> Update \cup {NoObject}]]

NoUpdates == [r \in Rule |-> NoObject]

NewClusterConfig(uid, patches) ==
    [owner |-> uid, patches |-> patches, fin |-> TRUE, foreign |-> FALSE, deleting |-> FALSE]

(* The injections of `applied` whose path no patch of the object writes to.*)
MissingInjections(applied, cc) == {p \in applied : p.path \notin PathsOf(cc.patches)}


(* The ClusterConfig with the missing injections appended, and with the    *)
(* CIDR management finalizer unless it is in deletion.                     *)
Repaired(applied, cc) ==
    [cc EXCEPT !.patches = @ \cup MissingInjections(applied, cc),
               !.fin = @ \/ ~cc.deleting]

(* CheckClusterConfigsForCluster for the applied rules and the listed      *)
(* ClusterConfigs of one Cluster.                                          *)
CheckClusterConfigs(applied, listed) ==
    [create |-> [r \in Rule |-> IF Exists(listed[r]) THEN {} ELSE applied[r]],
     update |-> [r \in Rule |->
                    IF Exists(listed[r]) /\ Repaired(applied[r], listed[r]) # listed[r]
                    THEN [was |-> listed[r], now |-> Repaired(applied[r], listed[r])]
                    ELSE NoObject]]

(***************************************************************************)
(* RestorationInstruction.Apply, one API call at a time.  ok is FALSE when *)
(* the call returned an error; it may have taken effect all the same.      *)
(***************************************************************************)
ApplyCreate(c, r, uid, patches, ok) ==
    /\ \/ /\ ~Exists(ccs[c][r])
          /\ CreateClusterConfig(c, r, NewClusterConfig(uid, patches))
          /\ Answered("create", ok)
       \/ /\ ~ok
          /\ Exists(ccs[c][r])                    \* AlreadyExists
          /\ UNCHANGED <<ccs, queue, used>>
       \/ ~ok /\ ApiFails("create") /\ UNCHANGED <<ccs, queue>>
    /\ UNCHANGED <<clusters, stored, nextUid>>

ApplyUpdate(c, r, update, ok) ==
    /\ \/ /\ ccs[c][r] = update.was
          /\ WriteClusterConfig(c, r, Persisted(update.now))
          /\ Answered("update", ok)
       \/ /\ ~ok
          /\ ccs[c][r] # update.was               \* NotFound or Conflict
          /\ UNCHANGED <<ccs, queue, used>>
       \/ ~ok /\ ApiFails("update") /\ UNCHANGED <<ccs, queue>>
    /\ UNCHANGED <<clusters, stored, nextUid>>

(* Mutant: the CIDRs are released in place, so they are lost even if the   *)
(* finalizer cannot be removed.                                            *)
ReleaseCIDRs_InPlace(c, r, cc, ok) ==
    LET S == CidrsOf(cc.patches)
    IN  /\ \/ /\ ok /\ cc.fin /\ Exists(ccs[c][r])
              /\ WriteClusterConfig(c, r, Persisted([ccs[c][r] EXCEPT !.fin = FALSE, !.foreign = cc.foreign]))
              /\ UNCHANGED used
           \/ ok /\ ~cc.fin /\ UNCHANGED <<ccs, queue, used>>
           \/ ~ok /\ cc.fin /\ ApiFails("release") /\ UNCHANGED <<ccs, queue>>
        /\ ipam' = Forget(ipam, ReleasedInOrder(ipam, S))
        /\ UNCHANGED <<clusters, stored, nextUid>>

(* The API server rejects a patch of the finalizers if the object is gone, *)
(* or if it would bring a finalizer back while the object is in deletion.  *)
FinalizerPatchFails(now, cc) ==
    Exists(now) => now.deleting /\ cc.foreign /\ ~now.foreign

(***************************************************************************)
(* releaseCIDRsForClusterConfig_internal for the ClusterConfig cc as it    *)
(* was listed.  The CIDRs are released in a copy of the IPAM state; the    *)
(* finalizer is removed with a merge patch that replaces the finalizers of *)
(* the object by the listed ones; only then does the copy take effect.     *)
(* The code runs it under the IPAM lock.                                   *)
(***************************************************************************)
ReleaseCIDRs(c, r, cc, ok) ==
    LET S == CidrsOf(cc.patches)
        released == Forget(ipam, ReleasedInOrder(ipam, S))
    IN  /\ \/ /\ ~ReleaseFails(ipam, S) /\ cc.fin
              /\ ~FinalizerPatchFails(ccs[c][r], cc)
              /\ WriteClusterConfig(c, r, Persisted([ccs[c][r] EXCEPT !.fin = FALSE, !.foreign = cc.foreign]))
              /\ Answered("release", ok)
              /\ ipam' = IF ok THEN released ELSE ipam
           \/ /\ ok /\ ~ReleaseFails(ipam, S) /\ ~cc.fin
              /\ ipam' = released
              /\ UNCHANGED <<ccs, queue, used>>
           \/ /\ ~ok
              /\ ReleaseFails(ipam, S) \/ (cc.fin /\ FinalizerPatchFails(ccs[c][r], cc))
              /\ UNCHANGED <<ipam, ccs, queue, used>>
           \/ /\ ~ok /\ cc.fin /\ ApiFails("release")
              /\ UNCHANGED <<ipam, ccs, queue>>
        /\ UNCHANGED <<clusters, stored, nextUid>>

(* Delete of a ClusterConfig.  NotFound is not an error. *)
DeleteClusterConfig(c, r, ok) ==
    /\ \/ /\ IF Exists(ccs[c][r]) /\ ~ccs[c][r].deleting
             THEN WriteClusterConfig(c, r, Deleted(ccs[c][r]))
             ELSE UNCHANGED <<ccs, queue>>
          /\ Answered("delete", ok)
       \/ ~ok /\ ApiFails("delete") /\ UNCHANGED <<ccs, queue>>
    /\ UNCHANGED <<clusters, stored, nextUid>>
=============================================================================
