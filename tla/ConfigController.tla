-------------------------- MODULE ConfigController --------------------------
(***************************************************************************)
(* internal/controllers/config: the reconciler of the IPAMConfig, with one *)
(* worker.  It hands the config to the rest of the service, queues the     *)
(* Clusters a change of the rules may affect, and refreshes the IPAM state.*)
(***************************************************************************)
EXTENDS Restore

VARIABLE cf   \* the local state of the worker

(***************************************************************************)
(* pc        the next call of the reconciliation                           *)
(* cfg       the spec of the fetched config                                *)
(* deleting  the fetched config is in deletion                             *)
(* timer     a request delayed by RequeueAfter waits                       *)
(***************************************************************************)
ConfigWorker ==
    [pc: {"idle", "operation", "queue", "set", "refresh", "refreshing"},
     cfg: Configs \cup {NoObject}, deleting: BOOLEAN, timer: BOOLEAN]

IdleConfigWorker == [pc |-> "idle", cfg |-> NoObject, deleting |-> FALSE, timer |-> FALSE]

configUnchanged == <<clusters, ccs, nextUid, proc, ipam>>

(* The reconciliation ends.  A delayed request that waits stays, and one   *)
(* is added after a success if the config asks for refreshes.              *)
ConfigReturn(again) ==
    cf' = [IdleConfigWorker EXCEPT !.timer = cf.timer \/ again]

(* The config is at hand and not to be ignored. *)
HandleConfig(obj) ==
    LET same == Exists(config) /\ config.rules = obj.spec.rules
    IN  cf' = [cf EXCEPT !.pc = IF obj.deleting \/ same THEN "set" ELSE "queue",
                         !.cfg = obj.spec, !.deleting = obj.deleting]

(* Mutant: nothing is done for a config with the rules that are in force. *)
FetchConfig_RulesOnly ==
    /\ proc = "running" /\ cf.pc = "idle" /\ cfgQueued
    /\ \/ /\ ~Exists(stored)
          /\ config' = NoObject
          /\ UNCHANGED <<cf, cfgQueued, used>>
       \/ /\ Exists(stored)
          /\ cfgQueued' = FALSE
          /\ IF Exists(config) /\ config.rules = stored.spec.rules
             THEN UNCHANGED cf ELSE HandleConfig(stored)
          /\ UNCHANGED <<config, used>>
    /\ UNCHANGED <<stored, queue, lock, rs, configUnchanged>>

(* Get.  A config that is gone is also removed from memory; that and any   *)
(* other failure is an error, so the request stays in the queue.           *)
FetchConfig ==
    /\ proc = "running" /\ cf.pc = "idle" /\ cfgQueued
    /\ \/ /\ ~Exists(stored)
          /\ config' = NoObject
          /\ UNCHANGED <<cf, cfgQueued, used>>
       \/ /\ Exists(stored)
          /\ cfgQueued' = FALSE
          /\ \/ stored.op = "ignore" /\ UNCHANGED cf
             \/ stored.op = "reconcile" /\ cf' = [cf EXCEPT !.pc = "operation"]
             \/ stored.op = "none" /\ HandleConfig(stored)
          /\ UNCHANGED <<config, used>>
       \/ /\ ApiFails("get")
          /\ UNCHANGED <<cf, cfgQueued, config>>
    /\ UNCHANGED <<stored, queue, lock, rs, configUnchanged>>

(* Removes the "reconcile" annotation; the patch returns the current       *)
(* object.  The watch ignores the update unless "ignore" was lost.         *)
RemoveConfigOperation ==
    /\ cf.pc = "operation"
    /\ \/ /\ Exists(stored)
          /\ stored' = [stored EXCEPT !.op = "none"]
          /\ \/ /\ Answered("patch", TRUE)
                /\ HandleConfig(stored')
                /\ ConfigEvent(stored', stored.op = "ignore")
             \/ /\ Answered("patch", FALSE)
                /\ ConfigReturn(FALSE) /\ cfgQueued' = TRUE
       \/ /\ ~Exists(stored)
          /\ ConfigReturn(FALSE) /\ cfgQueued' = TRUE
          /\ UNCHANGED <<stored, used>>
       \/ /\ ApiFails("patch")
          /\ ConfigReturn(FALSE) /\ cfgQueued' = TRUE
          /\ UNCHANGED stored
    /\ UNCHANGED <<config, queue, lock, rs, configUnchanged>>

(* The rules have changed: every Cluster the new rules match is sent to    *)
(* the Cluster controller through the ClusterWatch channel.                *)
QueueClusters ==
    /\ cf.pc = "queue"
    /\ \/ /\ queue' = queue \cup RelevantClusters(cf.cfg)
          /\ cf' = [cf EXCEPT !.pc = "set"]
          /\ UNCHANGED <<cfgQueued, used>>
       \/ /\ ApiFails("list")
          /\ ConfigReturn(FALSE) /\ cfgQueued' = TRUE
          /\ UNCHANGED queue
    /\ UNCHANGED <<stored, config, lock, rs, configUnchanged>>

(* Mutant: the config is not taken out of memory while it is in deletion. *)
SetConfig_KeepsDeleted ==
    /\ cf.pc = "set"
    /\ config' = cf.cfg
    /\ \/ cf.cfg.refresh /\ cf' = [cf EXCEPT !.pc = "refresh"]
       \/ ConfigReturn(cf.cfg.refresh)
    /\ UNCHANGED <<stored, queue, cfgQueued, used, lock, rs, configUnchanged>>

(* The config takes effect, or is removed from memory while the object is  *)
(* in deletion.  A refresh follows if the config asks for it and its       *)
(* period is over; time is not modelled, so it may be over or not.         *)
SetConfig ==
    /\ cf.pc = "set"
    /\ config' = IF cf.deleting THEN NoObject ELSE cf.cfg
    /\ \/ cf.cfg.refresh /\ cf' = [cf EXCEPT !.pc = "refresh"]
       \/ ConfigReturn(cf.cfg.refresh)
    /\ UNCHANGED <<stored, queue, cfgQueued, used, lock, rs, configUnchanged>>

(* The Restore works with the config in memory and fetches it if there is  *)
(* none.                                                                   *)
Refresh ==
    /\ cf.pc = "refresh"
    /\ \/ /\ Exists(config)
          /\ BeginRestore(config)
       \/ /\ ~Exists(config) /\ Exists(stored)
          /\ BeginRestore(stored.spec)
       \/ /\ ~Exists(config) /\ ~Exists(stored)
          /\ RestoreReturns("failed")
          /\ UNCHANGED used
       \/ /\ ~Exists(config)
          /\ ApiFails("get")
          /\ RestoreReturns("failed")
    /\ cf' = [cf EXCEPT !.pc = "refreshing"]
    /\ UNCHANGED <<stored, queue, cfgQueued, config, configUnchanged>>

RefreshReturns ==
    /\ cf.pc = "refreshing" /\ rs.pc \in {"done", "failed"}
    /\ ConfigReturn(rs.pc = "done")
    /\ cfgQueued' = (cfgQueued \/ rs.pc = "failed")
    /\ rs' = IdleRestore
    /\ UNCHANGED <<stored, queue, config, used, lock, configUnchanged>>

(* RequeueAfter: the delayed request is due. *)
RefreshDue ==
    /\ UserAction("refresh")
    /\ cf.timer
    /\ cfgQueued' = TRUE
    /\ cf' = [cf EXCEPT !.timer = FALSE]
    /\ UNCHANGED <<stored, queue, config, lock, rs, configUnchanged>>

ConfigReconcile ==
    \/ FetchConfig \/ RemoveConfigOperation \/ QueueClusters \/ SetConfig
    \/ Refresh \/ RefreshReturns \/ RefreshDue
=============================================================================
