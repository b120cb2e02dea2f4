---------------------------- MODULE ConfigProofs ----------------------------
(***************************************************************************)
(* Proofs about the config controller: a service that has come to rest     *)
(* works with the config that is stored.                                   *)
(***************************************************************************)
EXTENDS GardenerIpamProofs

InForce(obj) == IF obj.deleting THEN NoObject ELSE obj.spec

(***************************************************************************)
(* While the controllers run, a stored config that is not to be ignored    *)
(* and for which no request is queued is in force, or the reconciliation   *)
(* under way has fetched exactly this config or will fetch it again.       *)
(***************************************************************************)
ConfigCurrent ==
    proc = "running" /\ Exists(stored) /\ stored.op # "ignore" /\ ~cfgQueued =>
        \/ cf.pc = "operation"
        \/ /\ cf.pc \in {"queue", "set"}
           /\ cf.cfg = stored.spec /\ cf.deleting = stored.deleting
        \/ /\ cf.pc \in {"idle", "refresh", "refreshing"}
           /\ config = InForce(stored)

(* The end of a reconciliation leaves an idle config controller. *)
LEMMA ConfigReturnIdle ==
    ASSUME NEW again, ConfigReturn(again)
    PROVE  cf'.pc = "idle"
  BY DEF ConfigReturn, IdleConfigWorker

(* The fetched config is the one the config controller goes on with. *)
LEMMA HandleConfigFetches ==
    ASSUME ConfigOK, NEW obj, HandleConfig(obj)
    PROVE  /\ cf'.pc \in {"queue", "set"}
           /\ cf'.cfg = obj.spec /\ cf'.deleting = obj.deleting
  BY DEF HandleConfig, ConfigOK, ConfigWorker

(* Nothing but the config controller, a user who writes the config and the *)
(* life of the process matters to the config in force.                     *)
LEMMA ConfigFrame ==
    ASSUME ConfigCurrent, UNCHANGED <<stored, proc, config, cfgQueued, cf>>
    PROVE  ConfigCurrent'
  BY DEF ConfigCurrent, InForce, Exists

(* The steps of the Cluster controller and of a Restore. *)
LEMMA ConfigOthers ==
    ASSUME ConfigCurrent, ClusterReconcile \/ RestoreStep, UNCHANGED cf
    PROVE  ConfigCurrent'
  <1>1. CASE ClusterReconcile
    <2>1. UNCHANGED <<stored, proc, config, cfgQueued>>
      BY <1>1 DEF ClusterReconcile, FetchCluster, FetchClusterFails, RemoveOperationAnnotation,
         GetConfigAgain, ManageInjections, ManageInjectionsFails, GenerateInjection, GenerateInjectionFails,
         PatchAnnotation, ApplyCreates, ApplyUpdates, FinishCreateOrUpdate, ListForDelete,
         ListForDeleteFails, ReleaseForDelete, DeleteForDelete, FinishDelete, workerUnchanged,
         ApplyCreate, ApplyUpdate, ReleaseCIDRs, DeleteClusterConfig
    <2> QED BY <2>1, ConfigFrame
  <1>2. CASE RestoreStep
    <2>1. UNCHANGED <<stored, proc, config, cfgQueued>>
      BY <1>2 DEF RestoreStep, RestoreList, RestoreCheck, RestoreCreate, RestoreUpdate,
         RestoreRefetch, RestoreChecked, OrphanGetCluster, OrphanDelete, OrphanReleaseCIDRs,
         RestoreOrphansHandled, RestoreBuild, restoreUnchanged,
         ApplyCreate, ApplyUpdate, ReleaseCIDRs, DeleteClusterConfig
    <2> QED BY <2>1, ConfigFrame
  <1> QED BY <1>1, <1>2

(* Users and foreign controllers: a config that is written is queued. *)
LEMMA ConfigEnvironment ==
    ASSUME ServiceOK, ConfigCurrent, Environment, UNCHANGED cf
    PROVE  ConfigCurrent'
  <1>1. CASE UNCHANGED <<stored, proc, config, cfgQueued>>
    BY <1>1, ConfigFrame
  <1>2. ASSUME NEW cfg \in Configs, StoreConfig(cfg)
        PROVE  ConfigCurrent'
    BY <1>2 DEF StoreConfig, ConfigEvent, ConfigCurrent
  <1>3. CASE DeleteConfig
    BY <1>3 DEF DeleteConfig, ConfigCurrent, Exists
  <1>4. CASE ChangeConfigMeta
    <2>1. stored \in ConfigObject /\ cfgQueued \in BOOLEAN
      BY <1>4 DEF ChangeConfigMeta, ServiceOK, ScalarsOK, Exists
    <2>2. UNCHANGED <<proc, config>>
      BY <1>4 DEF ChangeConfigMeta
    <2>3. CASE stored' = [stored EXCEPT !.deleting = TRUE] /\ ConfigEvent(stored', TRUE)
      BY <2>2, <2>3 DEF ConfigEvent, ConfigCurrent
    <2>4. ASSUME NEW op \in Operation, stored' = [stored EXCEPT !.op = op],
                 ConfigEvent(stored', op = "reconcile" \/ stored.op = "ignore")
          PROVE  ConfigCurrent'
      <3>1. /\ stored'.op = op /\ stored'.spec = stored.spec /\ stored'.deleting = stored.deleting
            /\ Exists(stored)
        BY <2>1, <2>4, NoObjectType DEF ConfigObject, Exists
      <3> QED BY <2>1, <2>2, <2>4, <3>1 DEF ConfigEvent, ConfigCurrent, InForce
    <2> QED BY <1>4, <2>3, <2>4 DEF ChangeConfigMeta
  <1> QED
    BY <1>1, <1>2, <1>3, <1>4
    DEF Environment, CreateCluster, DeleteCluster, GarbageCollect, SetOperation,
        ForeignFinalizer, EditClusterConfig

(* The config controller: what it has fetched is what it puts in force,    *)
(* unless a request for something newer is queued.                         *)
LEMMA ConfigReconciled ==
    ASSUME ServiceOK, ConfigCurrent, ConfigReconcile
    PROVE  ConfigCurrent'
  <1>0. /\ stored \in ConfigObject \cup {NoObject} /\ cfgQueued \in BOOLEAN
        /\ ConfigOK /\ cf \in ConfigWorker
    BY DEF ServiceOK, ScalarsOK, ConfigOK
  <1>1. CASE FetchConfig
    <2>1. CASE UNCHANGED cfgQueued
      BY <1>1, <2>1 DEF FetchConfig, ConfigCurrent
    <2>2. CASE Exists(stored) /\ stored.op = "ignore" /\ UNCHANGED stored
      BY <2>2 DEF ConfigCurrent
    <2>3. CASE Exists(stored) /\ UNCHANGED stored /\ cf' = [cf EXCEPT !.pc = "operation"]
      BY <1>0, <2>3 DEF ConfigCurrent, ConfigWorker
    <2>4. CASE Exists(stored) /\ UNCHANGED stored /\ HandleConfig(stored)
      BY <1>0, <2>4, HandleConfigFetches DEF ConfigCurrent
    <2> QED BY <1>1, <2>1, <2>2, <2>3, <2>4 DEF FetchConfig
  <1>2. CASE RemoveConfigOperation
    <2>1. CASE HandleConfig(stored')
      BY <1>0, <2>1, HandleConfigFetches DEF ConfigCurrent
    <2>2. CASE cfgQueued' = TRUE
      BY <2>2 DEF ConfigCurrent
    <2> QED BY <1>2, <2>1, <2>2 DEF RemoveConfigOperation
  <1>3. CASE QueueClusters
    <2>1. CASE cf' = [cf EXCEPT !.pc = "set"] /\ UNCHANGED cfgQueued
      BY <1>0, <1>3, <2>1 DEF QueueClusters, ConfigCurrent, ConfigWorker, configUnchanged
    <2>2. CASE cfgQueued' = TRUE
      BY <2>2 DEF ConfigCurrent
    <2> QED BY <1>3, <2>1, <2>2 DEF QueueClusters
  <1>4. CASE SetConfig
    <2>1. /\ cf.pc = "set" /\ config' = IF cf.deleting THEN NoObject ELSE cf.cfg
          /\ UNCHANGED <<stored, cfgQueued, proc>>
      BY <1>4 DEF SetConfig, configUnchanged
    <2>2. cf'.pc \in {"idle", "refresh"}
      BY <1>0, <1>4, ConfigReturnIdle DEF SetConfig, ConfigWorker
    <2> QED BY <2>1, <2>2 DEF ConfigCurrent, InForce
  <1>5. CASE Refresh
    <2>1. /\ cf.pc = "refresh" /\ cf' = [cf EXCEPT !.pc = "refreshing"]
          /\ UNCHANGED <<stored, cfgQueued, proc, config>>
      BY <1>5 DEF Refresh, configUnchanged
    <2>2. cf'.pc = "refreshing"
      BY <1>0, <2>1 DEF ConfigWorker
    <2> QED BY <2>1, <2>2 DEF ConfigCurrent, InForce
  <1>6. CASE RefreshReturns
    <2>1. /\ cf.pc = "refreshing" /\ (cfgQueued => cfgQueued')
          /\ UNCHANGED <<stored, proc, config>>
      BY <1>6 DEF RefreshReturns, configUnchanged
    <2>2. cf'.pc = "idle"
      BY <1>6, ConfigReturnIdle DEF RefreshReturns
    <2> QED BY <2>1, <2>2 DEF ConfigCurrent, InForce
  <1>7. CASE RefreshDue
    BY <1>7 DEF RefreshDue, ConfigCurrent
  <1> QED BY <1>1, <1>2, <1>3, <1>4, <1>5, <1>6, <1>7 DEF ConfigReconcile

(* Every step. *)
LEMMA ConfigStep ==
    ASSUME IndInv, ConfigCurrent, [Next]_vars
    PROVE  ConfigCurrent'
  <1>1. CASE UNCHANGED vars
    BY <1>1, ConfigFrame DEF vars
  <1>2. CASE Environment /\ UNCHANGED <<ipam, lock, wk, rs, cf, standby>>
    BY <1>2, ConfigEnvironment DEF IndInv
  <1>3. CASE ConfigReconcile
    BY <1>3, ConfigReconciled DEF IndInv
  <1>4. CASE (ClusterReconcile \/ RestoreStep) /\ UNCHANGED cf
    BY <1>4, ConfigOthers
  <1>5. CASE Start \/ BootFails \/ Crash
    BY <1>5 DEF Start, BootFails, Crash, ProcessExits, ConfigCurrent
  <1>6. CASE StartManager \/ TakeOver
    BY <1>6 DEF StartManager, TakeOver, StartWatches, ConfigCurrent
  <1> QED BY <1>1, <1>2, <1>3, <1>4, <1>5, <1>6 DEF Next

-----------------------------------------------------------------------------
(* Whenever the service has come to rest, it works with the config that is *)
(* stored, or with none if that is in deletion, whatever was written,      *)
(* failed, crashed or was taken over in between: no change of the config   *)
(* is lost between a watch event, the request queue and SetConfig.         *)
THEOREM ConfigTakesEffect == Spec => []QuietConfigCurrent
  <1>1. Init => ConfigCurrent
    BY DEF Init, ConfigCurrent
  <1>2. IndInv /\ ConfigCurrent /\ [Next]_vars => ConfigCurrent'
    BY ConfigStep
  <1>3. ConfigCurrent => QuietConfigCurrent
    BY DEF ConfigCurrent, QuietConfigCurrent, Quiet, InForce
  <1> QED BY <1>1, <1>2, <1>3, Inductive, PTL DEF Spec
=============================================================================
