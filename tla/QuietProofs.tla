----------------------------- MODULE QuietProofs -----------------------------
(***************************************************************************)
(* A service at rest is finished: proofs of the Quiet properties of        *)
(* GardenerIpam.tla from the invariants of Pending.tla.                    *)
(***************************************************************************)
EXTENDS PromiseProofs, Pending

(***************************************************************************)
(* The config.                                                             *)
(***************************************************************************)

(* The process works with the config that is stored. *)
LEMMA FixedConfig ==
    ASSUME IndInv, Fixed, proc # "down"
    PROVE  config \in Configs /\ Exists(config) /\ config = stored.spec
  <1>1. stored \in ConfigObject /\ config = stored.spec
    BY DEF Fixed, Exists, IndInv, ServiceOK, ScalarsOK
  <1>2. config \in Configs
    BY <1>1 DEF ConfigObject
  <1> QED BY <1>1, <1>2, ConfigType

(* Nobody changes the stored config. *)
LEMMA EnvironmentFixed ==
    ASSUME ConfigStays, Fixed, Environment, UNCHANGED cf
    PROVE  Fixed' /\ UNCHANGED <<stored, proc, config>>
  <1>1. \A kind \in {"config", "configMeta"} : ~UserAction(kind)
    BY DEF ConfigStays, UserAction
  <1>2. UNCHANGED <<stored, proc, config>>
    BY <1>1 DEF Environment, CreateCluster, DeleteCluster, GarbageCollect, SetOperation,
       ForeignFinalizer, EditClusterConfig, StoreConfig, DeleteConfig, ChangeConfigMeta, Fixed
  <1> QED BY <1>2 DEF Fixed

(* The config controller sets the config that is in force already. *)
LEMMA ConfigReconcileFixed ==
    ASSUME Undisturbed, IndInv, Steady, Fixed, ConfigReconcile
    PROVE  Fixed' /\ UNCHANGED <<stored, proc, config>> /\ queue \subseteq queue'
  <1>1. cf.pc \notin {"refresh", "refreshing", "operation"} /\ cf \in ConfigWorker
    BY DEF Steady, Phases, Fixed, IndInv, ServiceOK, ConfigOK
  <1>2. CASE FetchConfig
    <2>1. UNCHANGED <<stored, proc, config, queue>> /\ proc = "running"
      BY <1>2 DEF FetchConfig, configUnchanged, Fixed
    <2>2. UNCHANGED cf \/ HandleConfig(stored)
      BY <1>2 DEF FetchConfig, Fixed
    <2>3. /\ cf'.pc # "operation"
          /\ cf'.pc \in {"queue", "set"} => cf'.cfg = stored.spec /\ ~cf'.deleting
      BY <1>1, <2>2 DEF Fixed, HandleConfig, ConfigWorker
    <2> QED BY <2>1, <2>3 DEF Fixed
  <1>3. CASE QueueClusters
    <2>1. UNCHANGED <<stored, proc, config>> /\ queue \subseteq queue' /\ proc = "running"
      BY <1>3 DEF QueueClusters, configUnchanged, Fixed
    <2>2. /\ cf'.pc # "operation"
          /\ cf'.pc \in {"queue", "set"} => cf'.cfg = stored.spec /\ ~cf'.deleting
      BY <1>1, <1>3 DEF Fixed, QueueClusters, ConfigReturn, IdleConfigWorker, ConfigWorker
    <2> QED BY <2>1, <2>2 DEF Fixed
  <1>4. CASE SetConfig
    <2>1. /\ cf.cfg = stored.spec /\ config' = stored.spec /\ config = stored.spec
          /\ UNCHANGED <<stored, proc, queue>> /\ proc = "running"
      BY <1>4 DEF SetConfig, configUnchanged, Fixed
    <2>2. stored.spec \in Configs
      BY DEF Fixed, Exists, IndInv, ServiceOK, ScalarsOK, ConfigObject
    <2>3. ConfigReturn(cf.cfg.refresh)
      BY <1>4, <2>1, <2>2 DEF SetConfig, Undisturbed
    <2>4. cf'.pc = "idle"
      BY <2>3 DEF ConfigReturn, IdleConfigWorker
    <2> QED BY <2>1, <2>4 DEF Fixed
  <1>5. CASE RefreshDue
    <2>1. cf'.pc = cf.pc /\ cf'.cfg = cf.cfg /\ cf'.deleting = cf.deleting
      BY <1>1, <1>5 DEF RefreshDue, ConfigWorker
    <2>2. UNCHANGED <<stored, proc, config, queue>>
      BY <1>5 DEF RefreshDue, configUnchanged
    <2> QED BY <2>1, <2>2 DEF Fixed
  <1> QED
    BY <1>1, <1>2, <1>3, <1>4, <1>5
    DEF ConfigReconcile, RemoveConfigOperation, Refresh, RefreshReturns

(* No step changes the config, except that starting reads it and stopping  *)
(* forgets it.                                                             *)
LEMMA NextFixed ==
    ASSUME Undisturbed, ConfigStays, IndInv, Steady, Fixed, [Next]_vars
    PROVE  Fixed' /\ UNCHANGED stored
  <1>1. CASE Environment /\ UNCHANGED <<ipam, lock, wk, rs, cf, standby>>
    BY <1>1, EnvironmentFixed
  <1>2. CASE ConfigReconcile /\ UNCHANGED <<wk, standby>>
    BY <1>2, ConfigReconcileFixed
  <1>3. CASE \/ ClusterReconcile /\ UNCHANGED <<rs, cf, standby>>
             \/ RestoreStep /\ UNCHANGED <<wk, cf, standby>>
             \/ UNCHANGED vars
    <2>1. UNCHANGED <<stored, proc, config, cf>>
      <3>1. CASE ClusterReconcile /\ UNCHANGED <<rs, cf, standby>>
        BY <3>1 DEF ClusterReconcile, FetchCluster, FetchClusterFails, RemoveOperationAnnotation,
           GetConfigAgain, ManageInjections, ManageInjectionsFails, GenerateInjection, GenerateInjectionFails,
           PatchAnnotation, ApplyCreates, ApplyUpdates, FinishCreateOrUpdate, ListForDelete,
           ListForDeleteFails, ReleaseForDelete, DeleteForDelete, FinishDelete, workerUnchanged,
           ApplyCreate, ApplyUpdate, ReleaseCIDRs, DeleteClusterConfig
      <3>2. CASE RestoreStep /\ UNCHANGED <<wk, cf, standby>>
        BY <3>2 DEF RestoreStep, RestoreList, RestoreCheck, RestoreCreate, RestoreUpdate,
           RestoreRefetch, RestoreChecked, OrphanGetCluster, OrphanDelete, OrphanReleaseCIDRs,
           RestoreOrphansHandled, RestoreBuild, restoreUnchanged, ApplyCreate, ApplyUpdate,
           ReleaseCIDRs, DeleteClusterConfig
      <3> QED BY <1>3, <3>1, <3>2 DEF vars
    <2> QED BY <2>1 DEF Fixed
  <1>4. CASE Start
    BY <1>4 DEF Start, Fixed
  <1>5. CASE StartManager
    BY <1>5 DEF StartManager, Fixed
  <1>6. CASE BootFails \/ Crash
    <2>1. UNCHANGED stored /\ proc' = "down" /\ cf'.pc = "idle"
      BY <1>6 DEF BootFails, Crash, ProcessExits, IdleConfigWorker
    <2> QED BY <2>1 DEF Fixed
  <1> QED
    BY <1>1, <1>2, <1>3, <1>4, <1>5, <1>6, TakeOverImpossible DEF Next

-----------------------------------------------------------------------------
(***************************************************************************)
(* Clusters and their ClusterConfigs.                                      *)
(***************************************************************************)
LiveKept(c) ==
    Exists(clusters[c]) => \A r \in Rule : Live(ccs[c][r]) => Live(ccs'[c][r])

(* A ClusterConfig stays as long as its Cluster, and none is empty. *)
LEMMA NextLive ==
    ASSUME Undisturbed, IndInv, Steady, Claimed, [Next]_vars
    PROVE  /\ \A c \in Cluster : LiveKept(c)
           /\ Filled => Filled'
  <1>1. PICK G \in ClaimMap : ClaimsOK(G)
    BY DEF Claimed
  <1>2. StepKind(G)
    BY <1>1, NextKind
  <1>3. ASSUME NEW c \in Cluster, NEW r \in Rule
        PROVE  /\ Exists(clusters[c]) /\ Live(ccs[c][r]) => Live(ccs'[c][r])
               /\ \/ ~Live(ccs'[c][r])
                  \/ Live(ccs[c][r]) /\ ccs'[c][r].patches = ccs[c][r].patches
                  \/ ccs'[c][r].patches # {}
    <2>1. CASE Keeps
      BY <2>1 DEF Keeps, SameConfig
    <2>2. CASE UNCHANGED ccs
      BY <2>2 DEF Live
    <2>3. ASSUME NEW h \in Cluster, NEW s \in Rule, Returns(h, s)
          PROVE  /\ Exists(clusters[c]) /\ Live(ccs[c][r]) => Live(ccs'[c][r])
                 /\ \/ ~Live(ccs'[c][r])
                    \/ Live(ccs[c][r]) /\ ccs'[c][r].patches = ccs[c][r].patches
      BY <2>3 DEF Returns, SameConfig
    <2>4. ASSUME NEW h \in Cluster, Grants(h)
          PROVE  /\ Live(ccs[c][r]) => Live(ccs'[c][r])
                 /\ \/ ~Live(ccs'[c][r])
                    \/ Live(ccs[c][r]) /\ ccs'[c][r].patches = ccs[c][r].patches
                    \/ ccs'[c][r].patches # {}
      BY <2>4 DEF Grants, SameConfig
    <2> QED BY <1>2, <2>1, <2>2, <2>3, <2>4 DEF StepKind, Arrives, Leaves
  <1>4. ASSUME Filled, NEW c \in Cluster, NEW r \in Rule, Live(ccs'[c][r])
        PROVE  ccs'[c][r].patches # {}
    BY <1>3, <1>4 DEF Filled
  <1>5. Filled' = \A c \in Cluster, r \in Rule : Live(ccs'[c][r]) => ccs'[c][r].patches # {}
    BY DEF Filled, Live, Exists
  <1> QED BY <1>3, <1>4, <1>5 DEF LiveKept

(* What is done for a Cluster stays done. *)
LEMMA DoneKept ==
    ASSUME NEW c \in Cluster, Exists(clusters[c]), LiveKept(c), Done(c), UNCHANGED config,
           clusters'[c].ann = clusters[c].ann, clusters'[c].purpose = clusters[c].purpose
    PROVE  Done(c)'
  BY DEF Done, LiveKept, Applied, Matches, Live, Exists

ServedCluster(c) ==
    Exists(clusters[c]) /\ clusters[c].op # "ignore" => Attended(c) \/ Done(c)

(* The worker is not disturbed by what happens around it. *)
LEMMA OutsideInHand ==
    ASSUME WorkerOK, InHand, UNCHANGED <<wk, config>>, LiveKept(wk.c),
           Working /\ Exists(clusters'[wk.c]) =>
                /\ Exists(clusters[wk.c])
                /\ clusters'[wk.c].ann = clusters[wk.c].ann
                /\ clusters'[wk.c].purpose = clusters[wk.c].purpose
    PROVE  InHand'
  <1>1. Working' = Working
    BY DEF Working
  <1> SUFFICES ASSUME Working, Exists(clusters'[wk.c])
               PROVE  /\ wk.rules = config.rules
                      /\ wk.cl.purpose = clusters'[wk.c].purpose
                      /\ wk.pc # "apply" => clusters'[wk.c].ann = wk.cl.ann
                      /\ wk.pc \in {"config", "list"} \/ wk.err \/ OnTrack'
    BY <1>1 DEF InHand, Exists
  <1>2. /\ wk.rules = config.rules
        /\ wk.cl.purpose = clusters[wk.c].purpose
        /\ wk.pc # "apply" => clusters[wk.c].ann = wk.cl.ann
        /\ wk.pc \in {"config", "list"} \/ wk.err \/ OnTrack
    BY DEF InHand
  <1>3. OnTrack => OnTrack'
    BY DEF OnTrack, LiveKept, Live, Exists
  <1> QED BY <1>2, <1>3

(* A step of others leaves every Cluster served, if those that are new or  *)
(* no longer ignored are queued.                                           *)
LEMMA OutsideServed ==
    ASSUME UNCHANGED <<wk, config>>, queue \subseteq queue', Exists(config),
           NEW c \in Cluster, LiveKept(c), ServedCluster(c),
           Exists(clusters'[c]) /\ clusters'[c].op # "ignore" =>
                \/ /\ Exists(clusters[c]) /\ clusters[c].op # "ignore"
                   /\ clusters'[c].ann = clusters[c].ann
                   /\ clusters'[c].purpose = clusters[c].purpose
                \/ Matches(config, clusters'[c].purpose) => c \in queue'
    PROVE  ServedCluster(c)'
  <1> SUFFICES ASSUME Exists(clusters'[c]), clusters'[c].op # "ignore"
               PROVE  Attended(c)' \/ Done(c)'
    BY DEF ServedCluster, Exists
  <1>1. Attended(c) => Attended(c)'
    BY DEF Attended, Working
  <1>2. CASE /\ Exists(clusters[c]) /\ clusters[c].op # "ignore"
             /\ clusters'[c].ann = clusters[c].ann
             /\ clusters'[c].purpose = clusters[c].purpose
    BY <1>1, <1>2, DoneKept DEF ServedCluster
  <1>3. CASE Matches(config, clusters'[c].purpose) => c \in queue'
    BY <1>3 DEF Attended, Done, Matches
  <1> QED BY <1>2, <1>3

-----------------------------------------------------------------------------
(***************************************************************************)
(* Users and foreign controllers.                                          *)
(***************************************************************************)
Noticed(c) == proc = "running" /\ Exists(config) /\ Matches(config, clusters'[c].purpose) => c \in queue'

(* A Cluster that is not created or deleted keeps all but its operation    *)
(* annotation and its references.                                          *)
Stays(c) ==
    /\ Exists(clusters[c]) /\ Exists(clusters'[c])
    /\ clusters'[c].ann = clusters[c].ann /\ clusters'[c].purpose = clusters[c].purpose
    /\ clusters'[c].op # "ignore" /\ clusters[c].op = "ignore" => Noticed(c)

(* What the watch sees of a Cluster. *)
LEMMA EventNoticed ==
    ASSUME NEW c, NEW cl, NEW relevant, ClusterEvent(c, cl, relevant)
    PROVE  /\ queue \subseteq queue'
           /\ \/ ~relevant \/ cl.op = "ignore" \/ proc # "running" \/ ~Exists(config)
              \/ Matches(config, cl.purpose) => c \in queue'
  BY DEF ClusterEvent, ClusterPredicate

(* Users create, delete and annotate Clusters; the watch notices what      *)
(* matters.                                                                *)
LEMMA EnvironmentClusters ==
    ASSUME Undisturbed, IndInv, Environment
    PROVE  /\ queue \subseteq queue'
           /\ \A c \in Cluster : Exists(clusters'[c]) =>
                \/ Stays(c)
                \/ /\ ~Exists(clusters[c]) /\ c \notin used.names
                   /\ clusters'[c].ann = NoInjections /\ clusters'[c].op = "none" /\ Noticed(c)
  <1> DEFINE Goal ==
        /\ queue \subseteq queue'
        /\ \A c \in Cluster : Exists(clusters'[c]) =>
            \/ Stays(c)
            \/ /\ ~Exists(clusters[c]) /\ c \notin used.names
               /\ clusters'[c].ann = NoInjections /\ clusters'[c].op = "none" /\ Noticed(c)
  <1>1. ApiOK /\ ScalarsOK
    BY DEF IndInv, ServiceOK
  <1>2. ASSUME NEW d \in Cluster, UNCHANGED clusters \/ clusters'[d] = clusters[d]
        PROVE  Exists(clusters'[d]) => Stays(d)
    BY <1>2 DEF Stays, Exists
  <1>3. ASSUME NEW c \in Cluster, NEW p \in Purpose, NEW named \in BOOLEAN, CreateCluster(c, p, named)
        PROVE  Goal
    <2> DEFINE new == [uid |-> nextUid, purpose |-> p, op |-> "none",
                       ann |-> NoInjections, refs |-> {}]
               cl  == Default(new, named)
    <2>1. /\ ~Exists(clusters[c]) /\ c \notin used.names
          /\ clusters' = [clusters EXCEPT ![c] = cl] /\ ClusterEvent(c, cl, TRUE)
      BY <1>3 DEF CreateCluster, Undisturbed
    <2>2. new \in ClusterObject
      BY <1>1, NothingType DEF ClusterObject, Operation, ScalarsOK
    <2>3. cl.ann = NoInjections /\ cl.op = "none"
      BY <2>2, DefaultFields
    <2> HIDE DEF cl
    <2>4. clusters'[c] = cl /\ \A d \in Cluster \ {c} : clusters'[d] = clusters[d]
      BY <1>1, <2>1 DEF ApiOK
    <2>5. queue \subseteq queue' /\ Noticed(c)
      BY <2>1, <2>3, <2>4, EventNoticed DEF Noticed
    <2>6. \A d \in Cluster : d # c => (Exists(clusters'[d]) => Stays(d))
      BY <1>2, <2>4
    <2> QED BY <2>1, <2>3, <2>4, <2>5, <2>6
  <1>4. ASSUME NEW c \in Cluster, DeleteCluster(c)
        PROVE  Goal
    <2>1. clusters' = [clusters EXCEPT ![c] = NoObject] /\ ClusterEvent(c, clusters[c], TRUE)
      BY <1>4 DEF DeleteCluster
    <2>2. ~Exists(clusters'[c]) /\ \A d \in Cluster \ {c} : clusters'[d] = clusters[d]
      BY <1>1, <2>1 DEF ApiOK, Exists
    <2>3. queue \subseteq queue'
      BY <2>1, EventNoticed
    <2>4. \A d \in Cluster : d # c => (Exists(clusters'[d]) => Stays(d))
      BY <1>2, <2>2
    <2> QED BY <2>2, <2>3, <2>4
  <1>5. ASSUME NEW c \in Cluster, NEW op \in Operation, SetOperation(c, op)
        PROVE  Goal
    <2> DEFINE old == clusters[c]
               new == [old EXCEPT !.op = op]
               cl  == Default(new, TRUE)
    <2>1. /\ Exists(old) /\ Admitted
          /\ clusters' = [clusters EXCEPT ![c] = cl]
          /\ ClusterEvent(c, cl, op = "reconcile" \/ old.op = "ignore")
      BY <1>5 DEF SetOperation
    <2>2. old \in ClusterObject
      BY <1>1, <2>1 DEF ApiOK, Exists
    <2>3. /\ new \in ClusterObject /\ new.ann = old.ann /\ new.purpose = old.purpose
          /\ new.op = op
      BY <2>2 DEF ClusterObject
    <2>4. cl.ann = old.ann /\ cl.purpose = old.purpose /\ cl.op = op
      BY <2>3, DefaultFields
    <2>5. Exists(cl)
      BY <1>1, <2>1, <2>3, DefaultType, NoObjectType DEF Exists
    <2> HIDE DEF cl
    <2>6. clusters'[c] = cl /\ \A d \in Cluster \ {c} : clusters'[d] = clusters[d]
      BY <1>1, <2>1 DEF ApiOK
    <2>7. queue \subseteq queue' /\ (op # "ignore" /\ old.op = "ignore" => Noticed(c))
      <3> DEFINE relevant == op = "reconcile" \/ old.op = "ignore"
      <3>1. ClusterEvent(c, cl, relevant)
        BY <2>1
      <3> HIDE DEF relevant
      <3>2. /\ queue \subseteq queue'
            /\ \/ ~relevant \/ cl.op = "ignore" \/ proc # "running" \/ ~Exists(config)
               \/ Matches(config, cl.purpose) => c \in queue'
        BY <3>1, EventNoticed
      <3> QED BY <2>4, <2>6, <3>2 DEF Noticed, relevant
    <2>8. Stays(c)
      BY <2>1, <2>4, <2>5, <2>6, <2>7 DEF Stays
    <2>9. \A d \in Cluster : d # c => (Exists(clusters'[d]) => Stays(d))
      BY <1>2, <2>6
    <2> QED BY <2>7, <2>8, <2>9
  <1>6. ASSUME \/ \E c \in Cluster, r \in Rule : GarbageCollect(c, r)
               \/ \E cfg \in Configs : StoreConfig(cfg)
               \/ DeleteConfig \/ ChangeConfigMeta
        PROVE  Goal
    <2>1. UNCHANGED clusters /\ queue \subseteq queue'
      BY <1>6 DEF GarbageCollect, WriteClusterConfig, StoreConfig, DeleteConfig, ChangeConfigMeta
    <2> QED BY <1>2, <2>1
  <1>7. \A c \in Cluster, r \in Rule, b \in BOOLEAN : ~ForeignFinalizer(c, r, b) /\ ~EditClusterConfig(c, r)
    BY DEF ForeignFinalizer, EditClusterConfig, UserAction, Undisturbed
  <1> QED
    BY <1>3, <1>4, <1>5, <1>6, <1>7 DEF Environment

(* The users leave every Cluster served. *)
LEMMA EnvironmentServed ==
    ASSUME Undisturbed, IndInv, Steady, Fixed, Environment, UNCHANGED <<wk, proc, config>>,
           \A c \in Cluster : LiveKept(c), InHand, Served
    PROVE  InHand' /\ Served'
  <1>1. /\ queue \subseteq queue'
        /\ \A c \in Cluster : Exists(clusters'[c]) =>
            \/ Stays(c)
            \/ ~Exists(clusters[c]) /\ c \notin used.names /\ Noticed(c)
    BY EnvironmentClusters
  <1>2. InHand'
    <2>1. CASE wk.pc = "idle"
      BY <2>1 DEF InHand, Working
    <2>2. CASE wk.pc # "idle"
      <3>1. wk.c \in Cluster /\ wk.c \in used.names /\ WorkerOK
        BY <2>2, WorkerRuns DEF IndInv, ServiceOK
      <3> QED BY <1>1, <3>1, OutsideInHand DEF Stays
    <2> QED BY <2>1, <2>2
  <1>3. ASSUME proc = "running", NEW c \in Cluster
        PROVE  ServedCluster(c)'
    <2>1. ServedCluster(c) /\ Exists(config) /\ LiveKept(c)
      BY <1>3, FixedConfig DEF Served, ServedCluster
    <2> QED BY <1>1, <1>3, <2>1, OutsideServed DEF Stays, Noticed
  <1> QED BY <1>2, <1>3 DEF Served, ServedCluster

(* The config controller only adds to the queue. *)
LEMMA ConfigReconcileServed ==
    ASSUME Undisturbed, IndInv, Steady, Fixed, ConfigReconcile, UNCHANGED wk,
           \A c \in Cluster : LiveKept(c), InHand, Served
    PROVE  InHand' /\ Served'
  <1>1. UNCHANGED <<proc, config, clusters>> /\ queue \subseteq queue'
    BY ConfigReconcileFixed DEF ConfigReconcile, FetchConfig, RemoveConfigOperation, QueueClusters,
       SetConfig, Refresh, RefreshReturns, RefreshDue, configUnchanged
  <1>2. InHand'
    <2>1. CASE wk.pc = "idle"
      BY <2>1 DEF InHand, Working
    <2>2. CASE wk.pc # "idle"
      <3>1. wk.c \in Cluster /\ WorkerOK
        BY <2>2, WorkerRuns DEF IndInv, ServiceOK
      <3> QED BY <1>1, <3>1, OutsideInHand
    <2> QED BY <2>1, <2>2
  <1>3. ASSUME proc = "running", NEW c \in Cluster
        PROVE  ServedCluster(c)'
    <2>1. ServedCluster(c) /\ Exists(config) /\ LiveKept(c)
      BY <1>3, FixedConfig DEF Served, ServedCluster
    <2> QED BY <1>1, <1>3, <2>1, OutsideServed DEF Exists
  <1> QED BY <1>1, <1>2, <1>3 DEF Served, ServedCluster

(* The watches start with every Cluster there is. *)
LEMMA StartManagerServed ==
    ASSUME IndInv, Steady, Fixed, StartManager
    PROVE  InHand' /\ Served'
  <1>1. wk' = IdleWorker /\ UNCHANGED <<clusters, ccs, config>>
    BY DEF StartManager, Steady, Phases
  <1>2. InHand'
    BY <1>1, IdleWorkerType DEF InHand, Working
  <1>3. queue' = {c \in RelevantClusters(config) : clusters[c].op # "ignore"}
    BY DEF StartManager, StartWatches
  <1>4. ASSUME NEW c \in Cluster, Exists(clusters'[c]), clusters'[c].op # "ignore"
        PROVE  Attended(c)' \/ Done(c)'
    <2>1. Matches(config, clusters[c].purpose) => c \in queue'
      BY <1>1, <1>3, <1>4 DEF RelevantClusters
    <2> QED BY <1>1, <2>1 DEF Attended, Done, Matches
  <1> QED BY <1>2, <1>4 DEF Served, Exists

(* Without the controllers nobody is served. *)
LEMMA NotRunningServed ==
    ASSUME Steady', proc' # "running"
    PROVE  InHand' /\ Served'
  <1>1. wk' = IdleWorker
    BY DEF Steady, Phases
  <1> QED BY <1>1, IdleWorkerType DEF InHand, Working, Served

-----------------------------------------------------------------------------
(***************************************************************************)
(* The Cluster controller.  c is the Cluster in hand.                      *)
(***************************************************************************)
OnlyAbout(c) ==
    /\ wk.pc = "idle" \/ wk.c = c
    /\ \A d \in Cluster \ {c} : clusters'[d] = clusters[d]
    /\ queue \ {c} \subseteq queue'
    /\ UNCHANGED <<proc, config>>

(* The others stay served. *)
LEMMA OthersServed ==
    ASSUME NEW c \in Cluster, OnlyAbout(c), \A d \in Cluster : LiveKept(d), Served,
           ServedCluster(c)'
    PROVE  Served'
  <1> SUFFICES ASSUME proc = "running", NEW d \in Cluster, d # c
               PROVE  ServedCluster(d)'
    BY DEF Served, ServedCluster, OnlyAbout
  <1> SUFFICES ASSUME Exists(clusters[d]), clusters[d].op # "ignore"
               PROVE  Attended(d)' \/ Done(d)'
    BY DEF ServedCluster, Exists, OnlyAbout
  <1>1. CASE Attended(d)
    BY <1>1 DEF Attended, Working, OnlyAbout
  <1>2. CASE Done(d)
    BY <1>2, DoneKept DEF OnlyAbout
  <1> QED BY <1>1, <1>2 DEF Served

(* The worker goes on with c, or returns and c is queued, or c is gone. *)
LEMMA GoesOn ==
    ASSUME NEW c \in Cluster, OnlyAbout(c), \A d \in Cluster : LiveKept(d), Served, InHand',
           \/ wk'.c = c /\ wk'.pc \in {"operation", "config", "list", "generate", "annotate", "apply"}
           \/ c \in queue'
           \/ ~Exists(clusters'[c])
    PROVE  InHand' /\ Served'
  <1>1. ServedCluster(c)'
    BY DEF ServedCluster, Attended, Working, Exists
  <1> QED BY <1>1, OthersServed

(* It returns with an error: the request comes back. *)
LEMMA ReturnServed ==
    ASSUME NEW c \in Cluster, OnlyAbout(c), \A d \in Cluster : LiveKept(d), Served, Return(c, TRUE)
    PROVE  InHand' /\ Served'
  <1>1. wk' = IdleWorker /\ c \in queue'
    BY DEF Return
  <1>2. InHand'
    BY <1>1, IdleWorkerType DEF InHand, Working
  <1> QED BY <1>1, <1>2, GoesOn

(* The choice of the rules: the worker has the config in force in hand. *)
LEMMA SelectRulesServed ==
    ASSUME IndInv, Fixed, proc = "running", NEW c \in Cluster, NEW cl, SelectRules(c, cl),
           clusters'[c] = cl, OnlyAbout(c), \A d \in Cluster : LiveKept(d), Served
    PROVE  InHand' /\ Served'
  <1>1. Exists(config) /\ UNCHANGED config
    BY FixedConfig DEF OnlyAbout
  <1>2. CASE Matches(config, cl.purpose)
    <2>1. wk' = [IdleWorker EXCEPT !.pc = "config", !.c = c, !.cl = cl, !.rules = config.rules]
      BY <1>1, <1>2 DEF SelectRules
    <2>2. wk'.pc = "config" /\ wk'.c = c /\ wk'.cl = cl /\ wk'.rules = config.rules
      BY <2>1 DEF IdleWorker
    <2>3. InHand'
      BY <1>1, <2>2 DEF InHand
    <2> QED BY <2>2, <2>3, GoesOn
  <1>3. CASE ~Matches(config, cl.purpose)
    <2>1. wk' = IdleWorker
      BY <1>3 DEF SelectRules
    <2>2. InHand'
      BY <2>1, IdleWorkerType DEF InHand, Working
    <2>3. ServedCluster(c)'
      BY <1>1, <1>3 DEF ServedCluster, Done, Matches
    <2> QED BY <2>2, <2>3, OthersServed
  <1> QED BY <1>2, <1>3

(* Get. *)
LEMMA FetchClusterServed ==
    ASSUME IndInv, Fixed, NEW c \in Cluster, FetchCluster(c) \/ FetchClusterFails(c),
           \A d \in Cluster : LiveKept(d), InHand, Served
    PROVE  InHand' /\ Served'
  <1>1. UNCHANGED <<clusters, ccs, proc, config>> /\ proc = "running" /\ wk.pc = "idle"
    BY DEF FetchCluster, FetchClusterFails, workerUnchanged
  <1>2. OnlyAbout(c)
    BY <1>1 DEF OnlyAbout, FetchCluster, FetchClusterFails
  <1>3. CASE FetchCluster(c)
    <2>1. CASE ~Exists(clusters[c])
      <3>1. wk' = [IdleWorker EXCEPT !.pc = "delList", !.c = c]
        BY <1>3, <2>1 DEF FetchCluster
      <3>2. InHand'
        BY <3>1 DEF InHand, Working, IdleWorker
      <3> QED BY <1>1, <1>2, <2>1, <3>2, GoesOn DEF Exists
    <2>2. CASE Exists(clusters[c]) /\ clusters[c].op = "ignore"
      <3>1. wk' = IdleWorker
        BY <1>3, <2>2 DEF FetchCluster
      <3>2. InHand'
        BY <3>1, IdleWorkerType DEF InHand, Working
      <3>3. ServedCluster(c)'
        BY <1>1, <2>2 DEF ServedCluster
      <3> QED BY <1>2, <3>2, <3>3, OthersServed
    <2>3. CASE Exists(clusters[c]) /\ clusters[c].op = "reconcile"
      <3>1. wk' = [IdleWorker EXCEPT !.pc = "operation", !.c = c, !.cl = clusters[c]]
        BY <1>3, <2>3 DEF FetchCluster
      <3>2. wk'.pc = "operation" /\ wk'.c = c
        BY <3>1 DEF IdleWorker
      <3>3. InHand'
        BY <3>2 DEF InHand, Working
      <3> QED BY <1>2, <3>2, <3>3, GoesOn
    <2>4. CASE SelectRules(c, clusters[c])
      BY <1>1, <1>2, <2>4, SelectRulesServed
    <2> QED BY <1>3, <2>1, <2>2, <2>3, <2>4 DEF FetchCluster
  <1>4. CASE FetchClusterFails(c)
    <2>1. UNCHANGED wk /\ c \in queue'
      BY <1>4 DEF FetchClusterFails
    <2>2. InHand'
      BY <1>1, <2>1 DEF InHand, Working
    <2> QED BY <1>2, <2>1, <2>2, GoesOn
  <1> QED BY <1>3, <1>4

(* The operation annotation is removed, and the reconciliation goes on. *)
LEMMA RemoveOperationAnnotationServed ==
    ASSUME IndInv, Steady, Fixed, RemoveOperationAnnotation, \A d \in Cluster : LiveKept(d), Served
    PROVE  InHand' /\ Served'
  <1>1. /\ wk.pc = "operation" /\ wk.c \in Cluster /\ proc = "running"
        /\ UNCHANGED <<proc, config>> /\ ApiOK
    BY WorkerRuns DEF RemoveOperationAnnotation, workerUnchanged, IndInv, ServiceOK
  <1>2. PICK c \in Cluster : c = wk.c
    BY <1>1
  <1> DEFINE cl == Default([clusters[c] EXCEPT !.op = "none"], TRUE)
  <1>3. CASE /\ clusters' = [clusters EXCEPT ![c] = cl]
             /\ SelectRules(c, cl)
             /\ ClusterEvent(c, cl, clusters[c].op = "ignore")
    <2> HIDE DEF cl
    <2>1. clusters'[c] = cl /\ \A d \in Cluster \ {c} : clusters'[d] = clusters[d]
      BY <1>1, <1>3 DEF ApiOK
    <2>2. queue \subseteq queue'
      BY <1>3, EventNoticed
    <2>3. OnlyAbout(c)
      BY <1>1, <1>2, <2>1, <2>2 DEF OnlyAbout
    <2> QED BY <1>1, <1>3, <2>1, <2>3, SelectRulesServed
  <1>4. CASE Return(c, TRUE) /\ (UNCHANGED clusters \/ clusters' = [clusters EXCEPT ![c] = cl])
    <2> HIDE DEF cl
    <2>1. \A d \in Cluster \ {c} : clusters'[d] = clusters[d]
      BY <1>1, <1>4 DEF ApiOK
    <2>2. OnlyAbout(c)
      BY <1>1, <1>2, <1>4, <2>1 DEF OnlyAbout, Return
    <2> QED BY <1>4, <2>2, ReturnServed
  <1> QED BY <1>2, <1>3, <1>4 DEF RemoveOperationAnnotation

(* What the worker plans keeps it on track. *)
Planned(w) ==
    /\ \A i \in DOMAIN wk.rules :
        RuleMatches(wk.rules[i], wk.cl.purpose) => i \in w.todo \/ w.ann[wk.rules[i].id] # {}
    /\ \A r \in Rule : w.ann[r] # {} => w.create[r] # {} \/ Live(ccs[wk.c][r])

LEMMA ProceedInHand ==
    ASSUME NEW w \in Worker, wk' = Proceed(w), UNCHANGED <<clusters, ccs, config>>,
           w.c = wk.c, w.cl = wk.cl, w.rules = wk.rules, wk.pc \in {"list", "generate"}, InHand,
           Exists(clusters[wk.c]) => w.err \/ Planned(w)
    PROVE  InHand'
  <1>1. /\ wk'.pc \in {"generate", "annotate", "apply"}
        /\ wk'.pc = "generate" <=> w.todo # {}
        /\ wk'.c = wk.c /\ wk'.cl = wk.cl /\ wk'.rules = wk.rules
        /\ wk'.todo = w.todo /\ wk'.ann = w.ann /\ wk'.create = w.create
    BY ProceedFields
  <1>2. wk'.err = w.err
    BY DEF Proceed, Worker
  <1>3. wk'.pc = "apply" => w.ann = wk.cl.ann
    BY DEF Proceed, Worker
  <1> SUFFICES ASSUME Exists(clusters[wk.c])
               PROVE  /\ wk.rules = config.rules
                      /\ wk.cl.purpose = clusters[wk.c].purpose
                      /\ clusters[wk.c].ann = wk.cl.ann
                      /\ wk'.err \/ OnTrack'
    BY <1>1 DEF InHand, Exists
  <1>4. /\ wk.rules = config.rules
        /\ wk.cl.purpose = clusters[wk.c].purpose
        /\ clusters[wk.c].ann = wk.cl.ann
    BY DEF InHand, Working
  <1>5. Planned(w) => OnTrack'
    BY <1>1, <1>3, <1>4 DEF Planned, OnTrack, Live, Exists
  <1> QED BY <1>2, <1>4, <1>5

(* The config is read again. *)
LEMMA GetConfigAgainServed ==
    ASSUME IndInv, Steady, GetConfigAgain, \A d \in Cluster : LiveKept(d), InHand, Served
    PROVE  InHand' /\ Served'
  <1>1. /\ wk.pc = "config" /\ wk' = [wk EXCEPT !.pc = "list", !.cfg = config]
        /\ UNCHANGED <<clusters, ccs, queue, proc, config>> /\ wk \in Worker
    BY DEF GetConfigAgain, workerUnchanged, IndInv, ServiceOK, WorkerOK
  <1>2. /\ wk'.pc = "list" /\ wk'.c = wk.c /\ wk'.cl = wk.cl /\ wk'.rules = wk.rules
    BY <1>1 DEF Worker
  <1>3. wk.c \in Cluster
    BY <1>1, WorkerRuns
  <1>4. OnlyAbout(wk.c)
    BY <1>1 DEF OnlyAbout
  <1>5. InHand'
    BY <1>1, <1>2 DEF InHand, Working
  <1> QED BY <1>2, <1>3, <1>4, <1>5, GoesOn

(* The rules that apply to the Cluster are applied already, or planned. *)
LEMMA ManageInjectionsServed ==
    ASSUME IndInv, Steady, NEW G, ClaimsOK(G), Filled, ManageInjections,
           \A d \in Cluster : LiveKept(d), InHand, Served
    PROVE  InHand' /\ Served'
  <1> DEFINE listed  == ccs[wk.c]
             applied == AppliedRules(wk.cl.ann, listed)
             new     == NewRules(applied, listed)
             todo    == {i \in new : ~HasIssue(wk.rules[i], applied)}
             ri      == CheckClusterConfigs(applied, listed)
             odd     == \E i \in new : RulePaths(wk.rules[i]) \cap OddPath # {}
             w       == [wk EXCEPT !.todo = todo, !.ann = applied,
                                   !.create = ri.create, !.update = ri.update,
                                   !.err = (todo # new \/ odd)]
  <1>1. /\ wk.pc = "list" /\ wk \in Worker /\ Exists(wk.cl) /\ wk.c \in Cluster
        /\ proc = "running" /\ Ready
        /\ UNCHANGED <<clusters, ccs, proc, config>>
    BY WorkerRuns DEF ManageInjections, workerUnchanged, IndInv, ServiceOK, WorkerOK
  <1>2. queue \subseteq queue'
    BY DEF ManageInjections, Return
  <1>3. OnlyAbout(wk.c)
    BY <1>1, <1>2 DEF OnlyAbout
  <1>4. CASE Return(wk.c, TRUE)
    BY <1>1, <1>3, <1>4, ReturnServed
  <1>5. CASE /\ Exists(wk.cfg) \/ todo = {}
             /\ wk' = Proceed(w) /\ UNCHANGED queue
    <2>1. listed \in [Rule -> ClusterConfig \cup {NoObject}]
      BY <1>1 DEF IndInv, ServiceOK, ApiOK
    <2>2. wk.cl.ann \in [Rule -> SUBSET Patch]
      BY <1>1 DEF Worker, ClusterObject, Exists
    <2>3. \A r \in Rule : Copy(wk.cl.ann[r], G[wk.c][r])
      BY <1>1 DEF ClaimsOK, WorkerClaims, WorkerCopies
    <2>4. \A r \in Rule : Exists(listed[r]) => listed[r].fin /\ listed[r].patches = G[wk.c][r]
      BY <1>1 DEF Steady, Finalized, ClaimsOK, ClusterConfigCopies
    <2>5. /\ \A r \in Rule : ri.create[r] = IF Exists(listed[r]) THEN {} ELSE applied[r]
          /\ ri.update = NoUpdates
      BY <2>1, <2>2, <2>3, <2>4, InstructionClaims
    <2>6. applied \in [Rule -> SUBSET Patch]
      BY <2>1, <2>2, AppliedRulesType
    <2>7. ri.create \in [Rule -> SUBSET Patch]
      BY <2>1, <2>6, CheckClusterConfigsType DEF Instruction
    <2>8. ASSUME NEW r \in Rule, Exists(listed[r])
          PROVE  applied[r] # {}
      <3>1. listed[r].patches # {}
        BY <1>1, <2>4, <2>8 DEF Filled, Live
      <3>2. applied[r] = wk.cl.ann[r] \cup {p \in listed[r].patches : p.path \notin PathsOf(wk.cl.ann[r])}
        BY <2>8 DEF AppliedRules
      <3>3. CASE wk.cl.ann[r] = {}
        BY <3>1, <3>2, <3>3 DEF PathsOf
      <3> QED BY <3>2, <3>3
    <2>9. \A i \in DOMAIN wk.rules : wk.rules[i].id \in Rule
      BY RulesType DEF IndInv, ServiceOK
    <2>10. ASSUME NEW i \in DOMAIN wk.rules, RuleMatches(wk.rules[i], wk.cl.purpose), i \notin new
           PROVE  applied[wk.rules[i].id] # {}
      BY <2>8, <2>9, <2>10 DEF NewRules, AlreadyApplied
    <2>11. new \in SUBSET DOMAIN wk.rules
      BY DEF NewRules
    <2>12. DOMAIN wk.rules \in SUBSET Nat
      <3>1. wk.rules \in Seq(CIDRInjection)
        BY <1>1 DEF Worker
      <3> QED BY <3>1
    <2>14. todo \in SUBSET Nat /\ (todo # new \/ odd) \in BOOLEAN
      BY <2>11, <2>12
    <2>15. ri.update \in [Rule -> Update \cup {NoObject}]
      BY <2>5, NothingType
    <2>16. \A r \in Rule : Exists(listed[r]) => Live(ccs[wk.c][r])
      BY <2>4 DEF Live
    <2> HIDE DEF listed, applied, new, todo, ri, odd
    <2>17. /\ w \in Worker /\ w.c = wk.c /\ w.cl = wk.cl /\ w.rules = wk.rules
           /\ w.todo = todo /\ w.ann = applied /\ w.create = ri.create
      BY <1>1, <2>6, <2>7, <2>14, <2>15 DEF Worker
    <2>18. w.err = (todo # new \/ odd)
      BY <1>1 DEF Worker
    <2> HIDE DEF w
    <2>19. todo = new => Planned(w)
      BY <2>5, <2>10, <2>16, <2>17 DEF Planned
    <2>20. InHand'
      BY <1>1, <1>5, <2>17, <2>18, <2>19, ProceedInHand
    <2>21. wk'.c = wk.c /\ wk'.pc \in {"generate", "annotate", "apply"}
      BY <1>5, <2>17, ProceedFields
    <2> QED BY <1>1, <1>3, <2>20, <2>21, GoesOn
  <1> QED BY <1>4, <1>5 DEF ManageInjections

(* List fails. *)
LEMMA ListFailsServed ==
    ASSUME IndInv, Steady, ManageInjectionsFails \/ ListForDeleteFails,
           \A d \in Cluster : LiveKept(d), Served
    PROVE  InHand' /\ Served'
  <1>1. wk.pc # "idle" /\ UNCHANGED <<clusters, proc, config>> /\ Return(wk.c, TRUE)
    BY DEF ManageInjectionsFails, ListForDeleteFails, workerUnchanged
  <1>2. wk.c \in Cluster /\ OnlyAbout(wk.c)
    BY <1>1, WorkerRuns DEF OnlyAbout, Return
  <1> QED BY <1>1, <1>2, ReturnServed

(* A rule gets its CIDRs: it is in the annotation to write, and its        *)
(* ClusterConfig is planned.                                               *)
LEMMA GenerateInjectionServed ==
    ASSUME IndInv, Steady, NEW G, ClaimsOK(G), GenerateInjection,
           \A d \in Cluster : LiveKept(d), InHand, Served
    PROVE  InHand' /\ Served'
  <1> DEFINE i    == CurrentRule
             rule == wk.rules[i]
             inj  == rule.injections[wk.inj]
  <1>1. wk.pc = "generate" /\ UNCHANGED <<clusters, ccs, queue, proc, config>>
    BY DEF GenerateInjection, workerUnchanged
  <1>2. /\ wk \in Worker /\ wk.c \in Cluster /\ wk.todo \in SUBSET Nat
        /\ wk.todo \subseteq DOMAIN wk.rules /\ i \in wk.todo /\ rule.id \in Rule
        /\ rule.injections \in Seq(SingleCIDRInjection) /\ wk.inj \in DOMAIN rule.injections
    BY <1>1, GeneratingType DEF IndInv, ServiceOK
  <1>3. inj.paths \in SUBSET Path /\ inj.paths # {}
    <2>1. inj \in SingleCIDRInjection
      BY <1>2, SeqElement
    <2>2. inj.paths # {}
      BY <1>2 DEF ClaimsOK, WorkerClaims, WorkerScratch, RulesOK
    <2> QED BY <2>1, <2>2 DEF SingleCIDRInjection
  <1>4. OnlyAbout(wk.c)
    BY <1>1 DEF OnlyAbout
  <1>5. PICK cidr \in CIDR :
            LET raw == wk.raw \cup [path: inj.paths, cidr: {cidr}]
            IN  wk' = IF wk.inj < Len(rule.injections)
                      THEN [wk EXCEPT !.inj = @ + 1, !.raw = raw,
                                      !.tmp = [id \in Id |-> IF id = inj.id THEN cidr ELSE @[id]]]
                      ELSE Proceed([wk EXCEPT !.todo = @ \ {i}, !.inj = 1, !.raw = {},
                                              !.tmp = NoTmpParents,
                                              !.ann[rule.id] = raw, !.create[rule.id] = raw])
    BY DEF GenerateInjection, FreeChildren
  <1> DEFINE raw == wk.raw \cup [path: inj.paths, cidr: {cidr}]
             tmp == [id \in Id |-> IF id = inj.id THEN cidr ELSE wk.tmp[id]]
             w1  == [wk EXCEPT !.inj = @ + 1, !.raw = raw, !.tmp = tmp]
             w2  == [wk EXCEPT !.todo = @ \ {i}, !.inj = 1, !.raw = {}, !.tmp = NoTmpParents,
                               !.ann[rule.id] = raw, !.create[rule.id] = raw]
  <1>6. raw \in SUBSET Patch /\ raw # {}
    <2>1. PICK q \in inj.paths : TRUE
      BY <1>3
    <2>2. [path |-> q, cidr |-> cidr] \in [path: inj.paths, cidr: {cidr}]
      OBVIOUS
    <2> QED BY <1>2, <1>3, <2>2 DEF Patch, Worker
  <1>7. wk' = w1 \/ wk' = Proceed(w2)
    BY <1>5
  <1> HIDE DEF raw, inj, tmp
  <1>8. CASE wk' = w1
    <2>1. /\ wk'.pc = wk.pc /\ wk'.c = wk.c /\ wk'.cl = wk.cl /\ wk'.rules = wk.rules
          /\ wk'.todo = wk.todo /\ wk'.ann = wk.ann /\ wk'.create = wk.create
      BY <1>2, <1>8 DEF Worker
    <2>2. wk'.err = wk.err
      BY <1>2, <1>8 DEF Worker
    <2>3. OnTrack => OnTrack'
      BY <1>1, <2>1 DEF OnTrack, Live, Exists
    <2>4. InHand'
      BY <1>1, <2>1, <2>2, <2>3 DEF InHand, Working, Exists
    <2> QED BY <1>1, <1>2, <1>4, <2>1, <2>4, GoesOn
  <1>9. CASE wk' = Proceed(w2)
    <2>1. /\ w2 \in Worker /\ w2.c = wk.c /\ w2.cl = wk.cl /\ w2.rules = wk.rules
          /\ w2.todo = wk.todo \ {i}
          /\ \A r \in Rule : /\ w2.ann[r] = IF r = rule.id THEN raw ELSE wk.ann[r]
                             /\ w2.create[r] = IF r = rule.id THEN raw ELSE wk.create[r]
      BY <1>2, <1>6, NothingType DEF Worker
    <2>2. w2.err = wk.err
      BY <1>2 DEF Worker
    <2> HIDE DEF w2
    <2>3. \A k \in DOMAIN wk.rules : wk.rules[k].id \in Rule
      BY RulesType DEF IndInv, ServiceOK
    <2>4. OnTrack => Planned(w2)
      BY <1>6, <2>1, <2>3 DEF OnTrack, Planned
    <2>5. Exists(clusters[wk.c]) => w2.err \/ Planned(w2)
      BY <1>1, <2>2, <2>4 DEF InHand, Working
    <2>6. InHand'
      BY <1>1, <1>9, <2>1, <2>5, ProceedInHand
    <2>7. wk'.c = wk.c /\ wk'.pc \in {"generate", "annotate", "apply"}
      BY <1>9, <2>1, ProceedFields
    <2> QED BY <1>2, <1>4, <2>6, <2>7, GoesOn
  <1> QED BY <1>7, <1>8, <1>9

(* A rule is skipped with an error. *)
LEMMA GenerateInjectionFailsServed ==
    ASSUME IndInv, Steady, GenerateInjectionFails, \A d \in Cluster : LiveKept(d), InHand, Served
    PROVE  InHand' /\ Served'
  <1> DEFINE i == CurrentRule
             w == [wk EXCEPT !.todo = @ \ {i}, !.inj = 1, !.raw = {},
                             !.tmp = NoTmpParents, !.err = TRUE]
  <1>1. /\ wk.pc = "generate" /\ UNCHANGED <<clusters, ccs, queue, proc, config>>
        /\ wk' = Proceed(w)
    BY DEF GenerateInjectionFails, workerUnchanged
  <1>2. wk \in Worker /\ wk.c \in Cluster /\ wk.todo \in SUBSET Nat
    BY <1>1, GeneratingType DEF IndInv, ServiceOK
  <1>3. OnlyAbout(wk.c)
    BY <1>1 DEF OnlyAbout
  <1>4. w \in Worker /\ w.c = wk.c /\ w.cl = wk.cl /\ w.rules = wk.rules /\ w.err
    BY <1>2, NothingType DEF Worker
  <1> HIDE DEF w
  <1>5. InHand'
    BY <1>1, <1>4, ProceedInHand
  <1>6. wk'.c = wk.c /\ wk'.pc \in {"generate", "annotate", "apply"}
    BY <1>1, <1>4, ProceedFields
  <1> QED BY <1>2, <1>3, <1>5, <1>6, GoesOn

(* The annotation is written as planned, or there is an error. *)
LEMMA PatchAnnotationServed ==
    ASSUME IndInv, Steady, PatchAnnotation, \A d \in Cluster : LiveKept(d), InHand, Served
    PROVE  InHand' /\ Served'
  <1>1. /\ wk.pc = "annotate" /\ wk \in Worker /\ wk.c \in Cluster /\ ApiOK
        /\ UNCHANGED <<ccs, queue, proc, config>>
    BY WorkerRuns DEF PatchAnnotation, workerUnchanged, IndInv, ServiceOK, WorkerOK
  <1> DEFINE old == clusters[wk.c]
             new == [old EXCEPT !.ann = wk.ann]
             cl  == Default(new, TRUE)
  <1>2. PICK ok \in BOOLEAN :
            /\ wk' = [wk EXCEPT !.pc = "apply", !.err = @ \/ ~ok]
            /\ \/ Exists(old) /\ clusters' = [clusters EXCEPT ![wk.c] = cl]
               \/ ~ok /\ UNCHANGED clusters
    <2>1. CASE /\ Exists(old) /\ clusters' = [clusters EXCEPT ![wk.c] = cl]
               /\ \E ok \in BOOLEAN : wk' = [wk EXCEPT !.pc = "apply", !.err = @ \/ ~ok]
      BY <2>1
    <2>2. CASE wk' = [wk EXCEPT !.pc = "apply", !.err = TRUE] /\ UNCHANGED clusters
      <3>1. wk' = [wk EXCEPT !.pc = "apply", !.err = @ \/ ~FALSE]
        BY <1>1, <2>2 DEF Worker
      <3> QED BY <2>2, <3>1
    <2> QED BY <2>1, <2>2 DEF PatchAnnotation
  <1>3. /\ wk'.pc = "apply" /\ wk'.c = wk.c /\ wk'.cl = wk.cl /\ wk'.rules = wk.rules
        /\ wk'.todo = wk.todo /\ wk'.ann = wk.ann /\ wk'.create = wk.create
    BY <1>1, <1>2 DEF Worker
  <1>4. wk'.err \/ (ok /\ ~wk.err)
    BY <1>1, <1>2 DEF Worker
  <1>5. Exists(old) => old \in ClusterObject
    BY <1>1 DEF ApiOK, Exists
  <1>6. Exists(old) => cl.ann = wk.ann /\ cl.purpose = old.purpose
    <2> SUFFICES ASSUME Exists(old) PROVE cl.ann = wk.ann /\ cl.purpose = old.purpose
      OBVIOUS
    <2>1. wk.ann \in [Rule -> SUBSET Patch]
      BY <1>1 DEF Worker
    <2>2. new \in ClusterObject /\ new.ann = wk.ann /\ new.purpose = old.purpose
      BY <1>5, <2>1 DEF ClusterObject
    <2> QED BY <2>2, DefaultFields
  <1> HIDE DEF cl
  <1>7. /\ \A d \in Cluster \ {wk.c} : clusters'[d] = clusters[d]
        /\ clusters'[wk.c] = IF UNCHANGED clusters THEN old ELSE cl
    BY <1>1, <1>2 DEF ApiOK
  <1>8. OnlyAbout(wk.c)
    BY <1>1, <1>7 DEF OnlyAbout
  <1>9. InHand'
    <2> SUFFICES ASSUME Exists(clusters'[wk.c])
                 PROVE  /\ wk.rules = config.rules
                        /\ wk.cl.purpose = clusters'[wk.c].purpose
                        /\ wk'.err \/ OnTrack'
      BY <1>1, <1>3 DEF InHand, Exists
    <2>1. Exists(old)
      BY <1>2, <1>7
    <2>2. /\ wk.rules = config.rules /\ wk.cl.purpose = old.purpose
          /\ wk.err \/ OnTrack
      BY <1>1, <2>1 DEF InHand, Working
    <2>3. clusters'[wk.c].purpose = old.purpose
      BY <1>6, <1>7, <2>1
    <2>4. ok /\ OnTrack => OnTrack'
      <3> SUFFICES ASSUME ok, OnTrack PROVE OnTrack'
        OBVIOUS
      <3>1. clusters'[wk.c].ann = wk.ann
        BY <1>1, <1>2, <1>6, <2>1 DEF ApiOK
      <3> QED BY <1>1, <1>3, <3>1 DEF OnTrack, Live, Exists
    <2> QED BY <1>4, <2>2, <2>3, <2>4
  <1> QED BY <1>1, <1>3, <1>8, <1>9, GoesOn

(* A planned ClusterConfig is created, or there is an error. *)
LEMMA ApplyCreatesServed ==
    ASSUME IndInv, Steady, NEW G, ClaimsOK(G), ApplyCreates, UNCHANGED <<rs, cf, standby>>,
           \A d \in Cluster : LiveKept(d), InHand, Served
    PROVE  InHand' /\ Served'
  <1>1. /\ wk.pc = "apply" /\ wk \in Worker /\ Exists(wk.cl) /\ wk.c \in Cluster
        /\ UNCHANGED <<proc, config>>
    BY WorkerRuns DEF ApplyCreates, IndInv, ServiceOK, WorkerOK
  <1>2. PICK r \in Rule, ok \in BOOLEAN :
            /\ wk.create[r] # {}
            /\ ApplyCreate(wk.c, r, wk.cl.uid, wk.create[r], ok)
            /\ wk' = [wk EXCEPT !.create[r] = {}, !.err = @ \/ ~ok]
    BY DEF ApplyCreates
  <1>3. /\ wk'.pc = "apply" /\ wk'.c = wk.c /\ wk'.cl = wk.cl /\ wk'.rules = wk.rules
        /\ wk'.todo = wk.todo /\ wk'.ann = wk.ann
        /\ \A s \in Rule : s # r => wk'.create[s] = wk.create[s]
    BY <1>1, <1>2 DEF Worker
  <1>4. wk'.err \/ (ok = TRUE /\ ~wk.err)
    BY <1>1, <1>2 DEF Worker
  <1>5. PICK c \in Cluster, uid \in Nat, patches \in SUBSET Patch :
            c = wk.c /\ uid = wk.cl.uid /\ patches = wk.create[r]
    BY <1>1 DEF Worker, ClusterObject, Exists
  <1>6. UNCHANGED <<clusters, queue>>
    <2>1. \E b \in BOOLEAN : ApplyCreate(c, r, uid, patches, b)
      BY <1>2, <1>5
    <2> QED BY <2>1, ApplyCreateEffect
  <1>7. ok = TRUE /\ Exists(clusters[c]) => Live(ccs'[c][r])
    <2> SUFFICES ASSUME ok = TRUE, Exists(clusters[c]) PROVE Live(ccs'[c][r])
      OBVIOUS
    <2>1. ApplyCreate(c, r, uid, patches, TRUE)
      BY <1>2, <1>5
    <2>2. Exists(ccs'[c][r])
      BY <2>1, ApplyCreateSucceeds
    <2>3. ClusterConfigCopies(G)'
      BY ApplyCreatesClaims DEF ClaimsOK
    <2>4. ccs'[c][r].fin
      BY <1>6, <2>2, <2>3 DEF ClusterConfigCopies, Exists
    <2> QED BY <2>2, <2>4 DEF Live, Exists
  <1>8. OnlyAbout(c)
    BY <1>1, <1>5, <1>6 DEF OnlyAbout
  <1>9. InHand'
    <2> SUFFICES ASSUME Exists(clusters[c])
                 PROVE  /\ wk.rules = config.rules
                        /\ wk.cl.purpose = clusters[c].purpose
                        /\ wk'.err \/ OnTrack'
      BY <1>1, <1>3, <1>5, <1>6 DEF InHand, Exists
    <2>1. /\ wk.rules = config.rules /\ wk.cl.purpose = clusters[c].purpose
          /\ wk.err \/ OnTrack
      BY <1>1, <1>5 DEF InHand, Working
    <2>2. ok = TRUE /\ OnTrack => OnTrack'
      <3> SUFFICES ASSUME ok = TRUE, OnTrack PROVE OnTrack'
        OBVIOUS
      <3>1. \A s \in Rule : wk.ann[s] # {} => wk'.create[s] # {} \/ Live(ccs'[c][s])
        BY <1>3, <1>5, <1>7 DEF OnTrack, LiveKept
      <3> QED BY <1>1, <1>3, <1>5, <1>6, <3>1 DEF OnTrack, Live, Exists
    <2> QED BY <1>4, <2>1, <2>2
  <1> QED BY <1>3, <1>5, <1>8, <1>9, GoesOn

(* At the end everything is done, or the request comes back. *)
LEMMA FinishCreateOrUpdateServed ==
    ASSUME IndInv, Steady, FinishCreateOrUpdate, \A d \in Cluster : LiveKept(d), InHand, Served
    PROVE  InHand' /\ Served'
  <1>1. /\ wk.pc = "apply" /\ wk \in Worker /\ wk.c \in Cluster /\ wk.create = NoInjections
        /\ UNCHANGED <<clusters, ccs, proc, config>> /\ wk' = IdleWorker
        /\ queue' = IF wk.err THEN queue \cup {wk.c} ELSE queue
    BY WorkerRuns
    DEF FinishCreateOrUpdate, Return, workerUnchanged, IndInv, ServiceOK, WorkerOK
  <1>2. PICK c \in Cluster : c = wk.c
    BY <1>1
  <1>3. OnlyAbout(c)
    BY <1>1, <1>2 DEF OnlyAbout
  <1>4. InHand'
    BY <1>1, IdleWorkerType DEF InHand, Working
  <1>5. CASE wk.err
    BY <1>1, <1>2, <1>3, <1>4, <1>5, GoesOn
  <1>6. CASE ~wk.err
    <2>1. ASSUME Exists(clusters[c])
          PROVE  Done(c)'
      <3>1. /\ wk.rules = config.rules /\ wk.cl.purpose = clusters[c].purpose /\ OnTrack
        BY <1>1, <1>2, <1>6, <2>1 DEF InHand, Working
      <3>2. wk.todo = {} /\ clusters[c].ann = wk.ann
        BY <1>1, <1>2, <3>1 DEF OnTrack
      <3>3. Applied(config.rules, clusters[c].purpose, clusters[c].ann)
        BY <3>1, <3>2 DEF OnTrack, Applied
      <3>4. \A r \in Rule : clusters[c].ann[r] # {} => Live(ccs[c][r])
        BY <1>1, <1>2, <3>1, <3>2 DEF OnTrack, NoInjections
      <3>5. Done(c)
        BY <3>3, <3>4 DEF Done
      <3> QED BY <1>1, <2>1, <3>5, DoneKept
    <2>2. ServedCluster(c)'
      <3>1. CASE Exists(clusters[c])
        BY <2>1, <3>1 DEF ServedCluster
      <3>2. CASE ~Exists(clusters[c])
        BY <1>1, <3>2 DEF ServedCluster, Exists
      <3> QED BY <3>1, <3>2
    <2> QED BY <1>3, <1>4, <2>2, OthersServed
  <1> QED BY <1>5, <1>6

(* A deletion is about a Cluster that is gone. *)
LEMMA DeleteServed ==
    ASSUME IndInv, Steady, NEW G, ClaimsOK(G),
           ListForDelete \/ ReleaseForDelete \/ DeleteForDelete \/ FinishDelete,
           \A d \in Cluster : LiveKept(d), InHand, Served
    PROVE  InHand' /\ Served'
  <1>1. wk.pc \in {"delList", "delRelease", "delDelete"} /\ wk \in Worker /\ wk.c \in Cluster
    BY WorkerRuns
    DEF ListForDelete, ReleaseForDelete, DeleteForDelete, FinishDelete, IndInv, ServiceOK, WorkerOK
  <1>2. PICK c \in Cluster : c = wk.c
    BY <1>1
  <1>3. ~Exists(clusters[c])
    BY <1>1, <1>2 DEF ClaimsOK, WorkerClaims, Deleting
  <1>4. UNCHANGED <<clusters, proc, config>> /\ queue \subseteq queue'
    BY DEF ListForDelete, ReleaseForDelete, DeleteForDelete, FinishDelete, Return, workerUnchanged,
       ReleaseCIDRs, DeleteClusterConfig, WriteClusterConfig
  <1>5. wk'.pc \in {"delRelease", "delDelete", "idle"}
    <2>1. CASE ListForDelete
      BY <1>1, <2>1 DEF ListForDelete, Worker
    <2>2. CASE ReleaseForDelete
      <3>1. PICK r \in Rule, ok \in BOOLEAN :
                wk' = [wk EXCEPT !.pc = "delDelete", !.r = r, !.err = @ \/ ~ok]
        BY <2>2 DEF ReleaseForDelete
      <3> QED BY <1>1, <3>1 DEF Worker
    <2>3. CASE DeleteForDelete
      <3>1. PICK ok \in BOOLEAN :
                wk' = [wk EXCEPT !.pc = "delRelease", !.del[wk.r] = NoObject, !.err = @ \/ ~ok]
        BY <2>3 DEF DeleteForDelete
      <3> QED BY <1>1, <3>1 DEF Worker
    <2>4. CASE FinishDelete
      BY <2>4, IdleWorkerType DEF FinishDelete, Return
    <2> QED BY <2>1, <2>2, <2>3, <2>4
  <1>6. InHand'
    BY <1>5 DEF InHand, Working
  <1>7. OnlyAbout(c)
    BY <1>2, <1>4 DEF OnlyAbout
  <1> QED BY <1>3, <1>4, <1>6, <1>7, GoesOn DEF Exists

(* No step of the Cluster controller forgets a Cluster. *)
LEMMA ClusterReconcileServed ==
    ASSUME IndInv, Steady, NEW G, ClaimsOK(G), Fixed, Filled,
           ClusterReconcile, UNCHANGED <<rs, cf, standby>>,
           \A d \in Cluster : LiveKept(d), InHand, Served
    PROVE  InHand' /\ Served'
  BY FetchClusterServed, RemoveOperationAnnotationServed, GetConfigAgainServed,
     ManageInjectionsServed, ListFailsServed, GenerateInjectionServed, GenerateInjectionFailsServed, PatchAnnotationServed,
     ApplyCreatesServed, ApplyUpdatesImpossible, FinishCreateOrUpdateServed, DeleteServed
  DEF ClusterReconcile

(* No step forgets a Cluster. *)
LEMMA NextServed ==
    ASSUME Undisturbed, ConfigStays, IndInv, Steady, Steady', Claimed, Fixed, Filled, [Next]_vars,
           InHand, Served
    PROVE  InHand' /\ Served'
  <1>1. \A d \in Cluster : LiveKept(d)
    BY NextLive
  <1>2. CASE Environment /\ UNCHANGED <<ipam, lock, wk, rs, cf, standby>>
    BY <1>1, <1>2, EnvironmentFixed, EnvironmentServed
  <1>3. CASE ConfigReconcile /\ UNCHANGED <<wk, standby>>
    BY <1>1, <1>3, ConfigReconcileServed
  <1>4. CASE ClusterReconcile /\ UNCHANGED <<rs, cf, standby>>
    <2>1. PICK G \in ClaimMap : ClaimsOK(G)
      BY DEF Claimed
    <2> QED BY <1>1, <1>4, <2>1, ClusterReconcileServed
  <1>5. CASE RestoreStep /\ UNCHANGED <<wk, cf, standby>>
    <2>1. rs.pc # "idle" /\ UNCHANGED proc
      BY <1>5 DEF RestoreStep, RestoreList, RestoreCheck, RestoreCreate, RestoreUpdate,
         RestoreRefetch, RestoreChecked, OrphanGetCluster, OrphanDelete, OrphanReleaseCIDRs,
         RestoreOrphansHandled, RestoreBuild, restoreUnchanged
    <2>2. proc # "running"
      BY <2>1, IdleRestoreType DEF Steady, Phases
    <2> QED BY <2>1, <2>2, NotRunningServed
  <1>6. CASE Start \/ BootFails \/ Crash
    BY <1>6, NotRunningServed DEF Start, BootFails, Crash, ProcessExits
  <1>7. CASE StartManager
    BY <1>7, StartManagerServed
  <1>8. CASE UNCHANGED vars
    BY <1>8 DEF vars, InHand, Served, Working, OnTrack, Attended, Done, Applied, Exists, Live, Matches
  <1> QED
    BY <1>2, <1>3, <1>4, <1>5, <1>6, <1>7, <1>8, TakeOverImpossible DEF Next

-----------------------------------------------------------------------------
(***************************************************************************)
(* References.                                                             *)
(***************************************************************************)

(* The webhook gives a Cluster with a name the references of the rules     *)
(* that match it.                                                          *)
LEMMA DefaultReferences ==
    ASSUME Webhooks, config = stored.spec, NEW cl \in ClusterObject,
           \/ cl.refs = {} \/ cl.refs = {Placeholder}
           \/ cl.refs = MatchingRules(stored.spec, cl.purpose)
    PROVE  WellReferenced(Default(cl, TRUE))
  <1>1. /\ Default(cl, TRUE).refs = InjectedReferences(config, cl.purpose, TRUE, cl.refs)
        /\ Default(cl, TRUE).purpose = cl.purpose
    BY DEF Default, ClusterObject
  <1>2. InjectedReferences(config, cl.purpose, TRUE, cl.refs) = MatchingRules(stored.spec, cl.purpose)
    BY DEF InjectedReferences
  <1> QED BY <1>1, <1>2 DEF WellReferenced

(* Whoever updates a Cluster, the webhook keeps its references right. *)
LEMMA UpdateReferences ==
    ASSUME Webhooks, config = stored.spec, NEW old \in ClusterObject, WellReferenced(old),
           NEW cl \in ClusterObject, cl.refs = old.refs, cl.purpose = old.purpose
    PROVE  WellReferenced(Default(cl, TRUE))
  BY DefaultReferences DEF WellReferenced

(* A Cluster that is created without a name has the placeholder. *)
LEMMA CreateReferences ==
    ASSUME Webhooks, config = stored.spec, NEW cl \in ClusterObject, NEW named \in BOOLEAN,
           cl.refs = {}, cl.ann = NoInjections
    PROVE  WellReferenced(Default(cl, named))
  <1>1. CASE named = TRUE
    BY <1>1, DefaultReferences
  <1>2. CASE named = FALSE
    <2>1. /\ Default(cl, FALSE).refs = InjectedReferences(config, cl.purpose, FALSE, {})
          /\ Default(cl, FALSE).purpose = cl.purpose
          /\ Default(cl, FALSE).ann = NoInjections
      BY DEF Default, ClusterObject
    <2>2. InjectedReferences(config, cl.purpose, FALSE, {}) =
            IF MatchingRules(stored.spec, cl.purpose) = {} THEN {} ELSE {Placeholder}
      BY DEF InjectedReferences
    <2> QED BY <1>2, <2>1, <2>2 DEF WellReferenced
  <1> QED BY <1>1, <1>2

WritesReferenced ==
    \A c \in Cluster : clusters'[c] = clusters[c] \/ ~Exists(clusters'[c]) \/ WellReferenced(clusters'[c])

(* Users and foreign controllers. *)
LEMMA EnvironmentReferenced ==
    ASSUME Webhooks, IndInv, Fixed, Referenced, Environment
    PROVE  WritesReferenced
  <1>1. ApiOK /\ ScalarsOK
    BY DEF IndInv, ServiceOK
  <1>2. ASSUME NEW c \in Cluster, NEW p \in Purpose, NEW named \in BOOLEAN, CreateCluster(c, p, named)
        PROVE  WritesReferenced
    <2> DEFINE new == [uid |-> nextUid, purpose |-> p, op |-> "none",
                       ann |-> NoInjections, refs |-> {}]
    <2>1. new \in ClusterObject
      BY <1>1, NothingType DEF ClusterObject, Operation, ScalarsOK
    <2>2. config = stored.spec
      BY <1>2, FixedConfig DEF CreateCluster, Admitted
    <2>3. WellReferenced(Default(new, named))
      BY <2>1, <2>2, CreateReferences
    <2>4. clusters' = [clusters EXCEPT ![c] = Default(new, named)]
      BY <1>2 DEF CreateCluster
    <2> QED BY <1>1, <2>3, <2>4 DEF WritesReferenced, ApiOK
  <1>3. ASSUME NEW c \in Cluster, DeleteCluster(c)
        PROVE  WritesReferenced
    <2>1. clusters' = [clusters EXCEPT ![c] = NoObject]
      BY <1>3 DEF DeleteCluster
    <2> QED BY <1>1, <2>1 DEF WritesReferenced, ApiOK, Exists
  <1>4. ASSUME NEW c \in Cluster, NEW op \in Operation, SetOperation(c, op)
        PROVE  WritesReferenced
    <2> DEFINE old == clusters[c]
               new == [old EXCEPT !.op = op]
    <2>1. /\ Exists(old) /\ Admitted
          /\ clusters' = [clusters EXCEPT ![c] = Default(new, TRUE)]
      BY <1>4 DEF SetOperation
    <2>2. old \in ClusterObject /\ WellReferenced(old)
      BY <1>1, <2>1 DEF ApiOK, Exists, Referenced
    <2>3. new \in ClusterObject /\ new.refs = old.refs /\ new.purpose = old.purpose
      BY <2>2 DEF ClusterObject
    <2>4. config = stored.spec
      BY <2>1, FixedConfig DEF Admitted
    <2>5. WellReferenced(Default(new, TRUE))
      BY <2>2, <2>3, <2>4, UpdateReferences
    <2> QED BY <1>1, <2>1, <2>5 DEF WritesReferenced, ApiOK
  <1>5. ASSUME UNCHANGED clusters PROVE WritesReferenced
    BY <1>5 DEF WritesReferenced
  <1> QED
    BY <1>2, <1>3, <1>4, <1>5
    DEF Environment, GarbageCollect, ForeignFinalizer, EditClusterConfig, StoreConfig, DeleteConfig,
        ChangeConfigMeta

(* The Cluster controller. *)
LEMMA ClusterReconcileReferenced ==
    ASSUME Webhooks, IndInv, Steady, Fixed, Referenced, ClusterReconcile
    PROVE  WritesReferenced
  <1>1. ApiOK /\ ScalarsOK /\ WorkerOK
    BY DEF IndInv, ServiceOK
  <1>2. CASE UNCHANGED clusters
    BY <1>2 DEF WritesReferenced
  <1>3. CASE /\ RemoveOperationAnnotation \/ PatchAnnotation
             /\ ~UNCHANGED clusters
    <2>1. wk.c \in Cluster /\ proc = "running" /\ wk \in Worker
      BY <1>1, <1>3, WorkerRuns DEF RemoveOperationAnnotation, PatchAnnotation, WorkerOK
    <2>2. PICK c \in Cluster : c = wk.c
      BY <2>1
    <2> DEFINE old == clusters[c]
    <2>3. Exists(old)
      BY <1>3, <2>2 DEF RemoveOperationAnnotation, PatchAnnotation
    <2>4. old \in ClusterObject /\ WellReferenced(old) /\ config = stored.spec
      BY <1>1, <2>1, <2>3, FixedConfig DEF ApiOK, Exists, Referenced
    <2>5. wk.ann \in [Rule -> SUBSET Patch]
      BY <2>1 DEF Worker
    <2>6. PICK new \in ClusterObject :
            /\ new.refs = old.refs /\ new.purpose = old.purpose
            /\ clusters' = [clusters EXCEPT ![c] = Default(new, TRUE)]
      <3>1. CASE clusters' = [clusters EXCEPT ![c] = Default([old EXCEPT !.op = "none"], TRUE)]
        <4>1. /\ [old EXCEPT !.op = "none"] \in ClusterObject
              /\ [old EXCEPT !.op = "none"].refs = old.refs
              /\ [old EXCEPT !.op = "none"].purpose = old.purpose
          BY <2>4 DEF ClusterObject, Operation
        <4> QED BY <3>1, <4>1
      <3>2. CASE clusters' = [clusters EXCEPT ![c] = Default([old EXCEPT !.ann = wk.ann], TRUE)]
        <4>1. /\ [old EXCEPT !.ann = wk.ann] \in ClusterObject
              /\ [old EXCEPT !.ann = wk.ann].refs = old.refs
              /\ [old EXCEPT !.ann = wk.ann].purpose = old.purpose
          BY <2>4, <2>5 DEF ClusterObject
        <4> QED BY <3>2, <4>1
      <3>3. PatchAnnotation => clusters' = [clusters EXCEPT ![c] = Default([old EXCEPT !.ann = wk.ann], TRUE)]
        BY <1>1, <1>3, <2>2 DEF PatchAnnotation, ApiOK
      <3> QED BY <1>3, <2>2, <3>1, <3>2, <3>3 DEF RemoveOperationAnnotation
    <2>7. WellReferenced(Default(new, TRUE))
      BY <2>4, <2>6, UpdateReferences
    <2> QED BY <1>1, <2>6, <2>7 DEF WritesReferenced, ApiOK
  <1> QED
    BY <1>2, <1>3
    DEF ClusterReconcile, FetchCluster, FetchClusterFails,
        GetConfigAgain, ManageInjections, ManageInjectionsFails, GenerateInjection, GenerateInjectionFails,
        ApplyCreates, ApplyUpdates, FinishCreateOrUpdate, ListForDelete,
        ListForDeleteFails, ReleaseForDelete, DeleteForDelete, FinishDelete,
        ApplyCreate, ApplyUpdate, ReleaseCIDRs, DeleteClusterConfig

(* No step leaves a Cluster with wrong references. *)
LEMMA NextReferenced ==
    ASSUME Undisturbed, ConfigStays, IndInv, Steady, Fixed, Referenced, [Next]_vars
    PROVE  Referenced'
  <1> SUFFICES ASSUME Webhooks, NEW c \in Cluster, Exists(clusters'[c])
               PROVE  WellReferenced(clusters[c])'
    BY DEF Referenced, Exists
  <1>1. UNCHANGED stored
    BY NextFixed
  <1>2. WritesReferenced
    <2>1. CASE UNCHANGED clusters
      BY <2>1 DEF WritesReferenced
    <2>2. CASE ConfigReconcile
      BY <2>2 DEF WritesReferenced, ConfigReconcile, FetchConfig, RemoveConfigOperation, QueueClusters,
         SetConfig, Refresh, RefreshReturns, RefreshDue, configUnchanged
    <2>3. CASE RestoreStep
      BY <2>3 DEF WritesReferenced, RestoreStep, RestoreList, RestoreCheck, RestoreCreate, RestoreUpdate,
         RestoreRefetch, RestoreChecked, OrphanGetCluster, OrphanDelete, OrphanReleaseCIDRs,
         RestoreOrphansHandled, RestoreBuild, restoreUnchanged, ApplyCreate, ApplyUpdate,
         ReleaseCIDRs, DeleteClusterConfig
    <2> QED
      BY <2>1, <2>2, <2>3, EnvironmentReferenced, ClusterReconcileReferenced
      DEF Next, Start, StartManager, BootFails, Crash, TakeOver, vars
  <1>3. WellReferenced(clusters'[c])
    BY <1>2 DEF WritesReferenced, Referenced
  <1> QED BY <1>1, <1>3 DEF WellReferenced

-----------------------------------------------------------------------------
(***************************************************************************)
(* Clusters that are gone.                                                 *)
(***************************************************************************)

(* Failing calls are counted apart. *)
LEMMA CallsCounted ==
    ASSUME IndInv,
           \/ UNCHANGED used
           \/ \E kind : ApiFails(kind)
           \/ \E kind, ok : Answered(kind, ok)
    PROVE  used'.crashes = used.crashes /\ used'.edits = used.edits
  BY DEF IndInv, ServiceOK, ApiOK, ApiFails, Answered

(* Who is calm after a step was calm before it, and the step is no crash   *)
(* and no intervention.                                                    *)
LEMMA CalmStep ==
    ASSUME IndInv, Steady, [Next]_vars, Calm'
    PROVE  Calm /\ ~Crash /\ \A kind : ~UserAction(kind)
  <1>1. used \in [names: SUBSET Cluster, failures: Nat, edits: Nat, crashes: Nat]
    BY DEF IndInv, ServiceOK, ApiOK
  <1>2. ~Crash
    BY <1>1 DEF Crash, Calm
  <1>3. \A kind : ~UserAction(kind)
    BY <1>1 DEF UserAction, Calm
  <1>4. used'.crashes = used.crashes /\ used'.edits = used.edits
    <2>1. CASE Environment
      <3>1. CASE \E c \in Cluster, p \in Purpose, named \in BOOLEAN : CreateCluster(c, p, named)
        BY <1>1, <3>1 DEF CreateCluster
      <3>2. CASE UNCHANGED used
        BY <3>2
      <3> QED BY <1>3, <2>1, <3>1, <3>2
          DEF Environment, DeleteCluster, GarbageCollect, SetOperation, ForeignFinalizer,
              EditClusterConfig, StoreConfig, DeleteConfig, ChangeConfigMeta
    <2>2. CASE ClusterReconcile
      <3>1. \/ UNCHANGED used \/ (\E kind : ApiFails(kind)) \/ (\E kind, ok : Answered(kind, ok))
        BY <2>2 DEF ClusterReconcile, FetchCluster, FetchClusterFails, RemoveOperationAnnotation,
           GetConfigAgain, ManageInjections, ManageInjectionsFails, GenerateInjection, GenerateInjectionFails,
           PatchAnnotation, ApplyCreates, ApplyUpdates, FinishCreateOrUpdate, ListForDelete,
           ListForDeleteFails, ReleaseForDelete, DeleteForDelete, FinishDelete, workerUnchanged,
           ApplyCreate, ApplyUpdate, ReleaseCIDRs, DeleteClusterConfig
      <3> QED BY <3>1, CallsCounted
    <2>3. CASE RestoreStep
      <3>1. \/ UNCHANGED used \/ (\E kind : ApiFails(kind)) \/ (\E kind, ok : Answered(kind, ok))
        BY <2>3 DEF RestoreStep, RestoreList, RestoreCheck, RestoreCreate, RestoreUpdate,
           RestoreRefetch, RestoreChecked, OrphanGetCluster, OrphanDelete, OrphanReleaseCIDRs,
           RestoreOrphansHandled, RestoreBuild, ApplyCreate, ApplyUpdate, ReleaseCIDRs,
           DeleteClusterConfig
      <3> QED BY <3>1, CallsCounted
    <2>4. CASE ConfigReconcile
      <3>1. \/ UNCHANGED used \/ (\E kind : ApiFails(kind)) \/ (\E kind, ok : Answered(kind, ok))
        BY <1>3, <2>4 DEF ConfigReconcile, FetchConfig, RemoveConfigOperation, QueueClusters,
           SetConfig, Refresh, RefreshReturns, RefreshDue, BeginRestore
      <3> QED BY <3>1, CallsCounted
    <2>5. CASE Start
      <3>1. \/ UNCHANGED used \/ \E kind : ApiFails(kind)
        BY <2>5 DEF Start, BeginRestore
      <3> QED BY <3>1, CallsCounted
    <2>6. CASE StartManager \/ BootFails \/ TakeOver \/ UNCHANGED vars
      BY <2>6 DEF StartManager, BootFails, TakeOver, vars
    <2> QED BY <1>2, <2>1, <2>2, <2>3, <2>4, <2>5, <2>6 DEF Next
  <1> QED BY <1>2, <1>3, <1>4 DEF Calm

(* What happens outside the service. *)
Outside ==
    /\ queue \subseteq queue'
    /\ \A c \in Cluster, r \in Rule :
        /\ Exists(ccs'[c][r]) => Exists(ccs[c][r])
        /\ Live(ccs'[c][r]) => Live(ccs[c][r])
    /\ \A c \in Cluster : Exists(clusters'[c]) =>
        /\ clusters'[c].op = "none"
        /\ clusters'[c].ann = IF Exists(clusters[c]) THEN clusters[c].ann ELSE NoInjections
    /\ \A c \in Cluster : Exists(clusters[c]) /\ ~Exists(clusters'[c]) =>
        c \in queue' \/ proc # "running" \/ ~Entitled(c)

(* A step that touches nothing of it. *)
LEMMA NothingOutside ==
    ASSUME NotIgnored, queue \subseteq queue', UNCHANGED <<clusters, ccs>>
    PROVE  Outside
  BY DEF Outside, NotIgnored, Live, Exists

(* A Cluster that is deleted is noticed if it may have ClusterConfigs. *)
LEMMA EnvironmentOutside ==
    ASSUME Undisturbed, IndInv, NEW G, ClaimsOK(G), Fixed, NotIgnored,
           Environment, \A kind : ~UserAction(kind)
    PROVE  Outside
  <1>1. ApiOK /\ ScalarsOK
    BY DEF IndInv, ServiceOK
  <1>2. ASSUME NEW c \in Cluster, NEW p \in Purpose, NEW named \in BOOLEAN, CreateCluster(c, p, named)
        PROVE  Outside
    <2> DEFINE new == [uid |-> nextUid, purpose |-> p, op |-> "none",
                       ann |-> NoInjections, refs |-> {}]
               cl  == Default(new, named)
    <2>1. new \in ClusterObject
      BY <1>1, NothingType DEF ClusterObject, Operation, ScalarsOK
    <2>2. cl.ann = NoInjections /\ cl.op = "none"
      BY <2>1, DefaultFields
    <2>3. /\ ~Exists(clusters[c]) /\ clusters' = [clusters EXCEPT ![c] = cl]
          /\ ClusterEvent(c, cl, TRUE) /\ UNCHANGED ccs
      BY <1>2 DEF CreateCluster
    <2> HIDE DEF cl
    <2>4. queue \subseteq queue'
      BY <2>3, EventNoticed
    <2>5. \A d \in Cluster : clusters'[d] = IF d = c THEN cl ELSE clusters[d]
      BY <1>1, <2>3 DEF ApiOK
    <2> QED BY <2>2, <2>3, <2>4, <2>5 DEF Outside, NotIgnored, Live, Exists
  <1>3. ASSUME NEW c \in Cluster, DeleteCluster(c)
        PROVE  Outside
    <2>1. /\ Exists(clusters[c]) /\ clusters' = [clusters EXCEPT ![c] = NoObject]
          /\ ClusterEvent(c, clusters[c], TRUE) /\ UNCHANGED ccs
      BY <1>3 DEF DeleteCluster
    <2>2. \A d \in Cluster : clusters'[d] = IF d = c THEN NoObject ELSE clusters[d]
      BY <1>1, <2>1 DEF ApiOK
    <2>3. queue \subseteq queue'
      BY <2>1, EventNoticed
    <2>4. ASSUME proc = "running", Entitled(c) PROVE c \in queue'
      <3>1. config \in Configs /\ Exists(config)
        BY <2>4, FixedConfig
      <3>2. clusters[c].purpose \in Purpose
        BY <1>1, <2>1 DEF ApiOK, Exists, ClusterObject
      <3>3. Matches(config, clusters[c].purpose)
        BY <2>1, <2>4, <3>1, <3>2 DEF Entitled, Undisturbed
      <3>4. clusters[c].op # "ignore"
        BY <2>1 DEF NotIgnored
      <3> QED BY <2>1, <2>4, <3>1, <3>3, <3>4, EventNoticed
    <2> QED BY <2>1, <2>2, <2>3, <2>4 DEF Outside, NotIgnored, Live, Exists
  <1>4. ASSUME NEW c \in Cluster, NEW r \in Rule, GarbageCollect(c, r)
        PROVE  Outside
    <2>1. /\ Exists(ccs[c][r]) /\ UNCHANGED clusters
          /\ WriteClusterConfig(c, r, Deleted(ccs[c][r]))
      BY <1>4 DEF GarbageCollect
    <2>2. ccs[c][r] \in ClusterConfig /\ Shape(ccs[c][r])
      BY <1>1, <2>1 DEF ApiOK, Exists, ClaimsOK, ClusterConfigCopies
    <2>3. Aged(ccs[c][r], Deleted(ccs[c][r]))
      BY <2>2, DeletedAged
    <2>4. \A d \in Cluster, s \in Rule :
            ccs'[d][s] = IF d = c /\ s = r THEN Deleted(ccs[c][r]) ELSE ccs[d][s]
      BY <1>1, <2>1 DEF WriteClusterConfig, ApiOK
    <2>5. \A d \in Cluster, s \in Rule :
            /\ Exists(ccs'[d][s]) => Exists(ccs[d][s])
            /\ Live(ccs'[d][s]) => Live(ccs[d][s])
      BY <2>1, <2>3, <2>4 DEF Aged, Live, Exists
    <2>6. queue \subseteq queue'
      BY <2>1 DEF WriteClusterConfig
    <2> QED BY <2>1, <2>5, <2>6 DEF Outside, NotIgnored, Exists
  <1> QED
    BY <1>2, <1>3, <1>4
    DEF Environment, SetOperation, ForeignFinalizer, EditClusterConfig, StoreConfig, DeleteConfig,
        ChangeConfigMeta, Fixed

(* It changes nothing for the service. *)
LEMMA OutsideReleased ==
    ASSUME IndInv, Steady, NEW G, ClaimsOK(G), Fresh, NotIgnored, Released, Outside,
           UNCHANGED <<proc, wk, rs>>
    PROVE  Fresh' /\ NotIgnored' /\ Released'
  <1>1. Fresh'
    BY DEF Fresh, Outside, Exists, NoInjections
  <1>2. NotIgnored'
    BY DEF NotIgnored, Outside, Exists
  <1>3. ASSUME proc = "running" PROVE Released'
    <2>1. ASSUME Working, ~Exists(clusters'[wk.c]) PROVE wk.c \in queue'
      <3>1. wk.c \in Cluster /\ Entitled(wk.c)
        BY <2>1, WorkerRuns DEF Working, ClaimsOK, WorkerClaims, WorkerCopies
      <3> QED BY <1>3, <2>1, <3>1 DEF Outside, Released
    <2>2. ASSUME wk.pc = "delDelete", ~wk.err PROVE ~Live(ccs'[wk.c][wk.r])
      <3>1. wk.c \in Cluster /\ wk.r \in Rule
        BY <2>2, WorkerRuns DEF IndInv, ServiceOK, WorkerOK
      <3> QED BY <1>3, <2>2, <3>1 DEF Outside, Released
    <2>3. ASSUME NEW c \in Cluster, NEW r \in Rule, ~Exists(clusters'[c]), Live(ccs'[c][r])
          PROVE  ReleasePending(c, r)'
      <3>1. Live(ccs[c][r])
        BY <2>3 DEF Outside
      <3>2. CASE Exists(clusters[c])
        <4>1. Entitled(c)
          BY <3>1 DEF ClaimsOK, ClusterConfigCopies, Live
        <4>2. c \in queue'
          BY <1>3, <2>3, <3>2, <4>1 DEF Outside
        <4> QED BY <4>2 DEF ReleasePending
      <3>3. CASE ~Exists(clusters[c])
        <4>1. ReleasePending(c, r)
          BY <1>3, <3>1, <3>3 DEF Released
        <4> QED BY <4>1 DEF ReleasePending, Outside, Exists
      <3> QED BY <3>2, <3>3
    <2> QED BY <2>1, <2>2, <2>3 DEF Released, Working, Exists, Live
  <1> QED BY <1>1, <1>2, <1>3 DEF Released

(* Before the controllers run, a Restore finds nothing to do. *)
LEMMA RestoreFresh ==
    ASSUME IndInv, Steady, NEW G, ClaimsOK(G), Fresh, RestoreStep
    PROVE  Fresh'
  <1>1. rs \in Restoration /\ ApiOK
    BY DEF IndInv, ServiceOK, RestoreOK
  <1>2. rs.pc \notin {"idle", "done", "failed"} /\ UNCHANGED <<clusters, proc>>
    BY DEF RestoreStep, RestoreList, RestoreCheck, RestoreCreate, RestoreUpdate,
       RestoreRefetch, RestoreChecked, OrphanGetCluster, OrphanDelete, OrphanReleaseCIDRs,
       RestoreOrphansHandled, RestoreBuild, restoreUnchanged, ApplyCreate, ApplyUpdate,
       ReleaseCIDRs, DeleteClusterConfig
  <1>3. proc = "booting"
    BY <1>2, IdleRestoreType DEF Steady, Phases
  <1>4. \A c \in Cluster, r \in Rule :
            /\ Exists(clusters[c]) => clusters[c].ann[r] = {}
            /\ ~Exists(ccs[c][r])
            /\ Exists(rs.todo[c]) => rs.todo[c].ann[r] = {}
            /\ rs.create[r] = {}
    BY <1>3 DEF Fresh
  <1>5. ASSUME UNCHANGED ccs,
               \A c \in Cluster, r \in Rule :
                    /\ Exists(rs'.todo[c]) => rs'.todo[c].ann[r] = {}
                    /\ rs'.create[r] = {}
        PROVE  Fresh'
    BY <1>2, <1>4, <1>5 DEF Fresh, Exists
  <1>6. ASSUME UNCHANGED ccs, rs'.todo = rs.todo, rs'.create = rs.create
        PROVE  Fresh'
    BY <1>4, <1>5, <1>6
  <1>7. ASSUME UNCHANGED ccs, NEW result, RestoreReturns(result)
        PROVE  Fresh'
    <2>1. rs'.todo = NoClusters /\ rs'.create = NoInjections
      BY <1>7 DEF RestoreReturns, IdleRestore
    <2> QED BY <1>5, <1>7, <2>1 DEF NoClusters, NoInjections, Exists
  <1>8. CASE RestoreList
    <2>1. UNCHANGED ccs
      BY <1>8 DEF RestoreList
    <2>2. CASE rs' = [rs EXCEPT !.pc = "check", !.rest = ccs]
      BY <1>1, <1>6, <2>1, <2>2 DEF Restoration
    <2> QED BY <1>7, <1>8, <2>1, <2>2 DEF RestoreList
  <1>9. ASSUME NEW c \in Cluster, RestoreCheck(c)
        PROVE  Fresh'
    <2> DEFINE ri    == CheckClusterConfigs(rs.todo[c].ann, rs.rest[c])
               empty == ri.create = NoInjections /\ ri.update = NoUpdates
    <2>1. /\ UNCHANGED ccs /\ Exists(rs.todo[c])
          /\ rs' = [rs EXCEPT !.todo[c] = NoObject, !.rest[c] = NoConfigs,
                              !.handled[c] = rs.rest[c],
                              !.pc = IF empty THEN "check" ELSE "apply",
                              !.c = c, !.uid = rs.todo[c].uid, !.bad = FALSE,
                              !.create = ri.create, !.update = ri.update]
      BY <1>9 DEF RestoreCheck
    <2>2. \A r \in Rule : ri.create[r] = {}
      BY <1>4, <2>1 DEF CheckClusterConfigs
    <2> HIDE DEF ri, empty
    <2>3. rs'.create = ri.create /\ rs'.todo = [rs.todo EXCEPT ![c] = NoObject]
      BY <1>1, <2>1 DEF Restoration
    <2>4. rs.todo \in [Cluster -> ClusterObject \cup {NoObject}]
      BY <1>1 DEF Restoration
    <2> QED BY <1>4, <1>5, <2>1, <2>2, <2>3, <2>4 DEF Exists
  <1>10. ~RestoreCreate
    <2>1. rs.pc = "apply" => rs.c \in Cluster
      BY DEF IndInv, ServiceOK, RestoreOK
    <2> QED BY <1>4, <2>1 DEF RestoreCreate
  <1>11. ~RestoreUpdate
    <2>1. rs.update = NoUpdates
      BY DEF ClaimsOK, RestoreClaims, OrphanOK
    <2> QED BY <2>1 DEF RestoreUpdate, NoUpdates, Exists
  <1>12. CASE RestoreRefetch
    <2>1. UNCHANGED ccs /\ rs'.todo = rs.todo /\ rs'.create = rs.create
      BY <1>1, <1>12 DEF RestoreRefetch, Restoration
    <2> QED BY <1>6, <2>1
  <1>13. CASE RestoreChecked \/ RestoreOrphansHandled \/ RestoreBuild
    <2>1. UNCHANGED ccs
      BY <1>13 DEF RestoreChecked, RestoreOrphansHandled, RestoreBuild
    <2>2. CASE \E pc : rs' = [rs EXCEPT !.pc = pc]
      BY <1>1, <1>6, <2>1, <2>2 DEF Restoration
    <2> QED BY <1>7, <1>13, <2>1, <2>2 DEF RestoreChecked, RestoreOrphansHandled, RestoreBuild
  <1>14. ASSUME NEW c \in Cluster, NEW r \in Rule, OrphanGetCluster(c, r)
         PROVE  Fresh'
    <2>1. UNCHANGED ccs /\ rs'.todo = rs.todo /\ rs'.create = rs.create
      BY <1>1, <1>14 DEF OrphanGetCluster, Restoration
    <2> QED BY <1>6, <2>1
  <1>15. OrphanHandled.todo = rs.todo /\ OrphanHandled.create = rs.create
    BY <1>1 DEF OrphanHandled, Restoration
  <1>16. \A err : /\ [OrphanHandled EXCEPT !.err = err].todo = rs.todo
                  /\ [OrphanHandled EXCEPT !.err = err].create = rs.create
    BY <1>1 DEF OrphanHandled, Restoration
  <1>17. rs.pc \in {"delete", "release"} => rs.c \in Cluster /\ rs.r \in Rule
    BY DEF IndInv, ServiceOK, RestoreOK
  <1>18. CASE OrphanDelete
    <2>1. rs'.todo = rs.todo /\ rs'.create = rs.create
      <3>1. \/ rs' = [rs EXCEPT !.pc = "release"] \/ rs' = OrphanHandled
            \/ rs' = [OrphanHandled EXCEPT !.err = TRUE]
        BY <1>18 DEF OrphanDelete
      <3> QED BY <1>1, <1>15, <1>16, <3>1 DEF Restoration
    <2>2. UNCHANGED ccs
      BY <1>4, <1>17, <1>18 DEF OrphanDelete, DeleteClusterConfig
    <2> QED BY <1>6, <2>1, <2>2
  <1>19. CASE OrphanReleaseCIDRs
    <2>1. PICK ok \in BOOLEAN :
            /\ ReleaseCIDRs(rs.c, rs.r, rs.rest[rs.c][rs.r], ok)
            /\ rs' = [OrphanHandled EXCEPT !.err = @ \/ ~ok]
      BY <1>19 DEF OrphanReleaseCIDRs
    <2>2. rs'.todo = rs.todo /\ rs'.create = rs.create
      BY <1>16, <2>1
    <2>3. ~Exists(ccs[rs.c][rs.r])
      BY <1>4, <1>17, <1>19 DEF OrphanReleaseCIDRs
    <2>4. UNCHANGED ccs
      BY <2>1, <2>3 DEF ReleaseCIDRs, FinalizerPatchFails
    <2> QED BY <1>6, <2>2, <2>4
  <1> QED
    BY <1>8, <1>9, <1>10, <1>11, <1>12, <1>13, <1>14, <1>18, <1>19 DEF RestoreStep

(* Without the controllers there is nothing to release. *)
LEMMA NotRunningReleased ==
    ASSUME Steady', NotIgnored, UNCHANGED clusters, proc' # "running", Fresh'
    PROVE  Fresh' /\ NotIgnored' /\ Released'
  <1>1. wk' = IdleWorker
    BY DEF Steady, Phases
  <1> QED BY <1>1, IdleWorkerType DEF NotIgnored, Released, Exists

(* The process starts, or gives up. *)
LEMMA StartFresh ==
    ASSUME IndInv, Fresh, Start \/ BootFails
    PROVE  Fresh' /\ UNCHANGED clusters /\ proc' # "running"
  <1>1. UNCHANGED <<clusters, ccs>> /\ proc # "running" /\ proc' # "running"
    BY DEF Start, BootFails, ProcessExits
  <1>2. \A c \in Cluster, r \in Rule :
            /\ Exists(clusters[c]) => clusters[c].ann[r] = {}
            /\ ~Exists(ccs[c][r])
    BY <1>1 DEF Fresh
  <1>3. ASSUME NEW todo, rs'.todo = todo, rs'.create = NoInjections,
               \A c \in Cluster, r \in Rule : Exists(todo[c]) => todo[c].ann[r] = {}
        PROVE  Fresh'
    BY <1>1, <1>2, <1>3 DEF Fresh, NoInjections, Exists
  <1>4. ASSUME rs'.todo = NoClusters, rs'.create = NoInjections
        PROVE  Fresh'
    BY <1>1, <1>2, <1>4 DEF Fresh, NoInjections, NoClusters, Exists
  <1>5. CASE Start
    <2> DEFINE todo == [c \in Cluster |->
                            IF c \in RelevantClusters(stored.spec) THEN clusters[c] ELSE NoObject]
    <2>1. \/ rs' = [IdleRestore EXCEPT !.pc = "listCCs", !.cfg = stored.spec, !.todo = todo]
          \/ RestoreReturns("failed")
      BY <1>5 DEF Start, BeginRestore
    <2>2. \A c \in Cluster, r \in Rule : Exists(todo[c]) => todo[c].ann[r] = {}
      BY <1>2 DEF Exists
    <2>3. rs' = [IdleRestore EXCEPT !.pc = "listCCs", !.cfg = stored.spec, !.todo = todo] =>
            rs'.todo = todo /\ rs'.create = NoInjections
      BY DEF IdleRestore
    <2> HIDE DEF todo
    <2>4. RestoreReturns("failed") => rs'.todo = NoClusters /\ rs'.create = NoInjections
      BY DEF RestoreReturns, IdleRestore
    <2> QED BY <1>1, <1>3, <1>4, <2>1, <2>2, <2>3, <2>4
  <1>6. CASE BootFails
    <2>1. rs'.todo = NoClusters /\ rs'.create = NoInjections
      BY <1>6 DEF BootFails, ProcessExits, IdleRestore
    <2> QED BY <1>1, <1>4, <2>1
  <1> QED BY <1>1, <1>5, <1>6

(* The controllers start, and nothing has been written yet. *)
LEMMA StartManagerReleased ==
    ASSUME IndInv, Steady, Fresh, NotIgnored, StartManager
    PROVE  Fresh' /\ NotIgnored' /\ Released'
  <1>1. /\ wk' = IdleWorker /\ UNCHANGED <<clusters, ccs>> /\ proc' = "running"
        /\ \A c \in Cluster, r \in Rule : ~Exists(ccs[c][r])
    BY DEF StartManager, Steady, Phases, Fresh
  <1>2. wk'.pc = "idle"
    BY <1>1, IdleWorkerType
  <1> QED BY <1>1, <1>2 DEF Fresh, NotIgnored, Released, Working, Live, Exists

(* A step for a Cluster that is to be served: if it is gone meanwhile, its *)
(* name is queued.                                                         *)
LEMMA WorkReleased ==
    ASSUME NotIgnored, Released, Working, proc = "running", UNCHANGED proc, queue \subseteq queue',
           \A c \in Cluster : /\ Exists(clusters'[c]) <=> Exists(clusters[c])
                              /\ Exists(clusters[c]) => clusters'[c].op = clusters[c].op,
           \A c \in Cluster, r \in Rule : Live(ccs'[c][r]) => Live(ccs[c][r]) \/ c = wk.c,
           \/ wk'.pc = "idle"
           \/ wk'.pc \in {"list", "generate", "annotate", "apply"} /\ wk'.c = wk.c,
           wk.c \in Cluster
    PROVE  Fresh' /\ NotIgnored' /\ Released'
  <1>1. Fresh'
    BY DEF Fresh
  <1>2. NotIgnored'
    BY DEF NotIgnored, Exists
  <1>3. PICK h \in Cluster : h = wk.c
    OBVIOUS
  <1>4. ~Exists(clusters[h]) => h \in queue'
    BY <1>3 DEF Released
  <1>5. Working' /\ ~Exists(clusters'[wk'.c]) => wk'.c \in queue'
    BY <1>3, <1>4 DEF Working
  <1>6. ASSUME NEW c \in Cluster, NEW r \in Rule, ~Exists(clusters'[c]), Live(ccs'[c][r])
        PROVE  c \in queue'
    <2>1. CASE c = h
      BY <1>4, <1>6, <2>1
    <2>2. CASE c # h
      <3>1. ReleasePending(c, r)
        BY <1>3, <1>6, <2>2 DEF Released
      <3> QED BY <1>3, <2>2, <3>1 DEF ReleasePending
    <2> QED BY <2>1, <2>2
  <1>7. Released'
    BY <1>5, <1>6 DEF Released, ReleasePending, Exists, Live
  <1> QED BY <1>1, <1>2, <1>7

(* The worker takes a name from the queue. *)
LEMMA FetchClusterReleased ==
    ASSUME NotIgnored, Released, NEW h \in Cluster, FetchCluster(h)
    PROVE  Fresh' /\ NotIgnored' /\ Released'
  <1>1. /\ proc = "running" /\ wk.pc = "idle" /\ queue' = queue \ {h}
        /\ UNCHANGED <<clusters, ccs, proc>>
    BY DEF FetchCluster, workerUnchanged
  <1>2. \/ ~Exists(clusters[h]) /\ wk'.pc = "delList" /\ wk'.c = h
        \/ Exists(clusters[h]) /\ wk'.pc = "idle"
        \/ Exists(clusters[h]) /\ wk'.pc = "config" /\ wk'.c = h
    <2>1. CASE ~Exists(clusters[h])
      BY <2>1, IdleWorkerType DEF FetchCluster, Worker
    <2>2. CASE Exists(clusters[h])
      <3>1. SelectRules(h, clusters[h])
        BY <2>2 DEF FetchCluster, NotIgnored
      <3> QED BY <2>2, <3>1, IdleWorkerType DEF SelectRules, Worker
    <2> QED BY <2>1, <2>2
  <1>3. Fresh' /\ NotIgnored'
    BY <1>1, <1>2 DEF Fresh, NotIgnored, Exists
  <1>4. Working' /\ ~Exists(clusters'[wk'.c]) => wk'.c \in queue'
    BY <1>1, <1>2 DEF Working
  <1>5. ASSUME NEW c \in Cluster, NEW r \in Rule, ~Exists(clusters[c]), Live(ccs[c][r])
        PROVE  c \in queue' \/ (wk'.c = c /\ wk'.pc = "delList")
    <2>1. c \in queue
      BY <1>1, <1>5 DEF Released, ReleasePending
    <2> QED BY <1>1, <1>2, <1>5, <2>1
  <1>6. Released'
    BY <1>1, <1>2, <1>4, <1>5 DEF Released, ReleasePending, Exists, Live
  <1> QED BY <1>3, <1>6

(* Proceeding, the worker has the same Cluster in hand. *)
LEMMA ProceedGoesOn ==
    ASSUME NEW w, {"pc", "c"} \subseteq DOMAIN w, wk' = Proceed(w)
    PROVE  wk'.pc \in {"list", "generate", "annotate", "apply"} /\ wk'.c = w.c
  BY DEF Proceed

(* The worker goes on with its Cluster. *)
LEMMA GenerationReleased ==
    ASSUME IndInv, Steady, NotIgnored, Released,
           \/ GetConfigAgain \/ ManageInjections \/ ManageInjectionsFails
           \/ GenerateInjection \/ GenerateInjectionFails \/ FinishCreateOrUpdate
    PROVE  Fresh' /\ NotIgnored' /\ Released'
  <1>1. /\ wk.pc \in {"config", "list", "generate", "apply"} /\ UNCHANGED <<clusters, ccs, proc>>
        /\ queue \subseteq queue'
    BY DEF GetConfigAgain, ManageInjections, ManageInjectionsFails, GenerateInjection,
       GenerateInjectionFails, FinishCreateOrUpdate, Return, workerUnchanged
  <1>2. wk.c \in Cluster /\ proc = "running" /\ wk \in Worker
    BY <1>1, WorkerRuns DEF IndInv, ServiceOK, WorkerOK
  <1>3. \/ wk'.pc = "idle"
        \/ wk'.pc \in {"list", "generate", "annotate", "apply"} /\ wk'.c = wk.c
    <2>1. CASE \E failed : Return(wk.c, failed)
      BY <2>1, IdleWorkerType DEF Return
    <2>2. CASE ManageInjections
      <3> DEFINE listed  == ccs[wk.c]
                 applied == AppliedRules(wk.cl.ann, listed)
                 rules   == NewRules(applied, listed)
                 todo    == {i \in rules : ~HasIssue(wk.rules[i], applied)}
                 ri      == CheckClusterConfigs(applied, listed)
                 odd     == \E i \in rules : RulePaths(wk.rules[i]) \cap OddPath # {}
                 w       == [wk EXCEPT !.todo = todo, !.ann = applied,
                                       !.create = ri.create, !.update = ri.update,
                                       !.err = (todo # rules \/ odd)]
      <3>1. Return(wk.c, TRUE) \/ wk' = Proceed(w)
        BY <2>2 DEF ManageInjections
      <3> HIDE DEF listed, applied, rules, todo, ri, odd
      <3>2. w.c = wk.c /\ {"pc", "c"} \subseteq DOMAIN w
        BY <1>2 DEF Worker
      <3> HIDE DEF w
      <3> QED BY <2>1, <3>1, <3>2, ProceedGoesOn
    <2>3. CASE GenerateInjection
      <3> DEFINE i    == CurrentRule
                 rule == wk.rules[i]
                 inj  == rule.injections[wk.inj]
      <3>1. PICK cidr :
              LET raw == wk.raw \cup [path: inj.paths, cidr: {cidr}]
              IN  wk' = IF wk.inj < Len(rule.injections)
                        THEN [wk EXCEPT !.inj = @ + 1, !.raw = raw,
                                        !.tmp = [id \in Id |-> IF id = inj.id THEN cidr ELSE @[id]]]
                        ELSE Proceed([wk EXCEPT !.todo = @ \ {i}, !.inj = 1, !.raw = {},
                                                !.tmp = NoTmpParents,
                                                !.ann[rule.id] = raw, !.create[rule.id] = raw])
        BY <2>3 DEF GenerateInjection
      <3> DEFINE raw == wk.raw \cup [path: inj.paths, cidr: {cidr}]
                 tmp == [id \in Id |-> IF id = inj.id THEN cidr ELSE wk.tmp[id]]
                 w1  == [wk EXCEPT !.inj = @ + 1, !.raw = raw, !.tmp = tmp]
                 w2  == [wk EXCEPT !.todo = @ \ {i}, !.inj = 1, !.raw = {}, !.tmp = NoTmpParents,
                                   !.ann[rule.id] = raw, !.create[rule.id] = raw]
      <3>2. wk' = w1 \/ wk' = Proceed(w2)
        BY <3>1
      <3> HIDE DEF raw, inj, tmp, rule
      <3>3. w1.pc = wk.pc /\ w1.c = wk.c /\ wk.pc = "generate"
        BY <1>2, <2>3 DEF Worker, GenerateInjection
      <3>4. w2.c = wk.c /\ {"pc", "c"} \subseteq DOMAIN w2
        BY <1>2 DEF Worker
      <3> HIDE DEF w1, w2
      <3> QED BY <1>1, <3>2, <3>3, <3>4, ProceedGoesOn
    <2>4. CASE GenerateInjectionFails
      <3>1. \E todo : wk' = Proceed([wk EXCEPT !.todo = todo, !.inj = 1, !.raw = {},
                                               !.tmp = NoTmpParents, !.err = TRUE])
        BY <2>4 DEF GenerateInjectionFails
      <3> QED BY <1>2, <3>1 DEF Proceed, Worker
    <2>5. CASE GetConfigAgain
      BY <1>2, <2>5 DEF GetConfigAgain, Worker
    <2> QED BY <2>1, <2>2, <2>3, <2>4, <2>5 DEF ManageInjectionsFails, FinishCreateOrUpdate
  <1>4. Working
    BY <1>1 DEF Working
  <1> QED BY <1>1, <1>2, <1>3, <1>4, WorkReleased DEF Live, Exists

(* It writes the annotation. *)
LEMMA PatchAnnotationReleased ==
    ASSUME IndInv, Steady, NotIgnored, Released, PatchAnnotation
    PROVE  Fresh' /\ NotIgnored' /\ Released'
  <1>1. wk.pc = "annotate" /\ UNCHANGED <<ccs, queue, proc>>
    BY DEF PatchAnnotation, workerUnchanged
  <1>2. wk.c \in Cluster /\ proc = "running" /\ wk \in Worker /\ ApiOK /\ ScalarsOK
    BY <1>1, WorkerRuns DEF IndInv, ServiceOK, WorkerOK
  <1>3. wk'.pc = "apply" /\ wk'.c = wk.c
    BY <1>2 DEF PatchAnnotation, Worker
  <1> DEFINE old == clusters[wk.c]
             new == [old EXCEPT !.ann = wk.ann]
             cl  == Default(new, TRUE)
  <1>4. \A c \in Cluster : /\ Exists(clusters'[c]) <=> Exists(clusters[c])
                           /\ Exists(clusters[c]) => clusters'[c].op = clusters[c].op
    <2>1. CASE UNCHANGED clusters
      BY <2>1
    <2>2. CASE Exists(old) /\ Admitted /\ clusters' = [clusters EXCEPT ![wk.c] = cl]
      <3>1. old \in ClusterObject /\ wk.ann \in [Rule -> SUBSET Patch]
        BY <1>2, <2>2 DEF ApiOK, Exists, Worker
      <3>2. new \in ClusterObject /\ new.op = old.op
        BY <3>1 DEF ClusterObject
      <3>3. cl.op = old.op /\ Exists(cl)
        BY <1>2, <2>2, <3>2, DefaultFields, DefaultType, NoObjectType DEF Exists
      <3> HIDE DEF cl
      <3>4. \A c \in Cluster : clusters'[c] = IF c = wk.c THEN cl ELSE clusters[c]
        BY <1>2, <2>2 DEF ApiOK
      <3> QED BY <2>2, <3>3, <3>4
    <2> QED BY <1>2, <2>1, <2>2 DEF PatchAnnotation, ApiOK
  <1>5. Working
    BY <1>1 DEF Working
  <1> QED BY <1>1, <1>2, <1>3, <1>4, <1>5, WorkReleased DEF Live, Exists

(* It creates a ClusterConfig. *)
LEMMA ApplyCreatesReleased ==
    ASSUME IndInv, Steady, NotIgnored, Released, ApplyCreates
    PROVE  Fresh' /\ NotIgnored' /\ Released'
  <1>1. wk.pc = "apply" /\ UNCHANGED proc
    BY DEF ApplyCreates
  <1>2. wk.c \in Cluster /\ proc = "running" /\ wk \in Worker /\ ApiOK
    BY <1>1, WorkerRuns DEF IndInv, ServiceOK, WorkerOK
  <1>3. PICK r \in Rule, ok \in BOOLEAN :
            /\ ApplyCreate(wk.c, r, wk.cl.uid, wk.create[r], ok)
            /\ wk' = [wk EXCEPT !.create[r] = {}, !.err = @ \/ ~ok]
    BY DEF ApplyCreates
  <1>4. wk'.pc = "apply" /\ wk'.c = wk.c
    BY <1>1, <1>2, <1>3 DEF Worker
  <1>5. /\ UNCHANGED <<clusters, queue>>
        /\ UNCHANGED ccs \/ \E cc : ccs' = [ccs EXCEPT ![wk.c][r] = cc]
    BY <1>3 DEF ApplyCreate, CreateClusterConfig
  <1>6. \A c \in Cluster, s \in Rule : ccs'[c][s] = ccs[c][s] \/ c = wk.c
    BY <1>2, <1>5 DEF ApiOK
  <1>7. Working
    BY <1>1 DEF Working
  <1> QED BY <1>1, <1>2, <1>4, <1>5, <1>6, <1>7, WorkReleased DEF Live, Exists

(* The deletion of ClusterConfigs goes on. *)
LEMMA DeletionReleased ==
    ASSUME NotIgnored, Released, proc = "running", UNCHANGED <<clusters, proc>>,
           queue \subseteq queue',
           wk'.pc \notin {"operation", "config", "list", "generate", "annotate", "apply"},
           wk'.pc = "delDelete" /\ ~wk'.err => ~Live(ccs'[wk'.c][wk'.r]),
           \A c \in Cluster, r \in Rule : Live(ccs'[c][r]) => Live(ccs[c][r]),
           \A c \in Cluster, r \in Rule :
                Live(ccs'[c][r]) /\ ~Exists(clusters[c]) /\ ReleasePending(c, r) => ReleasePending(c, r)'
    PROVE  Fresh' /\ NotIgnored' /\ Released'
  <1>1. Fresh' /\ NotIgnored'
    BY DEF Fresh, NotIgnored, Exists
  <1>2. ASSUME NEW c \in Cluster, NEW r \in Rule, ~Exists(clusters[c]), Live(ccs'[c][r])
        PROVE  ReleasePending(c, r)'
    BY <1>2 DEF Released
  <1>3. Released'
    BY <1>2 DEF Released, Working, Live, Exists
  <1> QED BY <1>1, <1>3

(* The ClusterConfigs of the Cluster are listed. *)
LEMMA ListForDeleteReleased ==
    ASSUME IndInv, Steady, NotIgnored, Released, ListForDelete \/ ListForDeleteFails
    PROVE  Fresh' /\ NotIgnored' /\ Released'
  <1>1. wk.pc = "delList" /\ UNCHANGED <<clusters, ccs, proc>> /\ queue \subseteq queue'
    BY DEF ListForDelete, ListForDeleteFails, Return, workerUnchanged
  <1>2. wk.c \in Cluster /\ proc = "running" /\ wk \in Worker
    BY <1>1, WorkerRuns DEF IndInv, ServiceOK, WorkerOK
  <1>3. PICK h \in Cluster : h = wk.c
    BY <1>2
  <1>4. CASE ListForDelete
    <2>1. wk'.pc = "delRelease" /\ wk'.c = h /\ wk'.del = ccs[h]
      BY <1>2, <1>3, <1>4 DEF ListForDelete, Worker
    <2>2. \A c \in Cluster, r \in Rule : Live(ccs[c][r]) /\ ReleasePending(c, r) => ReleasePending(c, r)'
      BY <1>1, <1>3, <2>1 DEF ReleasePending, Live, Exists
    <2> QED BY <1>1, <1>2, <2>1, <2>2, DeletionReleased DEF Live, Exists
  <1>5. CASE ListForDeleteFails
    <2>1. wk'.pc = "idle" /\ h \in queue'
      BY <1>3, <1>5, IdleWorkerType DEF ListForDeleteFails, Return
    <2>2. \A c \in Cluster, r \in Rule : ReleasePending(c, r) => ReleasePending(c, r)'
      BY <1>1, <1>3, <2>1 DEF ReleasePending
    <2> QED BY <1>1, <1>2, <2>1, <2>2, DeletionReleased DEF Live, Exists
  <1> QED BY <1>4, <1>5

(* One of them is released, or there is an error. *)
LEMMA ReleaseForDeleteReleased ==
    ASSUME IndInv, Steady, NEW G, ClaimsOK(G), NotIgnored, Released, ReleaseForDelete
    PROVE  Fresh' /\ NotIgnored' /\ Released'
  <1>1. wk.pc = "delRelease" /\ UNCHANGED proc
    BY DEF ReleaseForDelete
  <1>2. wk.c \in Cluster /\ proc = "running" /\ wk \in Worker /\ ApiOK
    BY <1>1, WorkerRuns DEF IndInv, ServiceOK, WorkerOK
  <1>3. PICK h \in Cluster : h = wk.c
    BY <1>2
  <1>4. PICK r \in Rule, ok \in BOOLEAN :
            /\ Exists(wk.del[r])
            /\ ReleaseCIDRs(wk.c, r, wk.del[r], ok)
            /\ wk' = [wk EXCEPT !.pc = "delDelete", !.r = r, !.err = @ \/ ~ok]
    BY DEF ReleaseForDelete
  <1>5. /\ wk'.pc = "delDelete" /\ wk'.c = h /\ wk'.r = r /\ wk'.del = wk.del
    BY <1>2, <1>3, <1>4 DEF Worker
  <1>6. (wk.err => wk'.err) /\ (ok = FALSE => wk'.err)
    BY <1>2, <1>4 DEF Worker
  <1>7. PICK cc \in ClusterConfig : cc = wk.del[r] /\ cc.fin /\ ~cc.foreign
    <2>1. Listed(G, r)
      BY <1>1, <1>4 DEF ClaimsOK, WorkerClaims, Deleting
    <2>2. wk.del[r] \in ClusterConfig
      BY <1>2, <1>4 DEF Worker, Exists
    <2> QED BY <2>1, <2>2 DEF Listed, Live
  <1>8. Exists(ccs[h][r]) => Shape(ccs[h][r])
    BY DEF ClaimsOK, ClusterConfigCopies
  <1>9. ReleaseCIDRs(h, r, cc, ok)
    BY <1>3, <1>4, <1>7
  <1>10. UNCHANGED clusters /\ queue \subseteq queue'
    BY <1>9 DEF ReleaseCIDRs, WriteClusterConfig
  <1>11. \/ UNCHANGED ccs /\ ok = FALSE
         \/ /\ \A d \in Cluster, s \in Rule : <<d, s>> # <<h, r>> => ccs'[d][s] = ccs[d][s]
            /\ ~Live(ccs'[h][r])
    BY <1>7, <1>8, <1>9, ReleaseEffect DEF Live
  <1>12. \A d \in Cluster, s \in Rule : Live(ccs'[d][s]) => Live(ccs[d][s])
    BY <1>11
  <1>13. wk'.pc = "delDelete" /\ ~wk'.err => ~Live(ccs'[wk'.c][wk'.r])
    BY <1>5, <1>6, <1>11
  <1>14. \A d \in Cluster, s \in Rule : ReleasePending(d, s) => ReleasePending(d, s)'
    BY <1>1, <1>3, <1>5, <1>6, <1>10 DEF ReleasePending, Exists
  <1> QED BY <1>1, <1>2, <1>5, <1>10, <1>12, <1>13, <1>14, DeletionReleased

(* It is deleted; it has been released, or there was an error. *)
LEMMA DeleteForDeleteReleased ==
    ASSUME Undisturbed, IndInv, Steady, NEW G, ClaimsOK(G), NotIgnored, Released, DeleteForDelete
    PROVE  Fresh' /\ NotIgnored' /\ Released'
  <1>1. wk.pc = "delDelete" /\ UNCHANGED proc
    BY DEF DeleteForDelete
  <1>2. wk.c \in Cluster /\ wk.r \in Rule /\ proc = "running" /\ wk \in Worker /\ ApiOK
    BY <1>1, WorkerRuns DEF IndInv, ServiceOK, WorkerOK
  <1>3. PICK h \in Cluster, r \in Rule : h = wk.c /\ r = wk.r
    BY <1>2
  <1>4. PICK ok \in BOOLEAN :
            /\ DeleteClusterConfig(h, r, ok)
            /\ wk' = [wk EXCEPT !.pc = "delRelease", !.del[r] = NoObject, !.err = @ \/ ~ok]
    BY <1>3 DEF DeleteForDelete
  <1>5. /\ wk'.pc = "delRelease" /\ wk'.c = h
        /\ \A s \in Rule \ {r} : wk'.del[s] = wk.del[s]
    BY <1>2, <1>3, <1>4 DEF Worker
  <1>6. wk.err => wk'.err
    BY <1>2, <1>4 DEF Worker
  <1>7. UNCHANGED clusters /\ queue \subseteq queue'
    BY <1>4 DEF DeleteClusterConfig, WriteClusterConfig
  <1>8. \A d \in Cluster, s \in Rule : Live(ccs'[d][s]) => Live(ccs[d][s])
    <2>1. Exists(ccs[h][r]) => Shape(ccs[h][r])
      BY DEF ClaimsOK, ClusterConfigCopies
    <2>2. \A d \in Cluster, s \in Rule : Aged(ccs[d][s], ccs'[d][s])
      BY <1>4, <2>1, DeleteEffect
    <2> QED BY <2>2 DEF Aged, Live, Exists
  <1>9. ~wk.err => ~Live(ccs[h][r])
    BY <1>1, <1>2, <1>3 DEF Released
  <1>10. \A d \in Cluster, s \in Rule :
            Live(ccs'[d][s]) /\ ReleasePending(d, s) => ReleasePending(d, s)'
    BY <1>1, <1>3, <1>5, <1>6, <1>7, <1>8, <1>9 DEF ReleasePending, Exists
  <1> QED BY <1>1, <1>2, <1>5, <1>7, <1>8, <1>10, DeletionReleased

(* At the end nothing is left, or the request comes back. *)
LEMMA FinishDeleteReleased ==
    ASSUME IndInv, Steady, NotIgnored, Released, FinishDelete
    PROVE  Fresh' /\ NotIgnored' /\ Released'
  <1>1. /\ wk.pc = "delRelease" /\ wk.del = NoConfigs /\ UNCHANGED <<clusters, ccs, proc>>
        /\ wk' = IdleWorker
        /\ queue' = IF wk.err THEN queue \cup {wk.c} ELSE queue
    BY DEF FinishDelete, Return, workerUnchanged
  <1>2. wk.c \in Cluster /\ proc = "running" /\ wk'.pc = "idle"
    BY <1>1, WorkerRuns, IdleWorkerType
  <1>3. \A c \in Cluster, r \in Rule : ReleasePending(c, r) => ReleasePending(c, r)'
    BY <1>1, <1>2 DEF ReleasePending, NoConfigs, Exists
  <1> QED BY <1>1, <1>2, <1>3, DeletionReleased DEF Live, Exists

(* No step of the Cluster controller forgets what is to be released. *)
LEMMA ClusterReconcileReleased ==
    ASSUME Undisturbed, IndInv, Steady, NEW G, ClaimsOK(G), Fresh, NotIgnored, Released,
           ClusterReconcile, UNCHANGED rs
    PROVE  Fresh' /\ NotIgnored' /\ Released'
  <1>1. ~RemoveOperationAnnotation
    BY DEF RemoveOperationAnnotation, NotIgnored
  <1>2. ASSUME NEW c \in Cluster, FetchClusterFails(c)
        PROVE  Fresh' /\ NotIgnored' /\ Released'
    <2>1. UNCHANGED <<clusters, ccs, queue, wk, proc>>
      BY <1>2 DEF FetchClusterFails, workerUnchanged
    <2> QED BY <2>1, NothingOutside, OutsideReleased
  <1> QED
    BY <1>1, <1>2, FetchClusterReleased, GenerationReleased, PatchAnnotationReleased,
       ApplyCreatesReleased, ApplyUpdatesImpossible, ListForDeleteReleased,
       ReleaseForDeleteReleased, DeleteForDeleteReleased, FinishDeleteReleased
    DEF ClusterReconcile

(* No step forgets what is to be released, unless it is a crash or an      *)
(* intervention.                                                           *)
LEMMA NextReleased ==
    ASSUME Undisturbed, ConfigStays, IndInv, Steady, Steady', Claimed, Fixed, ReleasedInv, [Next]_vars
    PROVE  ReleasedInv'
  <1> SUFFICES ASSUME Calm' PROVE Fresh' /\ NotIgnored' /\ Released'
    BY DEF ReleasedInv
  <1>1. Fresh /\ NotIgnored /\ Released /\ ~Crash /\ \A kind : ~UserAction(kind)
    BY CalmStep DEF ReleasedInv
  <1>2. PICK G \in ClaimMap : ClaimsOK(G)
    BY DEF Claimed
  <1>3. CASE Environment /\ UNCHANGED <<ipam, lock, wk, rs, cf, standby>>
    <2>1. Outside /\ UNCHANGED proc
      BY <1>1, <1>2, <1>3, EnvironmentOutside, EnvironmentFixed
    <2> QED BY <1>1, <1>2, <1>3, <2>1, OutsideReleased
  <1>4. CASE ClusterReconcile /\ UNCHANGED <<rs, cf, standby>>
    BY <1>1, <1>2, <1>4, ClusterReconcileReleased
  <1>5. CASE ConfigReconcile /\ UNCHANGED <<wk, standby>>
    <2>1. UNCHANGED proc /\ queue \subseteq queue'
      BY <1>5, ConfigReconcileFixed
    <2>2. cf.pc \notin {"refresh", "refreshing"}
      BY DEF Steady, Phases
    <2>3. UNCHANGED <<clusters, ccs, rs>>
      BY <1>5, <2>2 DEF ConfigReconcile, FetchConfig, RemoveConfigOperation, QueueClusters,
         SetConfig, Refresh, RefreshReturns, RefreshDue, configUnchanged
    <2> QED BY <1>1, <1>2, <1>5, <2>1, <2>3, NothingOutside, OutsideReleased
  <1>6. CASE RestoreStep /\ UNCHANGED <<wk, cf, standby>>
    <2>1. rs.pc # "idle" /\ UNCHANGED <<proc, clusters>>
      BY <1>6 DEF RestoreStep, RestoreList, RestoreCheck, RestoreCreate, RestoreUpdate,
         RestoreRefetch, RestoreChecked, OrphanGetCluster, OrphanDelete, OrphanReleaseCIDRs,
         RestoreOrphansHandled, RestoreBuild, restoreUnchanged, ApplyCreate, ApplyUpdate,
         ReleaseCIDRs, DeleteClusterConfig
    <2>2. proc # "running"
      BY <2>1, IdleRestoreType DEF Steady, Phases
    <2>3. Fresh'
      BY <1>1, <1>2, <1>6, RestoreFresh
    <2> QED BY <1>1, <2>1, <2>2, <2>3, NotRunningReleased
  <1>7. CASE Start \/ BootFails
    BY <1>1, <1>7, StartFresh, NotRunningReleased
  <1>8. CASE StartManager
    BY <1>1, <1>8, StartManagerReleased
  <1>9. CASE UNCHANGED vars
    <2>1. UNCHANGED <<clusters, ccs, queue, wk, proc, rs>>
      BY <1>9 DEF vars
    <2> QED BY <1>1, <1>2, <2>1, NothingOutside, OutsideReleased
  <1> QED
    BY <1>1, <1>3, <1>4, <1>5, <1>6, <1>7, <1>8, <1>9, TakeOverImpossible DEF Next

-----------------------------------------------------------------------------
(***************************************************************************)
(* Theorems.                                                               *)
(***************************************************************************)

(* Whatever is unfinished is queued or in hand, as long as the config that *)
(* the service was installed with stays.                                   *)
THEOREM WorkPending == Undisturbed /\ ConfigStays => (Spec => []ServedInv)
  <1> SUFFICES ASSUME Undisturbed, ConfigStays PROVE Spec => []ServedInv
    OBVIOUS
  <1>1. Init => ServedInv
    <2> SUFFICES ASSUME Init PROVE ServedInv
      OBVIOUS
    <2>1. proc = "down" /\ wk.pc = "idle" /\ cf.pc = "idle"
      BY IdleWorkerType DEF Init, IdleConfigWorker
    <2>2. \A c \in Cluster : ~Exists(clusters[c]) /\ \A r \in Rule : ~Exists(ccs[c][r])
      BY DEF Init, NoClusters, NoClusterConfigs, NoConfigs, Exists
    <2>3. Fixed
      <3>1. PICK cfg \in InitialConfigs : stored = NewConfig(cfg)
        BY DEF Init
      <3>2. cfg \in Configs
        BY PlatformAssumption
      <3>3. stored \in ConfigObject /\ stored.op = "none" /\ stored.deleting = FALSE
        BY <3>1, <3>2 DEF NewConfig, ConfigObject, Operation
      <3> QED BY <2>1, <3>3, PlatformAssumption DEF Fixed, Exists
    <2> QED BY <2>1, <2>2, <2>3 DEF ServedInv, Filled, Live, InHand, Working, Served, Referenced
  <1>2. IndInv /\ (Steady /\ Claimed) /\ (Steady /\ Claimed)' /\ ServedInv /\ [Next]_vars => ServedInv'
    BY NextFixed, NextLive, NextServed, NextReferenced DEF ServedInv
  <1> QED BY <1>1, <1>2, ClaimsInductive, Inductive, PTL DEF Spec

(* At rest every Cluster that a rule matches has had the rule applied, in  *)
(* the annotation and in a ClusterConfig with the same injections          *)
(* (reconcile, handleCreateOrUpdate): no failed call, lost response or     *)
(* crash makes the controller forget one.                                  *)
THEOREM RestServed == Undisturbed /\ ConfigStays => (Spec => []QuietServed)
  <1> SUFFICES ASSUME Undisturbed, ConfigStays PROVE Spec => []QuietServed
    OBVIOUS
  <1>1. ASSUME ServedInv, Steady, Claimed
        PROVE  QuietServed
    <2> SUFFICES ASSUME Quiet, Exists(config), NEW c \in Cluster,
                        Exists(clusters[c]), clusters[c].op # "ignore"
                 PROVE  /\ Applied(config.rules, clusters[c].purpose, clusters[c].ann)
                        /\ Matches(config, clusters[c].purpose) =>
                            \A r \in Rule : clusters[c].ann[r] # {} =>
                                Exists(ccs[c][r]) /\ ccs[c][r].patches = clusters[c].ann[r]
      BY DEF QuietServed, Applied
    <2>1. Done(c)
      BY <1>1 DEF ServedInv, Served, Attended, Working, Quiet
    <2>2. PICK G \in ClaimMap : ClaimsOK(G)
      BY <1>1 DEF Claimed
    <2>3. \A r \in Rule : Live(ccs[c][r]) /\ clusters[c].ann[r] # {} =>
            ccs[c][r].patches = clusters[c].ann[r]
      BY <2>2 DEF ClaimsOK, AnnotationCopies, ClusterConfigCopies, Copy, Live
    <2>4. Applied(config.rules, clusters[c].purpose, clusters[c].ann)
      BY <2>1 DEF Done, Applied, Matches
    <2> QED BY <2>1, <2>3, <2>4 DEF Done, Live
  <1> QED BY <1>1, WorkPending, ClaimsInductive, PTL

(* At rest every Cluster refers to the ClusterConfigs of the rules that    *)
(* match it, and to nothing that does not exist (the mutating webhook, and *)
(* the placeholder it leaves until the annotation is written).             *)
THEOREM RestReferenced == Undisturbed /\ ConfigStays => (Spec => []QuietReferenced)
  <1> SUFFICES ASSUME Undisturbed, ConfigStays PROVE Spec => []QuietReferenced
    OBVIOUS
  <1>1. ASSUME IndInv, ServedInv, QuietServed
        PROVE  QuietReferenced
    <2> SUFFICES ASSUME Webhooks, Quiet, Exists(config), NEW c \in Cluster,
                        Exists(clusters[c]), clusters[c].op # "ignore"
                 PROVE  /\ MatchingRules(config, clusters[c].purpose) \subseteq clusters[c].refs
                        /\ \A r \in clusters[c].refs : r \in Rule /\ Exists(ccs[c][r])
      BY DEF QuietReferenced
    <2> DEFINE matching == MatchingRules(config, clusters[c].purpose)
    <2>1. config = stored.spec /\ config \in Configs
      BY <1>1, FixedConfig DEF ServedInv, Quiet
    <2>2. matching \in SUBSET Rule
      BY <2>1, MatchingRulesType
    <2>3. ASSUME NEW r \in matching
          PROVE  clusters[c].ann[r] # {} /\ Exists(ccs[c][r])
      <3>1. PICK i \in DOMAIN config.rules :
                r = config.rules[i].id /\ RuleMatches(config.rules[i], clusters[c].purpose)
        BY DEF MatchingRules
      <3>2. clusters[c].ann[r] # {}
        BY <1>1, <3>1 DEF QuietServed
      <3>3. Matches(config, clusters[c].purpose)
        BY <3>1 DEF Matches
      <3> QED BY <1>1, <2>2, <3>2, <3>3 DEF QuietServed
    <2>4. WellReferenced(clusters[c])
      BY <1>1 DEF ServedInv, Referenced
    <2>5. clusters[c].refs = matching
      BY <2>1, <2>2, <2>3, <2>4 DEF WellReferenced, NoInjections
    <2> QED BY <2>2, <2>3, <2>5
  <1> QED BY <1>1, WorkPending, RestServed, Inductive, PTL

(* What a deleted Cluster has left is still to be released, as long as     *)
(* nobody intervenes and the process does not crash.                       *)
THEOREM ReleasesPending == Undisturbed /\ ConfigStays => (Spec => []ReleasedInv)
  <1> SUFFICES ASSUME Undisturbed, ConfigStays PROVE Spec => []ReleasedInv
    OBVIOUS
  <1>1. Init => ReleasedInv
    <2> SUFFICES ASSUME Init PROVE Fresh /\ NotIgnored /\ Released
      BY DEF ReleasedInv
    <2>1. proc = "down" /\ wk.pc = "idle" /\ rs.todo = NoClusters /\ rs.create = NoInjections
      BY IdleWorkerType DEF Init, IdleRestore
    <2>2. \A c \in Cluster : ~Exists(clusters[c]) /\ \A r \in Rule : ~Exists(ccs[c][r])
      BY DEF Init, NoClusters, NoClusterConfigs, NoConfigs, Exists
    <2> QED BY <2>1, <2>2 DEF Fresh, NotIgnored, Released, NoClusters, NoInjections, Exists
  <1>2. ServedInv => Fixed
    BY DEF ServedInv
  <1>3. IndInv /\ (Steady /\ Claimed) /\ (Steady /\ Claimed)' /\ Fixed /\ ReleasedInv /\ [Next]_vars
            => ReleasedInv'
    BY NextReleased
  <1> QED BY <1>1, <1>2, <1>3, WorkPending, ClaimsInductive, Inductive, PTL DEF Spec

(* Both: no reconciliation ever drops a Cluster that still needs serving,  *)
(* or a deleted one that still needs releasing, from the queue and from    *)
(* the hands of the worker.                                                *)
THEOREM NothingForgotten == Undisturbed /\ ConfigStays => (Spec => []PendingHolds)
  <1> SUFFICES ASSUME Undisturbed, ConfigStays PROVE Spec => []PendingHolds
    OBVIOUS
  <1>1. ServedInv /\ ReleasedInv => PendingHolds
    BY DEF PendingHolds
  <1> QED BY <1>1, WorkPending, ReleasesPending, PTL

(* At rest, no ClusterConfig of a deleted Cluster holds its CIDRs any      *)
(* longer (handleDelete), as long as nobody has intervened and the process *)
(* has not crashed: whatever fails in between comes back.                  *)
THEOREM RestReleased == Undisturbed /\ ConfigStays => (Spec => [](Calm => QuietNoOrphans))
  <1> SUFFICES ASSUME Undisturbed, ConfigStays PROVE Spec => [](Calm => QuietNoOrphans)
    OBVIOUS
  <1>1. ReleasedInv => (Calm => QuietNoOrphans)
    BY DEF ReleasedInv, Released, ReleasePending, QuietNoOrphans, Quiet, Live
  <1> QED BY <1>1, ReleasesPending, PTL
=============================================================================
