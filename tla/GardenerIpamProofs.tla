------------------------- MODULE GardenerIpamProofs -------------------------
(***************************************************************************)
(* Proofs about the whole service, for every value of the constants: its   *)
(* state stays well-typed, its IPAM state stays well-formed, and what a    *)
(* Cluster has been given it keeps.                                        *)
(***************************************************************************)
EXTENDS GardenerIpam, StoreProofs

(***************************************************************************)
(* The inductive invariant: TypeOK, split into the objects of the platform *)
(* and the memory of each process, and what the next call of each process  *)
(* relies on.                                                              *)
(***************************************************************************)
ApiOK ==
    /\ clusters \in [Cluster -> ClusterObject \cup {NoObject}]
    /\ ccs \in [Cluster -> [Rule -> ClusterConfig \cup {NoObject}]]
    /\ queue \in SUBSET Cluster
    /\ used \in [names: SUBSET Cluster, failures: Nat, edits: Nat, crashes: Nat]

ScalarsOK ==
    /\ stored \in ConfigObject \cup {NoObject}
    /\ nextUid \in Nat
    /\ proc \in {"down", "booting", "running"}
    /\ config \in Configs \cup {NoObject}
    /\ cfgQueued \in BOOLEAN
    /\ lock \in BOOLEAN

StoreOK == IsStore(ipam) /\ WellFormed(ipam)

(* What the Cluster controller relies on. *)
WorkerOK ==
    /\ wk \in Worker
    /\ wk.pc # "idle" => wk.c \in Cluster
    /\ wk.pc \in {"operation", "config", "list", "generate", "annotate", "apply"} => Exists(wk.cl)
    /\ \A i \in DOMAIN wk.rules : wk.rules[i].injections # <<>>
    /\ wk.todo \subseteq DOMAIN wk.rules
    /\ wk.pc # "generate" => wk.inj = 1
    /\ wk.pc = "generate" =>
        wk.todo # {} /\ wk.inj \in DOMAIN wk.rules[CurrentRule].injections
    /\ wk.pc = "delDelete" => wk.r \in Rule

(* What a Restore relies on. *)
RestoreOK ==
    /\ rs \in Restoration
    /\ rs.pc \in {"apply", "delete", "release"} => rs.c \in Cluster
    /\ rs.pc \in {"delete", "release"} => rs.r \in Rule /\ Exists(rs.rest[rs.c][rs.r])
    /\ rs.pc \notin {"idle", "done", "failed"} => Exists(rs.cfg)

(* What the config controller relies on. *)
ConfigOK ==
    /\ cf \in ConfigWorker
    /\ cf.pc \in {"queue", "set"} => Exists(cf.cfg)

(* The Cluster controller is the only writer of the annotation, so what it *)
(* is about to write covers what is there; a rule it still has to generate *)
(* is not there.                                                           *)
AnnotationOK ==
    wk.c \in Cluster /\ Exists(clusters[wk.c]) =>
        /\ wk.pc \in {"config", "list"} =>
            \A r \in Rule : clusters[wk.c].ann[r] \subseteq wk.cl.ann[r]
        /\ wk.pc \in {"generate", "annotate"} =>
            \A r \in Rule : clusters[wk.c].ann[r] \subseteq wk.ann[r]
        /\ wk.pc = "generate" =>
            \A i \in wk.todo : clusters[wk.c].ann[wk.rules[i].id] = {}

ServiceOK == ApiOK /\ ScalarsOK /\ StoreOK /\ WorkerOK /\ RestoreOK /\ ConfigOK /\ AnnotationOK

(* The replica that waits for the lease has a state it can go on with. *)
StandbyOK ==
    /\ standby.cfg \in Configs \cup {NoObject}
    /\ IsStore(standby.ipam) /\ WellFormed(standby.ipam)

IndInv == ServiceOK /\ StandbyOK

(* The inductive invariant covers the type invariant. *)
LEMMA IndInvTypeOK == IndInv => TypeOK
  BY DEF IndInv, ServiceOK, StandbyOK, TypeOK, ApiOK, ScalarsOK, StoreOK, WorkerOK, RestoreOK, ConfigOK

-----------------------------------------------------------------------------
(* Objects and API calls.                                                  *)

(* NoObject is no Cluster, no ClusterConfig and no config. *)
LEMMA NoObjectType ==
    /\ NoObject \notin ClusterObject /\ NoObject \notin ClusterConfig
    /\ NoObject \notin IPAMConfig /\ NoObject \notin Configs
    /\ NoObject \notin ConfigObject
  BY PlatformAssumption

(* A stored config is a config. *)
LEMMA ConfigType ==
    ASSUME NEW cfg \in Configs
    PROVE  /\ cfg \in IPAMConfig /\ Exists(cfg) /\ cfg.refresh \in BOOLEAN
           /\ cfg.rules \in Seq(CIDRInjection)
           /\ \A i \in DOMAIN cfg.rules : cfg.rules[i].injections # <<>>
  <1>1. cfg \in IPAMConfig
    BY PlatformAssumption
  <1>2. cfg.rules \in Seq(CIDRInjection)
    BY <1>1 DEF IPAMConfig
  <1>3. cfg.refresh \in BOOLEAN
    BY <1>1 DEF IPAMConfig
  <1> QED
    BY <1>1, <1>2, <1>3, PlatformAssumption DEF Exists

(* The webhook refers to rules only. *)
LEMMA MatchingRulesType ==
    ASSUME NEW cfg \in Configs, NEW purpose
    PROVE  MatchingRules(cfg, purpose) \in SUBSET Rule
  <1>1. ASSUME NEW i \in DOMAIN cfg.rules
        PROVE  cfg.rules[i].id \in Rule
    <2>1. cfg.rules[i] \in CIDRInjection
      BY <1>1, ConfigType, SeqElement
    <2> QED BY <2>1 DEF CIDRInjection
  <1> QED BY <1>1 DEF MatchingRules

(* A Cluster stays one when the webhook has changed it, with the same      *)
(* annotation.                                                             *)
LEMMA DefaultType ==
    ASSUME ScalarsOK, Admitted, NEW cl \in ClusterObject, NEW named \in BOOLEAN
    PROVE  Default(cl, named) \in ClusterObject /\ Default(cl, named).ann = cl.ann
  <1>1. CASE ~Webhooks
    BY <1>1 DEF Default
  <1>2. CASE Webhooks
    <2> DEFINE refs == InjectedReferences(config, cl.purpose, named, cl.refs)
    <2>1. config \in Configs
      BY <1>2 DEF Admitted, ScalarsOK, Exists
    <2>2. MatchingRules(config, cl.purpose) \in SUBSET Rule
      BY <2>1, MatchingRulesType
    <2>3. cl.refs \in SUBSET Reference
      BY DEF ClusterObject
    <2>4. refs \in SUBSET Reference
      BY <2>2, <2>3 DEF InjectedReferences, Reference
    <2>5. Default(cl, named) = [cl EXCEPT !.refs = refs]
      BY <1>2 DEF Default
    <2> HIDE DEF refs
    <2> QED BY <2>4, <2>5 DEF ClusterObject
  <1> QED BY <1>1, <1>2

(* The initial values of the maps from Clusters and rules are well-typed. *)
LEMMA NothingType ==
    /\ NoInjections \in [Rule -> SUBSET Patch]
    /\ NoConfigs \in [Rule -> ClusterConfig \cup {NoObject}]
    /\ NoUpdates \in [Rule -> Update \cup {NoObject}]
    /\ NoTmpParents \in [Id -> CIDR \cup {NoCidr}]
    /\ NoClusters \in [Cluster -> ClusterObject \cup {NoObject}]
    /\ NoClusterConfigs \in [Cluster -> [Rule -> ClusterConfig \cup {NoObject}]]
  BY DEF NoInjections, NoConfigs, NoUpdates, NoTmpParents, NoClusters, NoClusterConfigs

(* What the API server keeps of a ClusterConfig is one, or nothing. *)
LEMMA PersistedType ==
    ASSUME NEW cc \in ClusterConfig
    PROVE  /\ Persisted(cc) \in ClusterConfig \cup {NoObject}
           /\ Deleted(cc) \in ClusterConfig \cup {NoObject}
  BY DEF Persisted, Deleted, ClusterConfig

(* The CIDRs of patches are CIDRs. *)
LEMMA CidrsOfType ==
    ASSUME NEW S \in SUBSET Patch
    PROVE  CidrsOf(S) \in SUBSET CIDR
  BY DEF CidrsOf, Patch

(* A failing call only counts against its bound. *)
LEMMA ApiFailsType ==
    ASSUME ApiOK, NEW kind, ApiFails(kind)
    PROVE  used' \in [names: SUBSET Cluster, failures: Nat, edits: Nat, crashes: Nat]
  BY DEF ApiOK, ApiFails

(* So does a lost response. *)
LEMMA AnsweredType ==
    ASSUME ApiOK, NEW kind, NEW ok, Answered(kind, ok)
    PROVE  used' \in [names: SUBSET Cluster, failures: Nat, edits: Nat, crashes: Nat]
  BY DEF ApiOK, Answered

(* Writing a ClusterConfig leaves objects and queue well-typed. *)
LEMMA WriteType ==
    ASSUME ApiOK, NEW c \in Cluster, NEW r \in Rule,
           NEW cc \in ClusterConfig \cup {NoObject},
           WriteClusterConfig(c, r, cc) \/ CreateClusterConfig(c, r, cc)
    PROVE  /\ ccs' \in [Cluster -> [Rule -> ClusterConfig \cup {NoObject}]]
           /\ queue' \in SUBSET Cluster
  BY DEF ApiOK, WriteClusterConfig, CreateClusterConfig

(* RestorationInstruction.Apply, a create: the objects stay well-typed. *)
LEMMA ApplyCreateType ==
    ASSUME ApiOK, NEW c \in Cluster, NEW r \in Rule, NEW uid \in Nat,
           NEW patches \in SUBSET Patch, NEW ok \in BOOLEAN,
           ApplyCreate(c, r, uid, patches, ok)
    PROVE  ApiOK' /\ UNCHANGED <<clusters, stored, nextUid>>
  <1>1. NewClusterConfig(uid, patches) \in ClusterConfig
    BY DEF NewClusterConfig, ClusterConfig
  <1>2. UNCHANGED <<clusters, stored, nextUid>>
    BY DEF ApplyCreate
  <1>3. CASE CreateClusterConfig(c, r, NewClusterConfig(uid, patches)) /\ Answered("create", ok)
    BY <1>1, <1>2, <1>3, WriteType, AnsweredType DEF ApiOK
  <1>4. CASE UNCHANGED <<ccs, queue, used>>
    BY <1>2, <1>4 DEF ApiOK
  <1>5. CASE ApiFails("create") /\ UNCHANGED <<ccs, queue>>
    BY <1>2, <1>5, ApiFailsType DEF ApiOK
  <1> QED
    BY <1>2, <1>3, <1>4, <1>5 DEF ApplyCreate

(* RestorationInstruction.Apply, an update: the objects stay well-typed. *)
LEMMA ApplyUpdateType ==
    ASSUME ApiOK, NEW c \in Cluster, NEW r \in Rule, NEW update \in Update,
           NEW ok \in BOOLEAN, ApplyUpdate(c, r, update, ok)
    PROVE  ApiOK' /\ UNCHANGED <<clusters, stored, nextUid>>
  <1>1. Persisted(update.now) \in ClusterConfig \cup {NoObject}
    BY PersistedType DEF Update
  <1>2. UNCHANGED <<clusters, stored, nextUid>>
    BY DEF ApplyUpdate
  <1>3. CASE WriteClusterConfig(c, r, Persisted(update.now)) /\ Answered("update", ok)
    BY <1>1, <1>2, <1>3, WriteType, AnsweredType DEF ApiOK
  <1>4. CASE UNCHANGED <<ccs, queue, used>>
    BY <1>2, <1>4 DEF ApiOK
  <1>5. CASE ApiFails("update") /\ UNCHANGED <<ccs, queue>>
    BY <1>2, <1>5, ApiFailsType DEF ApiOK
  <1> QED
    BY <1>2, <1>3, <1>4, <1>5 DEF ApplyUpdate

(* releaseCIDRsForClusterConfig_internal keeps the IPAM state well-formed. *)
LEMMA ReleaseCIDRsType ==
    ASSUME ApiOK, StoreOK, NEW c \in Cluster, NEW r \in Rule,
           NEW cc \in ClusterConfig, NEW ok \in BOOLEAN, ReleaseCIDRs(c, r, cc, ok)
    PROVE  ApiOK' /\ StoreOK' /\ UNCHANGED <<clusters, stored, nextUid>>
  <1> DEFINE S == CidrsOf(cc.patches)
             new == Persisted([ccs[c][r] EXCEPT !.fin = FALSE, !.foreign = cc.foreign])
  <1>1. UNCHANGED <<clusters, stored, nextUid>>
    BY DEF ReleaseCIDRs
  <1>2. StoreOK'
    <2>1. ipam' = ipam \/ ipam' = Forget(ipam, ReleasedInOrder(ipam, S))
      BY DEF ReleaseCIDRs
    <2> QED
      BY <2>1, ForgetWellFormed DEF StoreOK
  <1>3. CASE Exists(ccs[c][r]) /\ WriteClusterConfig(c, r, new) /\ Answered("release", ok)
    <2>1. ccs[c][r] \in ClusterConfig
      BY <1>3 DEF ApiOK, Exists
    <2>2. [ccs[c][r] EXCEPT !.fin = FALSE, !.foreign = cc.foreign] \in ClusterConfig
      BY <2>1 DEF ClusterConfig
    <2>3. new \in ClusterConfig \cup {NoObject}
      BY <2>2, PersistedType
    <2> QED
      BY <1>1, <1>2, <1>3, <2>3, WriteType, AnsweredType DEF ApiOK
  <1>4. CASE UNCHANGED <<ccs, queue, used>>
    BY <1>1, <1>2, <1>4 DEF ApiOK
  <1>5. CASE ApiFails("release") /\ UNCHANGED <<ccs, queue>>
    BY <1>1, <1>2, <1>5, ApiFailsType DEF ApiOK
  <1> QED
    BY <1>1, <1>3, <1>4, <1>5 DEF ReleaseCIDRs, FinalizerPatchFails

(* Deleting a ClusterConfig leaves objects and queue well-typed. *)
LEMMA DeleteClusterConfigType ==
    ASSUME ApiOK, NEW c \in Cluster, NEW r \in Rule, NEW ok \in BOOLEAN,
           DeleteClusterConfig(c, r, ok)
    PROVE  ApiOK' /\ UNCHANGED <<clusters, stored, nextUid>>
  <1>1. UNCHANGED <<clusters, stored, nextUid>>
    BY DEF DeleteClusterConfig
  <1>2. CASE /\ Exists(ccs[c][r]) /\ WriteClusterConfig(c, r, Deleted(ccs[c][r]))
             /\ Answered("delete", ok)
    <2>1. Deleted(ccs[c][r]) \in ClusterConfig \cup {NoObject}
      BY <1>2, PersistedType DEF ApiOK, Exists
    <2> QED
      BY <1>1, <1>2, <2>1, WriteType, AnsweredType DEF ApiOK
  <1>3. CASE UNCHANGED <<ccs, queue>> /\ Answered("delete", ok)
    BY <1>1, <1>3, AnsweredType DEF ApiOK
  <1>4. CASE ApiFails("delete") /\ UNCHANGED <<ccs, queue>>
    BY <1>1, <1>4, ApiFailsType DEF ApiOK
  <1> QED
    BY <1>1, <1>2, <1>3, <1>4 DEF DeleteClusterConfig

(* CheckClusterConfigsForCluster returns a RestorationInstruction. *)
LEMMA CheckClusterConfigsType ==
    ASSUME NEW applied \in [Rule -> SUBSET Patch],
           NEW listed \in [Rule -> ClusterConfig \cup {NoObject}]
    PROVE  CheckClusterConfigs(applied, listed) \in Instruction
  <1>1. ASSUME NEW r \in Rule, Exists(listed[r])
        PROVE  listed[r] \in ClusterConfig /\ Repaired(applied[r], listed[r]) \in ClusterConfig
    <2>1. listed[r] \in ClusterConfig
      BY <1>1 DEF Exists
    <2>2. MissingInjections(applied[r], listed[r]) \in SUBSET Patch
      BY DEF MissingInjections
    <2> QED
      BY <2>1, <2>2 DEF Repaired, ClusterConfig
  <1> QED
    BY <1>1 DEF CheckClusterConfigs, Instruction, Update

-----------------------------------------------------------------------------
(* Users and foreign controllers.                                          *)

(* What the processes rely on depends on their own memory only. *)
LEMMA ProcessesUnchanged ==
    ASSUME UNCHANGED <<wk, rs, cf>>
    PROVE  /\ WorkerOK => WorkerOK'
           /\ RestoreOK => RestoreOK'
           /\ ConfigOK => ConfigOK'
  BY DEF WorkerOK, RestoreOK, ConfigOK, CurrentRule

(* AnnotationOK and KeepsAppliedRules hold if the worker stands still and  *)
(* no annotation of an existing Cluster changes.                           *)
AnnotationsUnchanged ==
    \A c \in Cluster : Exists(clusters'[c]) =>
        IF Exists(clusters[c]) THEN clusters'[c].ann = clusters[c].ann
        ELSE clusters'[c].ann = NoInjections

(* The rules of a config the operator may store have injections. *)
LEMMA RulesType ==
    ASSUME WorkerOK, NEW i \in DOMAIN wk.rules
    PROVE  /\ wk.rules[i].id \in Rule
           /\ wk.rules[i].injections \in Seq(SingleCIDRInjection)
  <1>1. wk.rules \in Seq(CIDRInjection)
    BY DEF WorkerOK, Worker
  <1>2. wk.rules[i] \in CIDRInjection
    BY <1>1, SeqElement
  <1> QED BY <1>2 DEF CIDRInjection

(* A step that takes nothing from annotations keeps AnnotationOK. *)
LEMMA AnnotationStays ==
    ASSUME AnnotationsUnchanged, WorkerOK
    PROVE  /\ KeepsAppliedRules
           /\ UNCHANGED wk /\ AnnotationOK => AnnotationOK'
  <1>1. KeepsAppliedRules
    BY DEF AnnotationsUnchanged, KeepsAppliedRules
  <1>2. ASSUME UNCHANGED wk, AnnotationOK
        PROVE  AnnotationOK'
    <2> SUFFICES ASSUME wk.c \in Cluster, Exists(clusters'[wk.c])
                 PROVE  /\ wk.pc \in {"config", "list"} =>
                            \A r \in Rule : clusters'[wk.c].ann[r] \subseteq wk.cl.ann[r]
                        /\ wk.pc \in {"generate", "annotate"} =>
                            \A r \in Rule : clusters'[wk.c].ann[r] \subseteq wk.ann[r]
                        /\ wk.pc = "generate" =>
                            \A i \in wk.todo : clusters'[wk.c].ann[wk.rules[i].id] = {}
      BY <1>2 DEF AnnotationOK, Exists
    <2>1. CASE Exists(clusters[wk.c])
      BY <1>2, <2>1 DEF AnnotationsUnchanged, AnnotationOK
    <2>2. CASE ~Exists(clusters[wk.c])
      <3>1. \A r \in Rule : clusters'[wk.c].ann[r] = {}
        BY <2>2 DEF AnnotationsUnchanged, NoInjections
      <3>2. \A i \in wk.todo : wk.rules[i].id \in Rule
        BY RulesType DEF WorkerOK
      <3> QED BY <3>1, <3>2
    <2> QED BY <2>1, <2>2
  <1> QED BY <1>1, <1>2

(* An event of the watch on Clusters queues a Cluster. *)
LEMMA ClusterEventType ==
    ASSUME ApiOK, NEW c \in Cluster, NEW cl, NEW relevant, ClusterEvent(c, cl, relevant)
    PROVE  queue' \in SUBSET Cluster
  BY DEF ApiOK, ClusterEvent

(* An action of a user only counts against its bound. *)
LEMMA UserActionType ==
    ASSUME ApiOK, NEW kind, UserAction(kind)
    PROVE  used' \in [names: SUBSET Cluster, failures: Nat, edits: Nat, crashes: Nat]
  BY DEF ApiOK, UserAction

(* Users and foreign controllers preserve the invariant. *)
LEMMA EnvironmentStep ==
    ASSUME ServiceOK, Environment, UNCHANGED <<ipam, lock, wk, rs, cf>>
    PROVE  ServiceOK' /\ KeepsAppliedRules
  <1> USE DEF ServiceOK
  <1>1. ASSUME ApiOK', ScalarsOK', AnnotationsUnchanged, UNCHANGED config
        PROVE  ServiceOK' /\ KeepsAppliedRules
    BY <1>1, ProcessesUnchanged, AnnotationStays DEF StoreOK
  <1>2. ASSUME UNCHANGED clusters
        PROVE  AnnotationsUnchanged
    BY <1>2 DEF AnnotationsUnchanged, Exists
  <1>3. ASSUME NEW c \in Cluster, NEW p \in Purpose, NEW named \in BOOLEAN,
               CreateCluster(c, p, named)
        PROVE  ServiceOK' /\ KeepsAppliedRules
    <2> DEFINE raw == [uid |-> nextUid, purpose |-> p, op |-> "none",
                       ann |-> NoInjections, refs |-> {}]
               cl == Default(raw, named)
    <2>0. raw \in ClusterObject /\ raw.ann = NoInjections
      BY NothingType DEF ClusterObject, ScalarsOK, Operation
    <2>1. cl \in ClusterObject /\ cl.ann = NoInjections
      <3>1. Admitted
        BY <1>3 DEF CreateCluster
      <3> HIDE DEF raw
      <3> QED BY <2>0, <3>1, DefaultType
    <2>2. /\ clusters' = [clusters EXCEPT ![c] = cl] /\ ClusterEvent(c, cl, TRUE)
          /\ ~Exists(clusters[c])
          /\ UNCHANGED <<ccs, stored, proc, config, cfgQueued>>
      BY <1>3 DEF CreateCluster
    <2> HIDE DEF cl
    <2>3. queue' \in SUBSET Cluster
      BY <2>2, ClusterEventType
    <2>4. ApiOK'
      BY <1>3, <2>1, <2>2, <2>3 DEF ApiOK, CreateCluster
    <2>5. ScalarsOK'
      BY <1>3, <2>2 DEF ScalarsOK, CreateCluster
    <2>6. AnnotationsUnchanged
      BY <2>1, <2>2 DEF AnnotationsUnchanged, ApiOK
    <2> QED BY <1>1, <2>2, <2>4, <2>5, <2>6
  <1>4. ASSUME NEW c \in Cluster, DeleteCluster(c)
        PROVE  ServiceOK' /\ KeepsAppliedRules
    <2>1. queue' \in SUBSET Cluster
      BY <1>4, ClusterEventType DEF DeleteCluster
    <2>2. ApiOK' /\ ScalarsOK'
      BY <1>4, <2>1 DEF ApiOK, ScalarsOK, DeleteCluster
    <2>3. AnnotationsUnchanged
      BY <1>4 DEF AnnotationsUnchanged, ApiOK, DeleteCluster, Exists
    <2> QED BY <1>1, <1>4, <2>2, <2>3 DEF DeleteCluster
  <1>5. ASSUME NEW c \in Cluster, NEW r \in Rule, GarbageCollect(c, r)
        PROVE  ServiceOK' /\ KeepsAppliedRules
    <2>1. Deleted(ccs[c][r]) \in ClusterConfig \cup {NoObject}
      BY <1>5, PersistedType DEF ApiOK, Exists, GarbageCollect
    <2>2. ApiOK' /\ ScalarsOK'
      BY <1>5, <2>1, WriteType DEF ApiOK, ScalarsOK, GarbageCollect
    <2> QED BY <1>1, <1>2, <1>5, <2>2 DEF GarbageCollect
  <1>6. ASSUME NEW c \in Cluster, NEW op \in Operation, SetOperation(c, op)
        PROVE  ServiceOK' /\ KeepsAppliedRules
    <2> DEFINE raw == [clusters[c] EXCEPT !.op = op]
               cl == Default(raw, TRUE)
    <2>1. clusters[c] \in ClusterObject /\ Admitted
      BY <1>6 DEF SetOperation, ApiOK, Exists
    <2>1a. raw \in ClusterObject /\ raw.ann = clusters[c].ann
      BY <2>1 DEF ClusterObject
    <2>2. cl \in ClusterObject /\ cl.ann = clusters[c].ann
      <3> HIDE DEF raw
      <3> QED BY <2>1, <2>1a, DefaultType
    <2>3. /\ clusters' = [clusters EXCEPT ![c] = cl]
          /\ UNCHANGED <<ccs, stored, nextUid, proc, config, cfgQueued>>
      BY <1>6 DEF SetOperation
    <2>4. queue' \in SUBSET Cluster
      BY <1>6, ClusterEventType DEF SetOperation
    <2>5. used' \in [names: SUBSET Cluster, failures: Nat, edits: Nat, crashes: Nat]
      BY <1>6, UserActionType DEF SetOperation
    <2> HIDE DEF cl
    <2>6. ApiOK' /\ ScalarsOK'
      BY <2>2, <2>3, <2>4, <2>5 DEF ApiOK, ScalarsOK
    <2>7. AnnotationsUnchanged
      BY <1>6, <2>2, <2>3 DEF AnnotationsUnchanged, ApiOK, SetOperation, Exists
    <2> QED BY <1>1, <2>3, <2>6, <2>7
  <1>7. ASSUME NEW c \in Cluster, NEW r \in Rule, NEW b \in BOOLEAN, ForeignFinalizer(c, r, b)
        PROVE  ServiceOK' /\ KeepsAppliedRules
    <2>1. ccs[c][r] \in ClusterConfig
      BY <1>7 DEF ForeignFinalizer, ApiOK, Exists
    <2>2. [ccs[c][r] EXCEPT !.foreign = b] \in ClusterConfig
      BY <2>1 DEF ClusterConfig
    <2>3. ApiOK' /\ ScalarsOK'
      BY <1>7, <2>2, PersistedType, WriteType, UserActionType DEF ApiOK, ScalarsOK, ForeignFinalizer
    <2> QED BY <1>1, <1>2, <1>7, <2>3 DEF ForeignFinalizer
  <1>8. ASSUME NEW c \in Cluster, NEW r \in Rule, EditClusterConfig(c, r)
        PROVE  ServiceOK' /\ KeepsAppliedRules
    <2>1. ccs[c][r] \in ClusterConfig
      BY <1>8 DEF EditClusterConfig, ApiOK, Exists
    <2>2. /\ [ccs[c][r] EXCEPT !.fin = FALSE] \in ClusterConfig
          /\ \A p : [ccs[c][r] EXCEPT !.patches = @ \ {p}] \in ClusterConfig
      BY <2>1 DEF ClusterConfig
    <2>3. /\ ccs' \in [Cluster -> [Rule -> ClusterConfig \cup {NoObject}]]
          /\ queue' \in SUBSET Cluster
      <3>1. PICK cc \in ClusterConfig \cup {NoObject} : WriteClusterConfig(c, r, cc)
        BY <1>8, <2>1, <2>2, PersistedType DEF EditClusterConfig
      <3> QED BY <3>1, WriteType
    <2>4. ApiOK' /\ ScalarsOK'
      BY <1>8, <2>3, UserActionType DEF ApiOK, ScalarsOK, EditClusterConfig
    <2> QED BY <1>1, <1>2, <1>8, <2>4 DEF EditClusterConfig
  <1>9. ASSUME stored' \in ConfigObject \cup {NoObject}, cfgQueued' \in BOOLEAN,
               UNCHANGED used \/ \E kind : UserAction(kind),
               UNCHANGED <<clusters, ccs, nextUid, proc, config, queue>>
        PROVE  ServiceOK' /\ KeepsAppliedRules
    <2>1. ApiOK' /\ ScalarsOK'
      BY <1>9, UserActionType DEF ApiOK, ScalarsOK
    <2> QED BY <1>1, <1>2, <1>9, <2>1
  <1>10. ASSUME NEW cfg \in Configs, StoreConfig(cfg)
         PROVE  ServiceOK' /\ KeepsAppliedRules
    <2>1. stored' \in ConfigObject
      BY <1>10 DEF StoreConfig, NewConfig, ConfigObject, Operation, ScalarsOK, Exists
    <2> QED BY <1>9, <1>10, <2>1 DEF StoreConfig, ConfigEvent
  <1>11. ASSUME DeleteConfig
         PROVE  ServiceOK' /\ KeepsAppliedRules
    BY <1>9, <1>11 DEF DeleteConfig, ConfigEvent
  <1>12. ASSUME ChangeConfigMeta
         PROVE  ServiceOK' /\ KeepsAppliedRules
    <2>1. stored \in ConfigObject
      BY <1>12 DEF ChangeConfigMeta, ScalarsOK, Exists
    <2>2. stored' \in ConfigObject
      BY <1>12, <2>1 DEF ChangeConfigMeta, ConfigObject
    <2>3. cfgQueued' \in BOOLEAN
      BY <1>12 DEF ChangeConfigMeta, ConfigEvent
    <2> QED BY <1>9, <1>12, <2>2, <2>3 DEF ChangeConfigMeta
  <1> QED
    BY <1>3, <1>4, <1>5, <1>6, <1>7, <1>8, <1>10, <1>11, <1>12 DEF Environment

-----------------------------------------------------------------------------
(* The Cluster controller.                                                 *)

(* CurrentRule is one of the rules that are left. *)
LEMMA LeastChosen ==
    ASSUME NEW T \in SUBSET Nat, T # {}
    PROVE  (CHOOSE i \in T : \A k \in T : i <= k) \in T
  BY LeastNatural

(* The idle worker is well-typed. *)
LEMMA IdleWorkerType ==
    /\ IdleWorker \in Worker
    /\ IdleWorker.pc = "idle" /\ IdleWorker.inj = 1
    /\ IdleWorker.rules = <<>> /\ IdleWorker.todo = {}
    /\ IdleWorker.c = NoObject /\ IdleWorker.cl = NoObject
  BY NothingType DEF IdleWorker, Worker

(* A worker between two phases, with nothing left to generate. *)
LEMMA WorkerAt ==
    ASSUME wk' \in Worker,
           wk'.pc # "generate", wk'.inj = 1, wk'.todo \subseteq DOMAIN wk'.rules,
           \A i \in DOMAIN wk'.rules : wk'.rules[i].injections # <<>>,
           wk'.pc # "idle" => wk'.c \in Cluster,
           wk'.pc \in {"operation", "config", "list", "annotate", "apply"} => Exists(wk'.cl),
           wk'.pc = "delDelete" => wk'.r \in Rule
    PROVE  /\ WorkerOK'
           /\ wk'.pc \notin {"config", "list", "annotate"} => AnnotationOK'
  BY DEF WorkerOK, AnnotationOK, Exists

(* The end of a reconciliation leaves an idle worker and a set of names. *)
LEMMA ReturnStep ==
    ASSUME ServiceOK, NEW c \in Cluster, NEW failed, Return(c, failed)
    PROVE  WorkerOK' /\ AnnotationOK' /\ queue' \in SUBSET Cluster
  <1>1. WorkerOK' /\ AnnotationOK'
    BY IdleWorkerType, WorkerAt DEF Return
  <1> QED BY <1>1 DEF Return, ServiceOK, ApiOK

(* A step of the worker leaves the Restore and the config controller alone. *)
LEMMA WorkerStep ==
    ASSUME ServiceOK, ApiOK', StoreOK', WorkerOK', AnnotationOK', KeepsAppliedRules,
           UNCHANGED <<rs, cf, workerUnchanged>>
    PROVE  ServiceOK' /\ KeepsAppliedRules
  BY DEF ServiceOK, ScalarsOK, RestoreOK, ConfigOK, workerUnchanged

(* Annotations do not change if the Clusters do not. *)
LEMMA ClustersUnchanged ==
    ASSUME UNCHANGED clusters
    PROVE  AnnotationsUnchanged /\ KeepsAppliedRules
  BY DEF AnnotationsUnchanged, KeepsAppliedRules, Exists

(* reconcile: the applicable rules are selected. *)
LEMMA SelectRulesStep ==
    ASSUME ServiceOK, NEW c \in Cluster, NEW cl \in ClusterObject, SelectRules(c, cl)
    PROVE  /\ WorkerOK'
           /\ wk'.pc \in {"idle", "config"}
           /\ wk'.pc = "config" => wk'.c = c /\ wk'.cl = cl
  <1>1. CASE wk' = IdleWorker
    BY <1>1, IdleWorkerType, WorkerAt
  <1>2. CASE /\ Exists(config)
             /\ wk' = [IdleWorker EXCEPT !.pc = "config", !.c = c, !.cl = cl, !.rules = config.rules]
    <2>1. config \in Configs
      BY <1>2 DEF ServiceOK, ScalarsOK, Exists
    <2>2. /\ config.rules \in Seq(CIDRInjection)
          /\ \A i \in DOMAIN config.rules : config.rules[i].injections # <<>>
      BY <2>1, ConfigType
    <2>3. /\ wk' \in Worker /\ wk'.pc = "config" /\ wk'.inj = 1 /\ wk'.todo = {}
          /\ wk'.c = c /\ wk'.cl = cl /\ wk'.rules = config.rules
      BY <1>2, <2>2, IdleWorkerType DEF Worker
    <2>4. Exists(cl)
      BY NoObjectType DEF Exists
    <2> QED BY <2>2, <2>3, <2>4, WorkerAt
  <1> QED BY <1>1, <1>2 DEF SelectRules

(* reconcile: the Cluster is fetched. *)
LEMMA FetchClusterStep ==
    ASSUME ServiceOK, NEW c \in Cluster, FetchCluster(c), UNCHANGED <<rs, cf>>
    PROVE  ServiceOK' /\ KeepsAppliedRules
  <1> DEFINE cl == clusters[c]
  <1>1. /\ UNCHANGED <<clusters, ccs, ipam, used, workerUnchanged>>
        /\ queue' = queue \ {c}
    BY DEF FetchCluster
  <1>2. ApiOK' /\ StoreOK' /\ KeepsAppliedRules
    BY <1>1, ClustersUnchanged DEF ServiceOK, ApiOK, StoreOK
  <1>3. CASE ~Exists(cl) /\ wk' = [IdleWorker EXCEPT !.pc = "delList", !.c = c]
    <2>1. /\ wk' \in Worker /\ wk'.pc = "delList" /\ wk'.inj = 1 /\ wk'.todo = {}
          /\ wk'.c = c /\ wk'.rules = <<>>
      BY <1>3, IdleWorkerType DEF Worker
    <2> QED BY <1>1, <1>2, <2>1, WorkerAt, WorkerStep
  <1>4. CASE wk' = IdleWorker
    BY <1>1, <1>2, <1>4, IdleWorkerType, WorkerAt, WorkerStep
  <1>5. CASE Exists(cl) /\ wk' = [IdleWorker EXCEPT !.pc = "operation", !.c = c, !.cl = cl]
    <2>1. cl \in ClusterObject
      BY <1>5 DEF ServiceOK, ApiOK, Exists
    <2>2. /\ wk' \in Worker /\ wk'.pc = "operation" /\ wk'.inj = 1 /\ wk'.todo = {}
          /\ wk'.c = c /\ wk'.cl = cl /\ wk'.rules = <<>>
      BY <1>5, <2>1, IdleWorkerType DEF Worker
    <2> QED BY <1>1, <1>2, <1>5, <2>2, WorkerAt, WorkerStep
  <1>6. CASE Exists(cl) /\ SelectRules(c, cl)
    <2>1. cl \in ClusterObject
      BY <1>6 DEF ServiceOK, ApiOK, Exists
    <2>2. /\ WorkerOK' /\ wk'.pc \in {"idle", "config"}
          /\ wk'.pc = "config" => wk'.c = c /\ wk'.cl = cl
      BY <1>6, <2>1, SelectRulesStep
    <2>3. AnnotationOK'
      BY <1>1, <2>2 DEF AnnotationOK
    <2> QED BY <1>1, <1>2, <2>2, <2>3, WorkerStep
  <1> QED
    BY <1>3, <1>4, <1>5, <1>6 DEF FetchCluster

(* reconcile: the Cluster cannot be fetched. *)
LEMMA FetchClusterFailsStep ==
    ASSUME ServiceOK, NEW c \in Cluster, FetchClusterFails(c), UNCHANGED <<rs, cf>>
    PROVE  ServiceOK' /\ KeepsAppliedRules
  <1>1. ApiOK' /\ StoreOK'
    BY ApiFailsType DEF ServiceOK, ApiOK, StoreOK, FetchClusterFails
  <1>2. UNCHANGED <<clusters, wk, config, workerUnchanged>>
    BY DEF FetchClusterFails, workerUnchanged
  <1>3. WorkerOK' /\ AnnotationOK' /\ KeepsAppliedRules
    BY <1>2, ProcessesUnchanged, ClustersUnchanged, AnnotationStays DEF ServiceOK
  <1> QED BY <1>1, <1>2, <1>3, WorkerStep

(* reconcile: the operation annotation is removed. *)
LEMMA RemoveOperationAnnotationStep ==
    ASSUME ServiceOK, RemoveOperationAnnotation, UNCHANGED <<rs, cf>>
    PROVE  ServiceOK' /\ KeepsAppliedRules
  <1>1. wk.c \in Cluster
    BY DEF ServiceOK, WorkerOK, RemoveOperationAnnotation
  <1>2. UNCHANGED <<ccs, ipam, workerUnchanged>>
    BY DEF RemoveOperationAnnotation
  <1>3. CASE Return(wk.c, TRUE) /\ UNCHANGED clusters /\ (UNCHANGED used \/ ApiFails("patch"))
    <2>1. WorkerOK' /\ AnnotationOK' /\ queue' \in SUBSET Cluster
      BY <1>1, <1>3, ReturnStep
    <2>2. ApiOK' /\ StoreOK' /\ KeepsAppliedRules
      BY <1>2, <1>3, <2>1, ApiFailsType, ClustersUnchanged DEF ServiceOK, ApiOK, StoreOK
    <2> QED BY <1>2, <2>1, <2>2, WorkerStep
  <1>4. CASE /\ Exists(clusters[wk.c]) /\ Admitted
             /\ LET cl == Default([clusters[wk.c] EXCEPT !.op = "none"], TRUE)
                IN  /\ clusters' = [clusters EXCEPT ![wk.c] = cl]
                    /\ \/ /\ Answered("patch", TRUE)
                          /\ SelectRules(wk.c, cl)
                          /\ ClusterEvent(wk.c, cl, clusters[wk.c].op = "ignore")
                       \/ Answered("patch", FALSE) /\ Return(wk.c, TRUE)
    <2> DEFINE raw == [clusters[wk.c] EXCEPT !.op = "none"]
               cl == Default(raw, TRUE)
    <2>1. cl \in ClusterObject /\ cl.ann = clusters[wk.c].ann
      <3>1. clusters[wk.c] \in ClusterObject
        BY <1>1, <1>4 DEF ServiceOK, ApiOK, Exists
      <3>2. raw \in ClusterObject /\ raw.ann = clusters[wk.c].ann
        BY <3>1 DEF ClusterObject, Operation
      <3> HIDE DEF raw
      <3> QED BY <1>4, <3>2, DefaultType DEF ServiceOK
    <2>2. /\ clusters' = [clusters EXCEPT ![wk.c] = cl]
          /\ \/ /\ Answered("patch", TRUE)
                /\ SelectRules(wk.c, cl)
                /\ ClusterEvent(wk.c, cl, clusters[wk.c].op = "ignore")
             \/ Answered("patch", FALSE) /\ Return(wk.c, TRUE)
      BY <1>4
    <2> HIDE DEF cl
    <2>3. /\ WorkerOK' /\ wk'.pc \in {"idle", "config"}
          /\ wk'.pc = "config" => wk'.c = wk.c /\ wk'.cl = cl
      <3>1. CASE SelectRules(wk.c, cl)
        BY <1>1, <2>1, <3>1, SelectRulesStep
      <3>2. CASE Return(wk.c, TRUE)
        <4>1. wk' = IdleWorker
          BY <3>2 DEF Return
        <4> QED BY <1>1, <3>2, <4>1, ReturnStep, IdleWorkerType
      <3> QED BY <2>2, <3>1, <3>2
    <2>4. queue' \in SUBSET Cluster
      BY <1>1, <2>2, ClusterEventType, ReturnStep DEF ServiceOK
    <2>5. used' \in [names: SUBSET Cluster, failures: Nat, edits: Nat, crashes: Nat]
      BY <2>2, AnsweredType DEF ServiceOK
    <2>6. ApiOK' /\ StoreOK'
      BY <1>1, <1>2, <2>1, <2>2, <2>4, <2>5 DEF ServiceOK, ApiOK, StoreOK
    <2>7. AnnotationsUnchanged
      BY <1>1, <1>4, <2>1, <2>2 DEF ServiceOK, ApiOK, AnnotationsUnchanged, Exists
    <2>8. AnnotationOK'
      BY <1>1, <2>2, <2>3 DEF AnnotationOK, ServiceOK, ApiOK
    <2> QED BY <1>2, <2>3, <2>6, <2>7, <2>8, AnnotationStays, WorkerStep DEF ServiceOK
  <1> QED
    BY <1>3, <1>4 DEF RemoveOperationAnnotation

(* The worker goes on with the next rule, the annotation or the apply. *)
LEMMA ProceedStep ==
    ASSUME NEW w \in Worker, wk' = Proceed(w),
           w.c \in Cluster, Exists(w.cl), w.inj = 1,
           w.todo \subseteq DOMAIN w.rules,
           \A i \in DOMAIN w.rules : w.rules[i].injections # <<>>
    PROVE  /\ WorkerOK'
           /\ wk'.pc \in {"generate", "annotate", "apply"}
           /\ wk'.c = w.c /\ wk'.todo = w.todo /\ wk'.rules = w.rules /\ wk'.ann = w.ann
  <1>1. /\ wk' \in Worker /\ wk'.pc \in {"generate", "annotate", "apply"}
        /\ wk'.pc = "generate" => w.todo # {}
        /\ wk'.c = w.c /\ wk'.todo = w.todo /\ wk'.rules = w.rules /\ wk'.ann = w.ann
        /\ wk'.cl = w.cl /\ wk'.inj = 1
    BY DEF Proceed, Worker
  <1>2. CASE wk'.pc # "generate"
    BY <1>1, <1>2, WorkerAt
  <1>3. CASE wk'.pc = "generate"
    <2>1. w.todo \in SUBSET Nat /\ w.todo # {}
      BY <1>1, <1>3 DEF Worker
    <2>2. CurrentRule' \in w.todo
      BY <1>1, <2>1, LeastChosen DEF CurrentRule
    <2>3. w.rules[CurrentRule'] \in CIDRInjection
      <3>1. w.rules \in Seq(CIDRInjection)
        BY DEF Worker
      <3> QED BY <2>2, <3>1, SeqElement
    <2>4. w.rules[CurrentRule'].injections \in Seq(SingleCIDRInjection)
      BY <2>3 DEF CIDRInjection
    <2>5. w.rules[CurrentRule'].injections # <<>>
      BY <2>2
    <2>6. 1 \in DOMAIN w.rules[CurrentRule'].injections
      BY <2>4, <2>5
    <2> QED BY <1>1, <1>3, <2>1, <2>6 DEF WorkerOK, Exists
  <1> QED BY <1>1, <1>2, <1>3

(* ManageInjections only adds to the applied rules. *)
LEMMA AppliedRulesType ==
    ASSUME NEW ann \in [Rule -> SUBSET Patch],
           NEW listed \in [Rule -> ClusterConfig \cup {NoObject}]
    PROVE  /\ AppliedRules(ann, listed) \in [Rule -> SUBSET Patch]
           /\ \A r \in Rule : ann[r] \subseteq AppliedRules(ann, listed)[r]
  <1>1. \A r \in Rule : Exists(listed[r]) => listed[r].patches \in SUBSET Patch
    BY DEF Exists, ClusterConfig
  <1> QED BY <1>1 DEF AppliedRules

(* handleCreateOrUpdate: the config is read again. *)
LEMMA GetConfigAgainStep ==
    ASSUME ServiceOK, GetConfigAgain, UNCHANGED <<rs, cf>>
    PROVE  ServiceOK' /\ KeepsAppliedRules
  <1>1. /\ wk' = [wk EXCEPT !.pc = "list", !.cfg = config] /\ wk.pc = "config"
        /\ UNCHANGED <<clusters, ccs, ipam, queue, used, workerUnchanged>>
    BY DEF GetConfigAgain
  <1>2. /\ wk \in Worker /\ wk.c \in Cluster /\ Exists(wk.cl) /\ wk.inj = 1
        /\ wk.todo \subseteq DOMAIN wk.rules
        /\ \A i \in DOMAIN wk.rules : wk.rules[i].injections # <<>>
        /\ config \in Configs \cup {NoObject}
    BY <1>1 DEF ServiceOK, WorkerOK, ScalarsOK
  <1>3. /\ wk' \in Worker /\ wk'.pc = "list" /\ wk'.c = wk.c /\ wk'.cl = wk.cl
        /\ wk'.inj = 1 /\ wk'.todo = wk.todo /\ wk'.rules = wk.rules
    BY <1>1, <1>2 DEF Worker
  <1>4. WorkerOK'
    BY <1>2, <1>3, WorkerAt
  <1>5. AnnotationOK'
    BY <1>1, <1>3 DEF ServiceOK, AnnotationOK
  <1>6. ApiOK' /\ StoreOK' /\ KeepsAppliedRules
    BY <1>1, ClustersUnchanged DEF ServiceOK, ApiOK, StoreOK
  <1> QED BY <1>1, <1>4, <1>5, <1>6, WorkerStep

(* handleCreateOrUpdate: the ClusterConfigs are listed and compared. *)
LEMMA ManageInjectionsStep ==
    ASSUME ServiceOK, ManageInjections, UNCHANGED <<rs, cf>>
    PROVE  ServiceOK' /\ KeepsAppliedRules
  <1> DEFINE listed  == ccs[wk.c]
             applied == AppliedRules(wk.cl.ann, listed)
             new     == NewRules(applied, listed)
             todo    == {i \in new : ~HasIssue(wk.rules[i], applied)}
             ri      == CheckClusterConfigs(applied, listed)
             odd     == \E i \in new : RulePaths(wk.rules[i]) \cap OddPath # {}
             w       == [wk EXCEPT !.todo = todo, !.ann = applied,
                                   !.create = ri.create, !.update = ri.update,
                                   !.err = (todo # new \/ odd)]
  <1>1. /\ wk.pc = "list" /\ wk.c \in Cluster /\ Exists(wk.cl) /\ wk.inj = 1 /\ wk \in Worker
        /\ \A i \in DOMAIN wk.rules : wk.rules[i].injections # <<>>
    BY DEF ServiceOK, WorkerOK, ManageInjections
  <1>2. UNCHANGED <<clusters, ccs, ipam, used, workerUnchanged>>
    BY DEF ManageInjections
  <1>3. StoreOK' /\ KeepsAppliedRules /\ (queue' \in SUBSET Cluster => ApiOK')
    BY <1>2, ClustersUnchanged DEF ServiceOK, ApiOK, StoreOK
  <1>4. CASE Return(wk.c, TRUE)
    BY <1>1, <1>2, <1>3, <1>4, ReturnStep, WorkerStep
  <1>5. CASE wk' = Proceed(w) /\ UNCHANGED queue
    <2>1. listed \in [Rule -> ClusterConfig \cup {NoObject}]
      BY <1>1 DEF ServiceOK, ApiOK
    <2>2. wk.cl.ann \in [Rule -> SUBSET Patch]
      BY <1>1 DEF Worker, ClusterObject, Exists
    <2>3. /\ applied \in [Rule -> SUBSET Patch]
          /\ \A r \in Rule : wk.cl.ann[r] \subseteq applied[r]
      BY <2>1, <2>2, AppliedRulesType
    <2>4. ri.create \in [Rule -> SUBSET Patch] /\ ri.update \in [Rule -> Update \cup {NoObject}]
      BY <2>1, <2>3, CheckClusterConfigsType DEF Instruction
    <2>5. /\ todo \in SUBSET DOMAIN wk.rules
          /\ \A i \in todo : applied[wk.rules[i].id] = {}
      BY DEF NewRules, AlreadyApplied
    <2>6. DOMAIN wk.rules \in SUBSET Nat
      <3>1. wk.rules \in Seq(CIDRInjection)
        BY <1>1 DEF Worker
      <3> QED BY <3>1
    <2>8. todo \in SUBSET Nat /\ (todo # new \/ odd) \in BOOLEAN
      BY <2>5, <2>6
    <2> HIDE DEF listed, applied, new, todo, ri, odd
    <2>9. /\ w \in Worker /\ w.c = wk.c /\ w.cl = wk.cl /\ w.inj = wk.inj
          /\ w.rules = wk.rules /\ w.todo = todo /\ w.ann = applied
      BY <1>1, <2>3, <2>4, <2>8 DEF Worker
    <2> HIDE DEF w
    <2>10. /\ WorkerOK' /\ wk'.pc \in {"generate", "annotate", "apply"}
           /\ wk'.c = wk.c /\ wk'.todo = todo /\ wk'.rules = wk.rules /\ wk'.ann = applied
      <3>1. w.todo \subseteq DOMAIN w.rules /\ \A i \in DOMAIN w.rules : w.rules[i].injections # <<>>
        BY <1>1, <2>5, <2>9
      <3> QED BY <1>1, <1>5, <2>9, <3>1, ProceedStep
    <2>11. AnnotationOK'
      <3>1. \A i \in todo : wk.rules[i].id \in Rule
        BY <2>5, RulesType DEF ServiceOK
      <3>2. Exists(clusters[wk.c]) => \A r \in Rule : clusters[wk.c].ann[r] \subseteq applied[r]
        BY <1>1, <2>3 DEF ServiceOK, AnnotationOK
      <3>3. Exists(clusters[wk.c]) => \A i \in todo : clusters[wk.c].ann[wk.rules[i].id] = {}
        BY <2>5, <3>1, <3>2
      <3> QED BY <1>2, <2>10, <3>2, <3>3 DEF AnnotationOK, Exists
    <2>12. ApiOK'
      BY <1>3, <1>5 DEF ServiceOK, ApiOK
    <2> QED BY <1>2, <1>3, <2>10, <2>11, <2>12, WorkerStep
  <1> QED
    BY <1>4, <1>5 DEF ManageInjections

(* A list call of the worker fails. *)
LEMMA ListFailsStep ==
    ASSUME ServiceOK, ManageInjectionsFails \/ ListForDeleteFails, UNCHANGED <<rs, cf>>
    PROVE  ServiceOK' /\ KeepsAppliedRules
  <1>1. /\ wk.c \in Cluster /\ ApiFails("list") /\ Return(wk.c, TRUE)
        /\ UNCHANGED <<clusters, ccs, ipam, workerUnchanged>>
    BY DEF ServiceOK, WorkerOK, ManageInjectionsFails, ListForDeleteFails
  <1>2. WorkerOK' /\ AnnotationOK' /\ queue' \in SUBSET Cluster
    BY <1>1, ReturnStep
  <1>3. ApiOK' /\ StoreOK' /\ KeepsAppliedRules
    BY <1>1, <1>2, ApiFailsType, ClustersUnchanged DEF ServiceOK, ApiOK, StoreOK
  <1> QED BY <1>1, <1>2, <1>3, WorkerStep

(* What holds while a rule is generated. *)
LEMMA GeneratingType ==
    ASSUME ServiceOK, wk.pc = "generate"
    PROVE  /\ wk \in Worker /\ wk.c \in Cluster /\ Exists(wk.cl)
           /\ wk.todo \in SUBSET Nat /\ wk.todo \subseteq DOMAIN wk.rules
           /\ CurrentRule \in wk.todo
           /\ wk.rules[CurrentRule].id \in Rule
           /\ wk.rules[CurrentRule].injections \in Seq(SingleCIDRInjection)
           /\ wk.inj \in DOMAIN wk.rules[CurrentRule].injections
           /\ \A i \in DOMAIN wk.rules : wk.rules[i].injections # <<>>
  <1>1. /\ wk \in Worker /\ wk.c \in Cluster /\ Exists(wk.cl)
        /\ wk.todo # {} /\ wk.todo \subseteq DOMAIN wk.rules
        /\ wk.inj \in DOMAIN wk.rules[CurrentRule].injections
        /\ \A i \in DOMAIN wk.rules : wk.rules[i].injections # <<>>
    BY DEF ServiceOK, WorkerOK
  <1>2. wk.todo \in SUBSET Nat
    BY <1>1 DEF Worker
  <1>3. CurrentRule \in wk.todo
    BY <1>1, <1>2, LeastChosen DEF CurrentRule
  <1> QED BY <1>1, <1>2, <1>3, RulesType DEF ServiceOK

(* generateCIDRsForInjectionRule: a CIDR is acquired. *)
LEMMA GenerateInjectionStep ==
    ASSUME ServiceOK, GenerateInjection, UNCHANGED <<rs, cf>>
    PROVE  ServiceOK' /\ KeepsAppliedRules
  <1> DEFINE i    == CurrentRule
             rule == wk.rules[i]
             inj  == rule.injections[wk.inj]
  <1>1. wk.pc = "generate" /\ UNCHANGED <<clusters, ccs, queue, used, workerUnchanged>>
    BY DEF GenerateInjection
  <1>2. /\ wk \in Worker /\ wk.c \in Cluster /\ Exists(wk.cl)
        /\ wk.todo \in SUBSET Nat /\ wk.todo \subseteq DOMAIN wk.rules
        /\ i \in wk.todo /\ rule.id \in Rule
        /\ rule.injections \in Seq(SingleCIDRInjection)
        /\ wk.inj \in DOMAIN rule.injections
        /\ \A k \in DOMAIN wk.rules : wk.rules[k].injections # <<>>
    BY <1>1, GeneratingType
  <1>3. inj.paths \in SUBSET Path
    <2>1. inj \in SingleCIDRInjection
      BY <1>2, SeqElement
    <2> QED BY <2>1 DEF SingleCIDRInjection
  <1>4. PICK p, cidr :
            cidr \in FreeChildren(ipam, p, inj.size) /\
            LET raw == wk.raw \cup [path: inj.paths, cidr: {cidr}]
            IN  /\ ipam' = Record(ipam, cidr, p)
                /\ wk' = IF wk.inj < Len(rule.injections)
                         THEN [wk EXCEPT !.inj = @ + 1, !.raw = raw,
                                         !.tmp = [id \in Id |-> IF id = inj.id THEN cidr ELSE @[id]]]
                         ELSE Proceed([wk EXCEPT !.todo = @ \ {i}, !.inj = 1, !.raw = {},
                                                 !.tmp = NoTmpParents,
                                                 !.ann[rule.id] = raw, !.create[rule.id] = raw])
    BY DEF GenerateInjection
  <1> DEFINE raw == wk.raw \cup [path: inj.paths, cidr: {cidr}]
             tmp == [id \in Id |-> IF id = inj.id THEN cidr ELSE wk.tmp[id]]
             w1  == [wk EXCEPT !.inj = @ + 1, !.raw = raw, !.tmp = tmp]
             w2  == [wk EXCEPT !.todo = @ \ {i}, !.inj = 1, !.raw = {}, !.tmp = NoTmpParents,
                               !.ann[rule.id] = raw, !.create[rule.id] = raw]
  <1>5. cidr \in CIDR
    BY <1>4 DEF FreeChildren
  <1>6. raw \in SUBSET Patch
    BY <1>2, <1>3, <1>5 DEF Patch, Worker
  <1>7. StoreOK'
    BY <1>4, RecordWellFormed DEF ServiceOK, StoreOK
  <1>8. ApiOK' /\ KeepsAppliedRules
    BY <1>1, ClustersUnchanged DEF ServiceOK, ApiOK
  <1>9. CASE wk.inj < Len(rule.injections)
    <2>1. tmp \in [Id -> CIDR \cup {NoCidr}]
      BY <1>2, <1>5 DEF Worker
    <2>2. wk' = w1
      BY <1>4, <1>9
    <2> HIDE DEF raw, tmp
    <2>2a. wk.inj + 1 \in Nat
      BY <1>2 DEF Worker
    <2>3. /\ wk' \in Worker /\ wk'.pc = wk.pc /\ wk'.c = wk.c /\ wk'.cl = wk.cl
          /\ wk'.rules = wk.rules /\ wk'.todo = wk.todo /\ wk'.ann = wk.ann
          /\ wk'.inj = wk.inj + 1
      BY <1>2, <1>6, <2>1, <2>2, <2>2a DEF Worker
    <2>4. CurrentRule' = i
      BY <2>3 DEF CurrentRule
    <2>5. wk'.inj \in DOMAIN wk'.rules[CurrentRule'].injections
      <3>1. wk.inj + 1 \in DOMAIN rule.injections
        BY <1>2, <1>9
      <3> QED BY <2>3, <2>4, <3>1
    <2>6. WorkerOK'
      BY <1>1, <1>2, <2>3, <2>5 DEF WorkerOK, Exists
    <2>7. AnnotationOK'
      BY <1>1, <2>3 DEF ServiceOK, AnnotationOK
    <2> QED BY <1>1, <1>7, <1>8, <2>6, <2>7, WorkerStep
  <1>10. CASE ~(wk.inj < Len(rule.injections))
    <2>1. wk' = Proceed(w2)
      BY <1>4, <1>10
    <2> HIDE DEF raw
    <2>2. /\ w2 \in Worker /\ w2.c = wk.c /\ w2.cl = wk.cl /\ w2.inj = 1
          /\ w2.rules = wk.rules /\ w2.todo = wk.todo \ {i}
          /\ w2.ann = [wk.ann EXCEPT ![rule.id] = raw]
      BY <1>2, <1>6, NothingType DEF Worker
    <2> HIDE DEF w2
    <2>3. /\ WorkerOK' /\ wk'.pc \in {"generate", "annotate", "apply"}
          /\ wk'.c = wk.c /\ wk'.todo = wk.todo \ {i} /\ wk'.rules = wk.rules
          /\ wk'.ann = [wk.ann EXCEPT ![rule.id] = raw]
      <3>1. w2.todo \subseteq DOMAIN w2.rules /\ \A k \in DOMAIN w2.rules : w2.rules[k].injections # <<>>
        BY <1>2, <2>2
      <3> QED BY <1>2, <2>1, <2>2, <3>1, ProceedStep
    <2>4. AnnotationOK'
      <3> SUFFICES ASSUME Exists(clusters[wk.c])
                   PROVE  /\ \A r \in Rule : clusters[wk.c].ann[r] \subseteq [wk.ann EXCEPT ![rule.id] = raw][r]
                          /\ \A k \in wk.todo \ {i} : clusters[wk.c].ann[wk.rules[k].id] = {}
        BY <1>1, <2>3 DEF AnnotationOK, Exists
      <3>1. /\ \A r \in Rule : clusters[wk.c].ann[r] \subseteq wk.ann[r]
            /\ \A k \in wk.todo : clusters[wk.c].ann[wk.rules[k].id] = {}
        BY <1>1, <1>2 DEF ServiceOK, AnnotationOK
      <3>2. clusters[wk.c].ann[rule.id] = {}
        BY <1>2, <3>1
      <3>3. wk.ann \in [Rule -> SUBSET Patch]
        BY <1>2 DEF Worker
      <3> QED BY <3>1, <3>2, <3>3
    <2> QED BY <1>1, <1>7, <1>8, <2>3, <2>4, WorkerStep
  <1> QED BY <1>9, <1>10

(* generateCIDRsForInjectionRule: no parent has room. *)
LEMMA GenerateInjectionFailsStep ==
    ASSUME ServiceOK, GenerateInjectionFails, UNCHANGED <<rs, cf>>
    PROVE  ServiceOK' /\ KeepsAppliedRules
  <1> DEFINE w == [wk EXCEPT !.todo = @ \ {CurrentRule}, !.inj = 1, !.raw = {},
                             !.tmp = NoTmpParents, !.err = TRUE]
  <1>1. /\ wk.pc = "generate" /\ UNCHANGED <<clusters, ccs, queue, used, workerUnchanged>>
        /\ wk' = Proceed(w)
        /\ \E R : ipam' = Forget(ipam, R)
    BY DEF GenerateInjectionFails
  <1>2. /\ wk \in Worker /\ wk.c \in Cluster /\ Exists(wk.cl)
        /\ wk.todo \in SUBSET Nat /\ wk.todo \subseteq DOMAIN wk.rules
        /\ \A k \in DOMAIN wk.rules : wk.rules[k].injections # <<>>
    BY <1>1, GeneratingType
  <1>3. /\ w \in Worker /\ w.c = wk.c /\ w.cl = wk.cl /\ w.inj = 1 /\ w.ann = wk.ann
        /\ w.rules = wk.rules /\ w.todo = wk.todo \ {CurrentRule}
    BY <1>2, NothingType DEF Worker
  <1> HIDE DEF w
  <1>4. /\ WorkerOK' /\ wk'.pc \in {"generate", "annotate", "apply"}
        /\ wk'.c = wk.c /\ wk'.todo = wk.todo \ {CurrentRule} /\ wk'.rules = wk.rules
        /\ wk'.ann = wk.ann
    <2>1. w.todo \subseteq DOMAIN w.rules /\ \A k \in DOMAIN w.rules : w.rules[k].injections # <<>>
      BY <1>2, <1>3
    <2> QED BY <1>1, <1>2, <1>3, <2>1, ProceedStep
  <1>5. AnnotationOK'
    BY <1>1, <1>4 DEF ServiceOK, AnnotationOK
  <1>6. StoreOK'
    BY <1>1, ForgetWellFormed DEF ServiceOK, StoreOK
  <1>7. ApiOK' /\ KeepsAppliedRules
    BY <1>1, ClustersUnchanged DEF ServiceOK, ApiOK
  <1> QED BY <1>1, <1>4, <1>5, <1>6, <1>7, WorkerStep

(* handleCreateOrUpdate: the annotation is patched. *)
LEMMA PatchAnnotationStep ==
    ASSUME ServiceOK, PatchAnnotation, UNCHANGED <<rs, cf>>
    PROVE  ServiceOK' /\ KeepsAppliedRules
  <1>1. /\ wk.pc = "annotate" /\ wk.c \in Cluster /\ Exists(wk.cl) /\ wk.inj = 1 /\ wk \in Worker
        /\ wk.todo \subseteq DOMAIN wk.rules
        /\ \A i \in DOMAIN wk.rules : wk.rules[i].injections # <<>>
        /\ UNCHANGED <<ccs, ipam, queue, workerUnchanged>>
    BY DEF ServiceOK, WorkerOK, PatchAnnotation
  <1>2. /\ wk' \in Worker /\ wk'.pc = "apply" /\ wk'.c = wk.c /\ wk'.cl = wk.cl
        /\ wk'.inj = 1 /\ wk'.todo = wk.todo /\ wk'.rules = wk.rules
    <2>1. \E e \in BOOLEAN : wk' = [wk EXCEPT !.pc = "apply", !.err = e]
      BY <1>1 DEF PatchAnnotation, Worker
    <2> QED BY <1>1, <2>1, ZenonT(60) DEF Worker
  <1>3. WorkerOK' /\ AnnotationOK'
    BY <1>1, <1>2, WorkerAt
  <1>4. StoreOK'
    BY <1>1 DEF ServiceOK, StoreOK
  <1>5. CASE UNCHANGED clusters /\ (UNCHANGED used \/ ApiFails("patch"))
    <2>1. ApiOK' /\ KeepsAppliedRules
      BY <1>1, <1>5, ApiFailsType, ClustersUnchanged DEF ServiceOK, ApiOK
    <2> QED BY <1>1, <1>3, <1>4, <2>1, WorkerStep
  <1>6. CASE /\ Exists(clusters[wk.c]) /\ Admitted
             /\ clusters' = [clusters EXCEPT ![wk.c] = Default([@ EXCEPT !.ann = wk.ann], TRUE)]
             /\ \E ok \in BOOLEAN : Answered("patch", ok)
    <2> DEFINE raw == [clusters[wk.c] EXCEPT !.ann = wk.ann]
               cl == Default(raw, TRUE)
    <2>1. cl \in ClusterObject /\ cl.ann = wk.ann
      <3>1. clusters[wk.c] \in ClusterObject /\ wk.ann \in [Rule -> SUBSET Patch]
        BY <1>1, <1>6 DEF ServiceOK, ApiOK, Exists, Worker
      <3>2. raw \in ClusterObject /\ raw.ann = wk.ann
        BY <3>1 DEF ClusterObject
      <3> HIDE DEF raw
      <3> QED BY <1>6, <3>2, DefaultType DEF ServiceOK
    <2>2. clusters' = [clusters EXCEPT ![wk.c] = cl]
      BY <1>1, <1>6 DEF ServiceOK, ApiOK
    <2> HIDE DEF cl
    <2>3. ApiOK'
      BY <1>1, <1>6, <2>1, <2>2, AnsweredType DEF ServiceOK, ApiOK
    <2>4. \A r \in Rule : clusters[wk.c].ann[r] \subseteq wk.ann[r]
      BY <1>1, <1>6 DEF ServiceOK, AnnotationOK
    <2>5. KeepsAppliedRules
      BY <2>1, <2>2, <2>4 DEF KeepsAppliedRules, ServiceOK, ApiOK
    <2> QED BY <1>1, <1>3, <1>4, <2>3, <2>5, WorkerStep
  <1> QED
    BY <1>5, <1>6 DEF PatchAnnotation

(* The end of a reconciliation. *)
LEMMA FinishStep ==
    ASSUME ServiceOK, FinishCreateOrUpdate \/ FinishDelete, UNCHANGED <<rs, cf>>
    PROVE  ServiceOK' /\ KeepsAppliedRules
  <1>1. /\ wk.c \in Cluster /\ Return(wk.c, wk.err)
        /\ UNCHANGED <<clusters, ccs, ipam, used, workerUnchanged>>
    BY DEF ServiceOK, WorkerOK, FinishCreateOrUpdate, FinishDelete
  <1>2. WorkerOK' /\ AnnotationOK' /\ queue' \in SUBSET Cluster
    BY <1>1, ReturnStep
  <1>3. ApiOK' /\ StoreOK' /\ KeepsAppliedRules
    BY <1>1, <1>2, ClustersUnchanged DEF ServiceOK, ApiOK, StoreOK
  <1> QED BY <1>1, <1>2, <1>3, WorkerStep

(* handleCreateOrUpdate: a ClusterConfig is created. *)
LEMMA ApplyCreatesStep ==
    ASSUME ServiceOK, ApplyCreates, UNCHANGED <<rs, cf>>
    PROVE  ServiceOK' /\ KeepsAppliedRules
  <1>1. PICK r \in Rule, ok \in BOOLEAN :
            /\ ApplyCreate(wk.c, r, wk.cl.uid, wk.create[r], ok)
            /\ wk' = [wk EXCEPT !.create[r] = {}, !.err = @ \/ ~ok]
    BY DEF ApplyCreates
  <1>2. /\ wk.pc = "apply" /\ wk.c \in Cluster /\ Exists(wk.cl) /\ wk.inj = 1 /\ wk \in Worker
        /\ wk.todo \subseteq DOMAIN wk.rules
        /\ \A i \in DOMAIN wk.rules : wk.rules[i].injections # <<>>
        /\ UNCHANGED <<ipam, proc, config, cfgQueued, lock>>
    BY DEF ServiceOK, WorkerOK, ApplyCreates
  <1>3. wk.create[r] \in SUBSET Patch /\ wk.cl.uid \in Nat
    BY <1>2 DEF Worker, ClusterObject, Exists
  <1>4. ApiOK' /\ UNCHANGED <<clusters, stored, nextUid>>
    BY <1>1, <1>2, <1>3, ApplyCreateType DEF ServiceOK
  <1>5. /\ wk' \in Worker /\ wk'.pc = "apply" /\ wk'.c = wk.c /\ wk'.cl = wk.cl
        /\ wk'.inj = 1 /\ wk'.todo = wk.todo /\ wk'.rules = wk.rules
    BY <1>1, <1>2 DEF Worker
  <1>6. WorkerOK' /\ AnnotationOK'
    BY <1>2, <1>5, WorkerAt
  <1>7. StoreOK' /\ KeepsAppliedRules /\ UNCHANGED workerUnchanged
    BY <1>2, <1>4, ClustersUnchanged DEF ServiceOK, StoreOK, workerUnchanged
  <1> QED BY <1>4, <1>6, <1>7, WorkerStep

(* handleCreateOrUpdate: a ClusterConfig is updated. *)
LEMMA ApplyUpdatesStep ==
    ASSUME ServiceOK, ApplyUpdates, UNCHANGED <<rs, cf>>
    PROVE  ServiceOK' /\ KeepsAppliedRules
  <1>1. PICK r \in Rule, ok \in BOOLEAN :
            /\ Exists(wk.update[r])
            /\ ApplyUpdate(wk.c, r, wk.update[r], ok)
            /\ wk' = [wk EXCEPT !.update[r] = NoObject, !.err = @ \/ ~ok]
    BY DEF ApplyUpdates
  <1>2. /\ wk.pc = "apply" /\ wk.c \in Cluster /\ Exists(wk.cl) /\ wk.inj = 1 /\ wk \in Worker
        /\ wk.todo \subseteq DOMAIN wk.rules
        /\ \A i \in DOMAIN wk.rules : wk.rules[i].injections # <<>>
        /\ UNCHANGED <<ipam, proc, config, cfgQueued, lock>>
    BY DEF ServiceOK, WorkerOK, ApplyUpdates
  <1>3. wk.update[r] \in Update
    BY <1>1, <1>2 DEF Worker, Exists
  <1>4. ApiOK' /\ UNCHANGED <<clusters, stored, nextUid>>
    BY <1>1, <1>2, <1>3, ApplyUpdateType DEF ServiceOK
  <1>5. /\ wk' \in Worker /\ wk'.pc = "apply" /\ wk'.c = wk.c /\ wk'.cl = wk.cl
        /\ wk'.inj = 1 /\ wk'.todo = wk.todo /\ wk'.rules = wk.rules
    BY <1>1, <1>2 DEF Worker
  <1>6. WorkerOK' /\ AnnotationOK'
    BY <1>2, <1>5, WorkerAt
  <1>7. StoreOK' /\ KeepsAppliedRules /\ UNCHANGED workerUnchanged
    BY <1>2, <1>4, ClustersUnchanged DEF ServiceOK, StoreOK, workerUnchanged
  <1> QED BY <1>4, <1>6, <1>7, WorkerStep

(* handleDelete: the ClusterConfigs are listed. *)
LEMMA ListForDeleteStep ==
    ASSUME ServiceOK, ListForDelete, UNCHANGED <<rs, cf>>
    PROVE  ServiceOK' /\ KeepsAppliedRules
  <1>1. /\ wk.pc = "delList" /\ wk.c \in Cluster /\ wk.inj = 1 /\ wk \in Worker
        /\ wk.todo \subseteq DOMAIN wk.rules
        /\ \A i \in DOMAIN wk.rules : wk.rules[i].injections # <<>>
        /\ wk' = [wk EXCEPT !.pc = "delRelease", !.del = ccs[wk.c]]
        /\ UNCHANGED <<clusters, ccs, ipam, queue, used, workerUnchanged>>
    BY DEF ServiceOK, WorkerOK, ListForDelete
  <1>2. ccs[wk.c] \in [Rule -> ClusterConfig \cup {NoObject}]
    BY <1>1 DEF ServiceOK, ApiOK
  <1>3. /\ wk' \in Worker /\ wk'.pc = "delRelease" /\ wk'.c = wk.c
        /\ wk'.inj = 1 /\ wk'.todo = wk.todo /\ wk'.rules = wk.rules
    BY <1>1, <1>2 DEF Worker
  <1>4. WorkerOK' /\ AnnotationOK'
    BY <1>1, <1>3, WorkerAt
  <1>5. ApiOK' /\ StoreOK' /\ KeepsAppliedRules
    BY <1>1, ClustersUnchanged DEF ServiceOK, ApiOK, StoreOK
  <1> QED BY <1>1, <1>4, <1>5, WorkerStep

(* handleDelete: the CIDRs of a ClusterConfig are released. *)
LEMMA ReleaseForDeleteStep ==
    ASSUME ServiceOK, ReleaseForDelete, UNCHANGED <<rs, cf>>
    PROVE  ServiceOK' /\ KeepsAppliedRules
  <1>1. PICK r \in Rule, ok \in BOOLEAN :
            /\ Exists(wk.del[r])
            /\ ReleaseCIDRs(wk.c, r, wk.del[r], ok)
            /\ wk' = [wk EXCEPT !.pc = "delDelete", !.r = r, !.err = @ \/ ~ok]
    BY DEF ReleaseForDelete
  <1>2. /\ wk.c \in Cluster /\ wk.inj = 1 /\ wk \in Worker
        /\ wk.todo \subseteq DOMAIN wk.rules
        /\ \A i \in DOMAIN wk.rules : wk.rules[i].injections # <<>>
        /\ UNCHANGED <<proc, config, cfgQueued, lock>>
    BY DEF ServiceOK, WorkerOK, ReleaseForDelete
  <1>3. wk.del[r] \in ClusterConfig
    BY <1>1, <1>2 DEF Worker, Exists
  <1>4. ApiOK' /\ StoreOK' /\ UNCHANGED <<clusters, stored, nextUid>>
    BY <1>1, <1>2, <1>3, ReleaseCIDRsType DEF ServiceOK
  <1>5. /\ wk' \in Worker /\ wk'.pc = "delDelete" /\ wk'.c = wk.c /\ wk'.r = r
        /\ wk'.inj = 1 /\ wk'.todo = wk.todo /\ wk'.rules = wk.rules
    BY <1>1, <1>2, ZenonT(60) DEF Worker
  <1>6. WorkerOK' /\ AnnotationOK'
    BY <1>2, <1>5, WorkerAt
  <1>7. KeepsAppliedRules /\ UNCHANGED workerUnchanged
    BY <1>2, <1>4, ClustersUnchanged DEF workerUnchanged
  <1> QED BY <1>4, <1>6, <1>7, WorkerStep

(* handleDelete: a ClusterConfig is deleted. *)
LEMMA DeleteForDeleteStep ==
    ASSUME ServiceOK, DeleteForDelete, UNCHANGED <<rs, cf>>
    PROVE  ServiceOK' /\ KeepsAppliedRules
  <1>1. PICK ok \in BOOLEAN :
            /\ DeleteClusterConfig(wk.c, wk.r, ok)
            /\ wk' = [wk EXCEPT !.pc = "delRelease", !.del[wk.r] = NoObject, !.err = @ \/ ~ok]
    BY DEF DeleteForDelete
  <1>2. /\ wk.c \in Cluster /\ wk.r \in Rule /\ wk.inj = 1 /\ wk \in Worker
        /\ wk.todo \subseteq DOMAIN wk.rules
        /\ \A i \in DOMAIN wk.rules : wk.rules[i].injections # <<>>
        /\ UNCHANGED <<ipam, proc, config, cfgQueued, lock>>
    BY DEF ServiceOK, WorkerOK, DeleteForDelete
  <1>3. ApiOK' /\ UNCHANGED <<clusters, stored, nextUid>>
    BY <1>1, <1>2, DeleteClusterConfigType DEF ServiceOK
  <1>4. /\ wk' \in Worker /\ wk'.pc = "delRelease" /\ wk'.c = wk.c
        /\ wk'.inj = 1 /\ wk'.todo = wk.todo /\ wk'.rules = wk.rules
    BY <1>1, <1>2 DEF Worker
  <1>5. WorkerOK' /\ AnnotationOK'
    BY <1>2, <1>4, WorkerAt
  <1>6. StoreOK' /\ KeepsAppliedRules /\ UNCHANGED workerUnchanged
    BY <1>2, <1>3, ClustersUnchanged DEF ServiceOK, StoreOK, workerUnchanged
  <1> QED BY <1>3, <1>5, <1>6, WorkerStep

(* Every step of the Cluster controller preserves the invariant. *)
LEMMA ClusterReconcileStep ==
    ASSUME ServiceOK, ClusterReconcile, UNCHANGED <<rs, cf>>
    PROVE  ServiceOK' /\ KeepsAppliedRules
  BY FetchClusterStep, FetchClusterFailsStep, RemoveOperationAnnotationStep,
     GetConfigAgainStep, ManageInjectionsStep, ListFailsStep, GenerateInjectionStep,
     GenerateInjectionFailsStep, PatchAnnotationStep, ApplyCreatesStep,
     ApplyUpdatesStep, FinishStep, ListForDeleteStep, ReleaseForDeleteStep,
     DeleteForDeleteStep
  DEF ClusterReconcile

-----------------------------------------------------------------------------
(* The Restore.                                                            *)

(* The idle Restore, and one that has returned, are well-typed. *)
LEMMA IdleRestoreType ==
    /\ IdleRestore \in Restoration /\ IdleRestore.pc = "idle"
    /\ \A result \in {"done", "failed"} :
        /\ [IdleRestore EXCEPT !.pc = result] \in Restoration
        /\ [IdleRestore EXCEPT !.pc = result].pc = result
  BY NothingType DEF IdleRestore, Restoration

(* A Restore that returns needs nothing more. *)
LEMMA RestoreReturnsStep ==
    ASSUME NEW result \in {"done", "failed"}, RestoreReturns(result)
    PROVE  RestoreOK' /\ lock' \in BOOLEAN
  BY IdleRestoreType DEF RestoreReturns, RestoreOK

(* A step of the Restore leaves the other processes alone. *)
LEMMA RestoreStepOK ==
    ASSUME ServiceOK, ApiOK', StoreOK', RestoreOK', lock' \in BOOLEAN,
           UNCHANGED <<clusters, wk, cf, nextUid, stored, proc, config, cfgQueued>>
    PROVE  ServiceOK' /\ KeepsAppliedRules
  <1>1. AnnotationsUnchanged
    BY ClustersUnchanged
  <1>2. AnnotationOK' /\ KeepsAppliedRules
    BY <1>1, AnnotationStays DEF ServiceOK
  <1>3. WorkerOK' /\ ConfigOK'
    BY DEF ServiceOK, WorkerOK, ConfigOK, CurrentRule
  <1> QED BY <1>2, <1>3 DEF ServiceOK, ScalarsOK

(* RestoreIPAMFromClusterState: lock and list of Clusters. *)
LEMMA BeginRestoreStep ==
    ASSUME ServiceOK, NEW cfg \in Configs, BeginRestore(cfg)
    PROVE  /\ RestoreOK' /\ lock' \in BOOLEAN
           /\ used' \in [names: SUBSET Cluster, failures: Nat, edits: Nat, crashes: Nat]
  <1>1. CASE ApiFails("list") /\ RestoreReturns("failed")
    BY <1>1, ApiFailsType, RestoreReturnsStep DEF ServiceOK
  <1> DEFINE todo == [c \in Cluster |-> IF c \in RelevantClusters(cfg) THEN clusters[c] ELSE NoObject]
  <1>2. CASE /\ rs' = [IdleRestore EXCEPT !.pc = "listCCs", !.cfg = cfg, !.todo = todo]
             /\ lock' = TRUE /\ UNCHANGED used
    <2>1. todo \in [Cluster -> ClusterObject \cup {NoObject}]
      BY DEF ServiceOK, ApiOK
    <2>2. cfg \in IPAMConfig /\ Exists(cfg)
      BY ConfigType
    <2> HIDE DEF todo
    <2>3. rs' \in Restoration /\ rs'.pc = "listCCs" /\ rs'.cfg = cfg
      BY <1>2, <2>1, <2>2, IdleRestoreType DEF Restoration
    <2> QED BY <1>2, <2>2, <2>3 DEF RestoreOK, ServiceOK, ApiOK, Exists
  <1> QED BY <1>1, <1>2 DEF BeginRestore

(* RestoreIPAMFromClusterState: list of ClusterConfigs. *)
LEMMA RestoreListStep ==
    ASSUME ServiceOK, RestoreList, UNCHANGED <<wk, cf>>
    PROVE  ServiceOK' /\ KeepsAppliedRules
  <1>1. /\ rs.pc = "listCCs" /\ rs \in Restoration /\ Exists(rs.cfg)
        /\ UNCHANGED <<clusters, ccs, ipam, queue, restoreUnchanged>>
    BY DEF RestoreList, ServiceOK, RestoreOK
  <1>2. CASE ApiFails("list") /\ RestoreReturns("failed")
    <2>1. ApiOK' /\ StoreOK'
      BY <1>1, <1>2, ApiFailsType DEF ServiceOK, ApiOK, StoreOK
    <2> QED BY <1>1, <1>2, <2>1, RestoreReturnsStep, RestoreStepOK DEF restoreUnchanged
  <1>3. CASE rs' = [rs EXCEPT !.pc = "check", !.rest = ccs] /\ UNCHANGED <<lock, used>>
    <2>1. ApiOK' /\ StoreOK' /\ lock' \in BOOLEAN
      BY <1>1, <1>3 DEF ServiceOK, ApiOK, StoreOK, ScalarsOK
    <2>2. rs' \in Restoration /\ rs'.pc = "check" /\ rs'.cfg = rs.cfg
      BY <1>1, <1>3 DEF Restoration, ServiceOK, ApiOK
    <2>3. RestoreOK'
      BY <1>1, <2>2 DEF RestoreOK, Exists
    <2> QED BY <1>1, <2>1, <2>3, RestoreStepOK DEF restoreUnchanged
  <1> QED BY <1>2, <1>3 DEF RestoreList

(* RestoreIPAMFromClusterState: the check of a Cluster. *)
LEMMA RestoreCheckStep ==
    ASSUME ServiceOK, NEW c \in Cluster, RestoreCheck(c), UNCHANGED <<wk, cf>>
    PROVE  ServiceOK' /\ KeepsAppliedRules
  <1> DEFINE ri == CheckClusterConfigs(rs.todo[c].ann, rs.rest[c])
             empty == ri.create = NoInjections /\ ri.update = NoUpdates
  <1>1. /\ rs \in Restoration /\ Exists(rs.todo[c]) /\ Exists(rs.cfg)
        /\ UNCHANGED <<clusters, ccs, ipam, lock, queue, used, restoreUnchanged>>
    BY DEF RestoreCheck, ServiceOK, RestoreOK
  <1>2. /\ rs.todo[c].ann \in [Rule -> SUBSET Patch] /\ rs.todo[c].uid \in Nat
        /\ rs.rest[c] \in [Rule -> ClusterConfig \cup {NoObject}]
    BY <1>1 DEF Restoration, ClusterObject, Exists
  <1>3. ri.create \in [Rule -> SUBSET Patch] /\ ri.update \in [Rule -> Update \cup {NoObject}]
    BY <1>2, CheckClusterConfigsType DEF Instruction
  <1>4. rs' = [rs EXCEPT !.todo[c] = NoObject, !.rest[c] = NoConfigs,
                         !.handled[c] = rs.rest[c],
                         !.pc = IF empty THEN "check" ELSE "apply",
                         !.c = c, !.uid = rs.todo[c].uid, !.bad = FALSE,
                         !.create = ri.create, !.update = ri.update]
    BY DEF RestoreCheck
  <1> HIDE DEF ri
  <1>5. rs' \in Restoration /\ rs'.pc \in {"check", "apply"} /\ rs'.cfg = rs.cfg /\ rs'.c = c
    BY <1>1, <1>2, <1>3, <1>4, NothingType, ZenonT(60) DEF Restoration
  <1>6. RestoreOK'
    BY <1>1, <1>5 DEF RestoreOK, Exists
  <1>7. ApiOK' /\ StoreOK' /\ lock' \in BOOLEAN
    BY <1>1 DEF ServiceOK, ApiOK, StoreOK, ScalarsOK
  <1> QED BY <1>1, <1>6, <1>7, RestoreStepOK DEF restoreUnchanged

(* RestoreIPAMFromClusterState: an instruction is applied. *)
LEMMA RestoreApplyStep ==
    ASSUME ServiceOK, RestoreCreate \/ RestoreUpdate, UNCHANGED <<wk, cf>>
    PROVE  ServiceOK' /\ KeepsAppliedRules
  <1>1. /\ rs.pc = "apply" /\ rs \in Restoration /\ Exists(rs.cfg) /\ rs.c \in Cluster
        /\ UNCHANGED <<ipam, lock, proc, config, cfgQueued>>
    BY DEF RestoreCreate, RestoreUpdate, ServiceOK, RestoreOK
  <1>2. /\ ApiOK' /\ UNCHANGED <<clusters, stored, nextUid>>
        /\ rs' \in Restoration /\ rs'.pc = "apply" /\ rs'.cfg = rs.cfg /\ rs'.c = rs.c
    <2>1. CASE RestoreCreate
      <3>1. PICK r \in Rule, ok \in BOOLEAN :
                /\ ApplyCreate(rs.c, r, rs.uid, rs.create[r], ok)
                /\ rs' = [rs EXCEPT !.create[r] = {}, !.bad = @ \/ ~ok]
        BY <2>1 DEF RestoreCreate
      <3>2. rs.create[r] \in SUBSET Patch /\ rs.uid \in Nat
        BY <1>1 DEF Restoration
      <3>3. ApiOK' /\ UNCHANGED <<clusters, stored, nextUid>>
        BY <1>1, <3>1, <3>2, ApplyCreateType DEF ServiceOK
      <3> QED BY <1>1, <3>1, <3>3 DEF Restoration
    <2>2. CASE RestoreUpdate
      <3>1. PICK r \in Rule, ok \in BOOLEAN :
                /\ Exists(rs.update[r])
                /\ ApplyUpdate(rs.c, r, rs.update[r], ok)
                /\ rs' = [rs EXCEPT !.update[r] = NoObject, !.bad = @ \/ ~ok]
        BY <2>2 DEF RestoreUpdate
      <3>2. rs.update[r] \in Update
        BY <1>1, <3>1 DEF Restoration, Exists
      <3>3. ApiOK' /\ UNCHANGED <<clusters, stored, nextUid>>
        BY <1>1, <3>1, <3>2, ApplyUpdateType DEF ServiceOK
      <3> QED BY <1>1, <3>1, <3>3 DEF Restoration
    <2> QED BY <2>1, <2>2
  <1>3. RestoreOK' /\ StoreOK' /\ lock' \in BOOLEAN
    BY <1>1, <1>2 DEF RestoreOK, Exists, ServiceOK, StoreOK, ScalarsOK
  <1> QED BY <1>1, <1>2, <1>3, RestoreStepOK

(* RestoreIPAMFromClusterState: ClusterConfigs are listed again. *)
LEMMA RestoreRefetchStep ==
    ASSUME ServiceOK, RestoreRefetch, UNCHANGED <<wk, cf>>
    PROVE  ServiceOK' /\ KeepsAppliedRules
  <1> DEFINE again == [r \in Rule |-> IF Exists(ccs[rs.c][r]) THEN ccs[rs.c][r]
                                      ELSE rs.handled[rs.c][r]]
  <1>1. /\ rs \in Restoration /\ Exists(rs.cfg) /\ rs.c \in Cluster
        /\ UNCHANGED <<clusters, ccs, ipam, lock, queue, restoreUnchanged>>
    BY DEF RestoreRefetch, ServiceOK, RestoreOK
  <1>2. again \in [Rule -> ClusterConfig \cup {NoObject}]
    BY <1>1 DEF ServiceOK, ApiOK, Restoration
  <1>3. /\ \/ rs' = [rs EXCEPT !.pc = "check", !.handled[rs.c] = again]
           \/ rs' = [rs EXCEPT !.pc = "check", !.err = TRUE]
        /\ UNCHANGED used \/ ApiFails("list")
    BY DEF RestoreRefetch
  <1> HIDE DEF again
  <1>4. rs' \in Restoration /\ rs'.pc = "check" /\ rs'.cfg = rs.cfg
    <2>1. CASE rs' = [rs EXCEPT !.pc = "check", !.handled[rs.c] = again]
      <3>1. [rs.handled EXCEPT ![rs.c] = again] \in
                [Cluster -> [Rule -> ClusterConfig \cup {NoObject}]]
        BY <1>1, <1>2 DEF Restoration
      <3> QED BY <1>1, <2>1, <3>1 DEF Restoration
    <2>2. CASE rs' = [rs EXCEPT !.pc = "check", !.err = TRUE]
      BY <1>1, <2>2 DEF Restoration
    <2> QED BY <1>3, <2>1, <2>2
  <1>5. RestoreOK' /\ StoreOK' /\ lock' \in BOOLEAN
    BY <1>1, <1>4 DEF RestoreOK, Exists, ServiceOK, StoreOK, ScalarsOK
  <1>6. ApiOK'
    BY <1>1, <1>3, ApiFailsType DEF ServiceOK, ApiOK
  <1> QED BY <1>1, <1>5, <1>6, RestoreStepOK DEF restoreUnchanged

(* The two phases of the Restore end, with an error or without. *)
LEMMA RestorePhaseStep ==
    ASSUME ServiceOK, RestoreChecked \/ RestoreOrphansHandled, UNCHANGED <<wk, cf>>
    PROVE  ServiceOK' /\ KeepsAppliedRules
  <1>1. /\ rs \in Restoration /\ Exists(rs.cfg)
        /\ UNCHANGED <<clusters, ccs, ipam, queue, used, restoreUnchanged>>
    BY DEF RestoreChecked, RestoreOrphansHandled, ServiceOK, RestoreOK
  <1>2. ApiOK' /\ StoreOK'
    BY <1>1 DEF ServiceOK, ApiOK, StoreOK
  <1>3. CASE RestoreReturns("failed")
    BY <1>1, <1>2, <1>3, RestoreReturnsStep, RestoreStepOK DEF restoreUnchanged
  <1>4. CASE /\ \E pc \in {"orphans", "build"} : rs' = [rs EXCEPT !.pc = pc]
             /\ UNCHANGED lock
    <2>1. rs' \in Restoration /\ rs'.pc \in {"orphans", "build"} /\ rs'.cfg = rs.cfg
      BY <1>1, <1>4 DEF Restoration
    <2>2. RestoreOK' /\ lock' \in BOOLEAN
      BY <1>1, <1>4, <2>1 DEF RestoreOK, Exists, ServiceOK, ScalarsOK
    <2> QED BY <1>1, <1>2, <2>2, RestoreStepOK DEF restoreUnchanged
  <1> QED BY <1>3, <1>4 DEF RestoreChecked, RestoreOrphansHandled

(* An orphan: does its Cluster exist? *)
LEMMA OrphanGetClusterStep ==
    ASSUME ServiceOK, NEW c \in Cluster, NEW r \in Rule, OrphanGetCluster(c, r),
           UNCHANGED <<wk, cf>>
    PROVE  ServiceOK' /\ KeepsAppliedRules
  <1> DEFINE cc == rs.rest[c][r]
             kept == IF cc.fin THEN cc ELSE rs.handled[c][r]
  <1>1. /\ rs \in Restoration /\ Exists(rs.cfg) /\ Exists(cc)
        /\ UNCHANGED <<clusters, ccs, ipam, lock, queue, restoreUnchanged>>
        /\ UNCHANGED used \/ ApiFails("get")
    BY DEF OrphanGetCluster, ServiceOK, RestoreOK
  <1>2. ApiOK' /\ StoreOK' /\ lock' \in BOOLEAN
    BY <1>1, ApiFailsType DEF ServiceOK, ApiOK, StoreOK, ScalarsOK
  <1>3. RestoreOK'
    <2>1. CASE rs' = [rs EXCEPT !.rest[c][r] = NoObject, !.handled[c][r] = kept]
      <3>1. rs.pc = "orphans"
        BY DEF OrphanGetCluster
      <3>2. kept \in ClusterConfig \cup {NoObject}
        BY <1>1 DEF Restoration
      <3> HIDE DEF kept
      <3>3. /\ [rs.rest EXCEPT ![c][r] = NoObject] \in
                    [Cluster -> [Rule -> ClusterConfig \cup {NoObject}]]
            /\ [rs.handled EXCEPT ![c][r] = kept] \in
                    [Cluster -> [Rule -> ClusterConfig \cup {NoObject}]]
        BY <1>1, <3>2 DEF Restoration
      <3>4. rs' \in Restoration /\ rs'.pc = "orphans" /\ rs'.cfg = rs.cfg
        BY <1>1, <2>1, <3>1, <3>3 DEF Restoration
      <3> QED BY <1>1, <3>4 DEF RestoreOK, Exists
    <2>2. CASE \/ rs' = [rs EXCEPT !.pc = "delete", !.c = c, !.r = r]
               \/ rs' = [rs EXCEPT !.pc = "delete", !.c = c, !.r = r, !.err = TRUE]
      <3>1. /\ rs' \in Restoration /\ rs'.pc = "delete" /\ rs'.cfg = rs.cfg
            /\ rs'.c = c /\ rs'.r = r /\ rs'.rest = rs.rest
        <4>1. CASE rs' = [rs EXCEPT !.pc = "delete", !.c = c, !.r = r]
          BY <1>1, <4>1 DEF Restoration
        <4>2. CASE rs' = [rs EXCEPT !.pc = "delete", !.c = c, !.r = r, !.err = TRUE]
          BY <1>1, <4>2 DEF Restoration
        <4> QED BY <2>2, <4>1, <4>2
      <3> QED BY <1>1, <3>1 DEF RestoreOK, Exists
    <2> QED BY <2>1, <2>2 DEF OrphanGetCluster
  <1> QED BY <1>1, <1>2, <1>3, RestoreStepOK DEF restoreUnchanged

(* The Restore goes on with the next orphan. *)
LEMMA OrphanHandledType ==
    ASSUME ServiceOK, rs.c \in Cluster, rs.r \in Rule
    PROVE  /\ OrphanHandled \in Restoration
           /\ OrphanHandled.pc = "orphans" /\ OrphanHandled.cfg = rs.cfg
           /\ \A e \in BOOLEAN :
                LET h == [OrphanHandled EXCEPT !.err = e]
                IN  h \in Restoration /\ h.pc = "orphans" /\ h.cfg = rs.cfg
  <1>1. rs \in Restoration
    BY DEF ServiceOK, RestoreOK
  <1>2. [rs.rest EXCEPT ![rs.c][rs.r] = NoObject] \in
            [Cluster -> [Rule -> ClusterConfig \cup {NoObject}]]
    BY <1>1 DEF Restoration
  <1>3. /\ OrphanHandled \in Restoration
        /\ OrphanHandled.pc = "orphans" /\ OrphanHandled.cfg = rs.cfg
    BY <1>1, <1>2 DEF OrphanHandled, Restoration
  <1> QED BY <1>3 DEF Restoration

(* An orphan is deleted. *)
LEMMA OrphanDeleteStep ==
    ASSUME ServiceOK, OrphanDelete, UNCHANGED <<wk, cf>>
    PROVE  ServiceOK' /\ KeepsAppliedRules
  <1>1. /\ rs.pc = "delete" /\ rs \in Restoration /\ Exists(rs.cfg)
        /\ rs.c \in Cluster /\ rs.r \in Rule /\ Exists(rs.rest[rs.c][rs.r])
        /\ UNCHANGED <<ipam, lock, proc, config, cfgQueued>>
    BY DEF OrphanDelete, ServiceOK, RestoreOK
  <1>2. ApiOK' /\ UNCHANGED <<clusters, stored, nextUid>>
    <2>1. CASE UNCHANGED <<clusters, ccs, queue, used, stored, nextUid>>
      BY <2>1 DEF ServiceOK, ApiOK
    <2>2. CASE \E ok \in BOOLEAN : DeleteClusterConfig(rs.c, rs.r, ok)
      BY <1>1, <2>2, DeleteClusterConfigType DEF ServiceOK
    <2> QED BY <2>1, <2>2 DEF OrphanDelete
  <1>3. RestoreOK'
    <2>1. CASE rs' = [rs EXCEPT !.pc = "release"]
      <3>1. /\ rs' \in Restoration /\ rs'.pc = "release" /\ rs'.cfg = rs.cfg
            /\ rs'.c = rs.c /\ rs'.r = rs.r /\ rs'.rest = rs.rest
        BY <1>1, <2>1 DEF Restoration
      <3> QED BY <1>1, <3>1 DEF RestoreOK, Exists
    <2>2. CASE rs' = OrphanHandled \/ rs' = [OrphanHandled EXCEPT !.err = TRUE]
      <3>1. rs' \in Restoration /\ rs'.pc = "orphans" /\ rs'.cfg = rs.cfg
        BY <1>1, <2>2, OrphanHandledType
      <3> QED BY <1>1, <3>1 DEF RestoreOK, Exists
    <2> QED BY <2>1, <2>2 DEF OrphanDelete
  <1>4. StoreOK' /\ lock' \in BOOLEAN
    BY <1>1 DEF ServiceOK, StoreOK, ScalarsOK
  <1> QED BY <1>1, <1>2, <1>3, <1>4, RestoreStepOK

(* The CIDRs of an orphan are released. *)
LEMMA OrphanReleaseCIDRsStep ==
    ASSUME ServiceOK, OrphanReleaseCIDRs, UNCHANGED <<wk, cf>>
    PROVE  ServiceOK' /\ KeepsAppliedRules
  <1>1. /\ rs \in Restoration /\ Exists(rs.cfg)
        /\ rs.c \in Cluster /\ rs.r \in Rule /\ Exists(rs.rest[rs.c][rs.r])
        /\ UNCHANGED <<lock, proc, config, cfgQueued>>
    BY DEF OrphanReleaseCIDRs, ServiceOK, RestoreOK
  <1>2. PICK ok \in BOOLEAN :
            /\ ReleaseCIDRs(rs.c, rs.r, rs.rest[rs.c][rs.r], ok)
            /\ rs' = [OrphanHandled EXCEPT !.err = @ \/ ~ok]
    BY DEF OrphanReleaseCIDRs
  <1>3. rs.rest[rs.c][rs.r] \in ClusterConfig
    BY <1>1 DEF Restoration, Exists
  <1>4. ApiOK' /\ StoreOK' /\ UNCHANGED <<clusters, stored, nextUid>>
    BY <1>1, <1>2, <1>3, ReleaseCIDRsType DEF ServiceOK
  <1>5. RestoreOK'
    <2>1. (OrphanHandled.err \/ ~ok) \in BOOLEAN
      OBVIOUS
    <2>2. rs' \in Restoration /\ rs'.pc = "orphans" /\ rs'.cfg = rs.cfg
      BY <1>1, <1>2, <2>1, OrphanHandledType
    <2> QED BY <1>1, <2>2 DEF RestoreOK, Exists
  <1>6. lock' \in BOOLEAN
    BY <1>1 DEF ServiceOK, ScalarsOK
  <1> QED BY <1>1, <1>4, <1>5, <1>6, RestoreStepOK

(* The parents of a config are CIDRs. *)
LEMMA ParentCIDRsType ==
    ASSUME NEW cfg \in IPAMConfig
    PROVE  ParentCIDRs(cfg) \in SUBSET CIDR
  <1>1. ASSUME NEW id \in Id, NEW j \in DOMAIN cfg.parents[id]
        PROVE  cfg.parents[id][j] \in CIDR
    <2>1. cfg.parents[id] \in Seq(CIDR)
      BY DEF IPAMConfig
    <2> QED BY <1>1, <2>1, SeqElement
  <1> QED BY <1>1 DEF ParentCIDRs

(* ipamFromClusterConfigs: the new IPAM state is well-formed. *)
LEMMA RestoreBuildStep ==
    ASSUME ServiceOK, RestoreBuild, UNCHANGED <<wk, cf>>
    PROVE  ServiceOK' /\ KeepsAppliedRules
  <1> DEFINE P == ParentCIDRs(rs.cfg)
             H == HandledCidrs
  <1>1. /\ rs \in Restoration /\ Exists(rs.cfg)
        /\ UNCHANGED <<clusters, ccs, queue, used, restoreUnchanged>>
    BY DEF RestoreBuild, ServiceOK, RestoreOK
  <1>2. P \in SUBSET CIDR
    <2>1. rs.cfg \in IPAMConfig
      BY <1>1 DEF Restoration, Exists
    <2> QED BY <2>1, ParentCIDRsType
  <1>3. H \in [Cluster \X Rule -> SUBSET CIDR]
    <2>1. ASSUME NEW k \in Cluster \X Rule, Exists(rs.handled[k[1]][k[2]])
          PROVE  CidrsOf(rs.handled[k[1]][k[2]].patches) \in SUBSET CIDR
      <3>1. rs.handled[k[1]][k[2]] \in ClusterConfig
        BY <1>1, <2>1 DEF Restoration, Exists
      <3>2. rs.handled[k[1]][k[2]].patches \in SUBSET Patch
        BY <3>1 DEF ClusterConfig
      <3> QED BY <3>2, CidrsOfType
    <2> QED BY <2>1 DEF HandledCidrs
  <1>4. ApiOK'
    BY <1>1 DEF ServiceOK, ApiOK
  <1>5. StoreOK'
    <2>1. CASE UNCHANGED ipam
      BY <2>1 DEF ServiceOK, StoreOK
    <2>2. CASE ~RebuildFails(P, H) /\ ipam' = Rebuilt(P, H)
      <3> HIDE DEF P, H
      <3>1. IsStore(Rebuilt(P, H)) /\ WellFormed(Rebuilt(P, H))
        BY <1>2, <1>3, <2>2, RebuiltWellFormed
      <3> QED BY <2>2, <3>1 DEF StoreOK
    <2> QED BY <2>1, <2>2 DEF RestoreBuild
  <1>6. RestoreOK' /\ lock' \in BOOLEAN
    BY RestoreReturnsStep DEF RestoreBuild
  <1> QED BY <1>1, <1>4, <1>5, <1>6, RestoreStepOK DEF restoreUnchanged

(* Every step of a Restore preserves the invariant. *)
LEMMA RestoreStepStep ==
    ASSUME ServiceOK, RestoreStep, UNCHANGED <<wk, cf>>
    PROVE  ServiceOK' /\ KeepsAppliedRules
  BY RestoreListStep, RestoreCheckStep, RestoreApplyStep, RestoreRefetchStep,
     RestorePhaseStep, OrphanGetClusterStep, OrphanDeleteStep,
     OrphanReleaseCIDRsStep, RestoreBuildStep
  DEF RestoreStep

-----------------------------------------------------------------------------
(* The config controller.                                                  *)

(* A step of the config controller touches neither Clusters nor the IPAM   *)
(* state.                                                                  *)
LEMMA ConfigStepOK ==
    ASSUME ServiceOK, UNCHANGED <<wk, configUnchanged>>, ConfigOK', RestoreOK',
           queue' \in SUBSET Cluster,
           used' \in [names: SUBSET Cluster, failures: Nat, edits: Nat, crashes: Nat],
           stored' \in ConfigObject \cup {NoObject},
           config' \in Configs \cup {NoObject}, cfgQueued' \in BOOLEAN, lock' \in BOOLEAN
    PROVE  ServiceOK' /\ KeepsAppliedRules
  <1>1. UNCHANGED <<clusters, ccs, nextUid, proc, ipam>>
    BY DEF configUnchanged
  <1>2. AnnotationsUnchanged
    BY <1>1, ClustersUnchanged
  <1>3. AnnotationOK' /\ KeepsAppliedRules
    BY <1>2, AnnotationStays DEF ServiceOK
  <1>4. WorkerOK'
    BY DEF ServiceOK, WorkerOK, CurrentRule
  <1>5. ApiOK' /\ ScalarsOK' /\ StoreOK'
    BY <1>1 DEF ServiceOK, ApiOK, ScalarsOK, StoreOK
  <1> QED BY <1>3, <1>4, <1>5 DEF ServiceOK

(* What a Restore relies on depends on its own memory only. *)
LEMMA RestoreUnchanged ==
    ASSUME RestoreOK, UNCHANGED rs
    PROVE  RestoreOK'
  BY DEF RestoreOK

(* An idle config controller needs nothing. *)
LEMMA IdleConfigWorkerOK ==
    ASSUME cf' = IdleConfigWorker
    PROVE  ConfigOK'
  BY DEF ConfigOK, IdleConfigWorker, ConfigWorker

(* Nor does one that has returned. *)
LEMMA ConfigReturnStep ==
    ASSUME ConfigOK, NEW again \in BOOLEAN, ConfigReturn(again)
    PROVE  ConfigOK'
  <1>1. (cf.timer \/ again) \in BOOLEAN
    BY DEF ConfigOK, ConfigWorker
  <1> QED BY <1>1 DEF ConfigReturn, ConfigOK, IdleConfigWorker, ConfigWorker

(* The config to handle is there. *)
LEMMA HandleConfigStep ==
    ASSUME ConfigOK, NEW obj \in ConfigObject, HandleConfig(obj)
    PROVE  ConfigOK'
  <1>1. obj.spec \in Configs /\ obj.deleting \in BOOLEAN
    BY DEF ConfigObject
  <1>2. Exists(obj.spec)
    BY <1>1, ConfigType
  <1>3. PICK pc \in {"queue", "set"} :
            cf' = [cf EXCEPT !.pc = pc, !.cfg = obj.spec, !.deleting = obj.deleting]
    BY DEF HandleConfig
  <1> QED BY <1>1, <1>2, <1>3 DEF ConfigOK, ConfigWorker

(* The config is fetched, or it is gone. *)
LEMMA FetchConfigStep ==
    ASSUME ServiceOK, FetchConfig, UNCHANGED wk
    PROVE  ServiceOK' /\ KeepsAppliedRules
  <1>1. cf.pc = "idle" /\ UNCHANGED <<stored, queue, lock, rs, configUnchanged>>
    BY DEF FetchConfig
  <1>2. /\ RestoreOK' /\ queue' \in SUBSET Cluster /\ lock' \in BOOLEAN
        /\ stored' \in ConfigObject \cup {NoObject}
    BY <1>1, RestoreUnchanged DEF ServiceOK, ApiOK, ScalarsOK
  <1>3. CASE config' = NoObject /\ UNCHANGED <<cf, cfgQueued, used>>
    <2>1. ConfigOK'
      BY <1>1, <1>3 DEF ServiceOK, ConfigOK
    <2> QED BY <1>1, <1>2, <1>3, <2>1, ConfigStepOK DEF ServiceOK, ApiOK, ScalarsOK
  <1>4. CASE /\ Exists(stored) /\ cfgQueued' = FALSE /\ UNCHANGED <<config, used>>
             /\ \/ UNCHANGED cf
                \/ cf' = [cf EXCEPT !.pc = "operation"]
                \/ HandleConfig(stored)
    <2>1. stored \in ConfigObject
      BY <1>4 DEF ServiceOK, ScalarsOK, Exists
    <2>2. ConfigOK'
      <3>1. CASE UNCHANGED cf
        BY <3>1 DEF ServiceOK, ConfigOK
      <3>2. CASE cf' = [cf EXCEPT !.pc = "operation"]
        BY <3>2 DEF ServiceOK, ConfigOK, ConfigWorker
      <3>3. CASE HandleConfig(stored)
        BY <2>1, <3>3, HandleConfigStep DEF ServiceOK
      <3> QED BY <1>4, <3>1, <3>2, <3>3
    <2> QED BY <1>1, <1>2, <1>4, <2>2, ConfigStepOK DEF ServiceOK, ApiOK, ScalarsOK
  <1>5. CASE ApiFails("get") /\ UNCHANGED <<cf, cfgQueued, config>>
    <2>1. ConfigOK'
      BY <1>5 DEF ServiceOK, ConfigOK
    <2> QED BY <1>1, <1>2, <1>5, <2>1, ApiFailsType, ConfigStepOK DEF ServiceOK, ScalarsOK
  <1> QED
    BY <1>3, <1>4, <1>5 DEF FetchConfig

(* The operation annotation of the config is removed. *)
LEMMA RemoveConfigOperationStep ==
    ASSUME ServiceOK, RemoveConfigOperation, UNCHANGED wk
    PROVE  ServiceOK' /\ KeepsAppliedRules
  <1>1. UNCHANGED <<config, queue, lock, rs, configUnchanged>>
    BY DEF RemoveConfigOperation
  <1>2. /\ RestoreOK' /\ queue' \in SUBSET Cluster /\ lock' \in BOOLEAN
        /\ config' \in Configs \cup {NoObject}
    BY <1>1, RestoreUnchanged DEF ServiceOK, ApiOK, ScalarsOK
  <1>3. CASE /\ Exists(stored) /\ stored' = [stored EXCEPT !.op = "none"]
             /\ \/ /\ Answered("patch", TRUE)
                   /\ HandleConfig(stored')
                   /\ ConfigEvent(stored', stored.op = "ignore")
                \/ /\ Answered("patch", FALSE)
                   /\ ConfigReturn(FALSE) /\ cfgQueued' = TRUE
    <2>1. stored' \in ConfigObject
      <3>1. stored \in ConfigObject
        BY <1>3 DEF ServiceOK, ScalarsOK, Exists
      <3> QED BY <1>3, <3>1 DEF ConfigObject, Operation
    <2>2. ConfigOK'
      BY <1>3, <2>1, HandleConfigStep, ConfigReturnStep DEF ServiceOK
    <2>3. cfgQueued' \in BOOLEAN
      BY <1>3 DEF ConfigEvent
    <2>4. used' \in [names: SUBSET Cluster, failures: Nat, edits: Nat, crashes: Nat]
      BY <1>3, AnsweredType DEF ServiceOK
    <2> QED BY <1>1, <1>2, <2>1, <2>2, <2>3, <2>4, ConfigStepOK
  <1>4. CASE /\ ConfigReturn(FALSE) /\ cfgQueued' = TRUE /\ UNCHANGED stored
             /\ UNCHANGED used \/ ApiFails("patch")
    <2>1. ConfigOK' /\ stored' \in ConfigObject \cup {NoObject}
      BY <1>4, ConfigReturnStep DEF ServiceOK, ScalarsOK
    <2>2. used' \in [names: SUBSET Cluster, failures: Nat, edits: Nat, crashes: Nat]
      BY <1>4, ApiFailsType DEF ServiceOK, ApiOK
    <2> QED BY <1>1, <1>2, <1>4, <2>1, <2>2, ConfigStepOK
  <1> QED
    BY <1>3, <1>4 DEF RemoveConfigOperation

(* The affected Clusters are queued. *)
LEMMA QueueClustersStep ==
    ASSUME ServiceOK, QueueClusters, UNCHANGED wk
    PROVE  ServiceOK' /\ KeepsAppliedRules
  <1>1. /\ cf.pc = "queue" /\ cf \in ConfigWorker /\ Exists(cf.cfg)
        /\ UNCHANGED <<stored, config, lock, rs, configUnchanged>>
    BY DEF QueueClusters, ServiceOK, ConfigOK
  <1>2. /\ RestoreOK' /\ config' \in Configs \cup {NoObject} /\ lock' \in BOOLEAN
        /\ stored' \in ConfigObject \cup {NoObject}
    BY <1>1, RestoreUnchanged DEF ServiceOK, ScalarsOK
  <1>3. CASE /\ queue' = queue \cup RelevantClusters(cf.cfg)
             /\ cf' = [cf EXCEPT !.pc = "set"] /\ UNCHANGED <<cfgQueued, used>>
    <2>1. ConfigOK'
      BY <1>1, <1>3 DEF ConfigOK, ConfigWorker, Exists
    <2>2. queue' \in SUBSET Cluster
      BY <1>3 DEF ServiceOK, ApiOK, RelevantClusters
    <2> QED BY <1>1, <1>2, <1>3, <2>1, <2>2, ConfigStepOK DEF ServiceOK, ApiOK, ScalarsOK
  <1>4. CASE /\ ApiFails("list") /\ ConfigReturn(FALSE)
             /\ cfgQueued' = TRUE /\ UNCHANGED queue
    BY <1>1, <1>2, <1>4, ApiFailsType, ConfigReturnStep, ConfigStepOK DEF ServiceOK, ApiOK
  <1> QED
    BY <1>3, <1>4 DEF QueueClusters

(* The config takes effect. *)
LEMMA SetConfigStep ==
    ASSUME ServiceOK, SetConfig, UNCHANGED wk
    PROVE  ServiceOK' /\ KeepsAppliedRules
  <1>1. /\ cf.pc = "set" /\ cf \in ConfigWorker /\ Exists(cf.cfg)
        /\ config' = NoObject \/ config' = cf.cfg
        /\ UNCHANGED <<stored, queue, cfgQueued, used, lock, rs, configUnchanged>>
    BY DEF SetConfig, ServiceOK, ConfigOK
  <1>2. ConfigOK'
    <2>1. CASE cf' = [cf EXCEPT !.pc = "refresh"]
      BY <1>1, <2>1 DEF ConfigOK, ConfigWorker, Exists
    <2>2. CASE ConfigReturn(cf.cfg.refresh)
      <3>1. cf.cfg \in Configs
        BY <1>1 DEF ConfigWorker, Exists
      <3>2. cf.cfg.refresh \in BOOLEAN
        BY <3>1, ConfigType
      <3> QED BY <2>2, <3>2, ConfigReturnStep DEF ServiceOK
    <2> QED BY <2>1, <2>2 DEF SetConfig
  <1>3. config' \in Configs \cup {NoObject}
    BY <1>1 DEF ConfigWorker
  <1>4. RestoreOK'
    BY <1>1, RestoreUnchanged DEF ServiceOK
  <1> QED BY <1>1, <1>2, <1>3, <1>4, ConfigStepOK DEF ServiceOK, ApiOK, ScalarsOK

(* A refresh begins. *)
LEMMA RefreshStep ==
    ASSUME ServiceOK, Refresh, UNCHANGED wk
    PROVE  ServiceOK' /\ KeepsAppliedRules
  <1>1. /\ cf.pc = "refresh" /\ cf \in ConfigWorker
        /\ cf' = [cf EXCEPT !.pc = "refreshing"]
        /\ UNCHANGED <<stored, queue, cfgQueued, config, configUnchanged>>
    BY DEF Refresh, ServiceOK, ConfigOK
  <1>2. /\ RestoreOK' /\ lock' \in BOOLEAN
        /\ used' \in [names: SUBSET Cluster, failures: Nat, edits: Nat, crashes: Nat]
    <2>1. CASE Exists(config) /\ BeginRestore(config)
      BY <2>1, BeginRestoreStep DEF ServiceOK, ScalarsOK, Exists
    <2>2. CASE Exists(stored) /\ BeginRestore(stored.spec)
      <3>1. stored.spec \in Configs
        BY <2>2 DEF ServiceOK, ScalarsOK, Exists, ConfigObject
      <3> QED BY <2>2, <3>1, BeginRestoreStep
    <2>3. CASE RestoreReturns("failed") /\ (UNCHANGED used \/ ApiFails("get"))
      BY <2>3, RestoreReturnsStep, ApiFailsType DEF ServiceOK, ApiOK
    <2> QED BY <2>1, <2>2, <2>3 DEF Refresh
  <1>3. ConfigOK'
    BY <1>1 DEF ConfigOK, ConfigWorker
  <1> QED BY <1>1, <1>2, <1>3, ConfigStepOK DEF ServiceOK, ApiOK, ScalarsOK

(* A refresh has returned. *)
LEMMA RefreshReturnsStep ==
    ASSUME ServiceOK, RefreshReturns, UNCHANGED wk
    PROVE  ServiceOK' /\ KeepsAppliedRules
  <1>1. /\ ConfigReturn(rs.pc = "done") /\ rs' = IdleRestore
        /\ cfgQueued' \in BOOLEAN
        /\ UNCHANGED <<stored, queue, config, used, lock, configUnchanged>>
    BY DEF RefreshReturns
  <1>2. RestoreOK'
    BY <1>1, IdleRestoreType DEF RestoreOK
  <1>3. ConfigOK'
    BY <1>1, ConfigReturnStep DEF ServiceOK
  <1> QED BY <1>1, <1>2, <1>3, ConfigStepOK DEF ServiceOK, ApiOK, ScalarsOK

(* The next refresh is due. *)
LEMMA RefreshDueStep ==
    ASSUME ServiceOK, RefreshDue, UNCHANGED wk
    PROVE  ServiceOK' /\ KeepsAppliedRules
  <1>1. /\ UserAction("refresh") /\ cfgQueued' = TRUE
        /\ cf' = [cf EXCEPT !.timer = FALSE]
        /\ UNCHANGED <<stored, queue, config, lock, rs, configUnchanged>>
    BY DEF RefreshDue
  <1>2. RestoreOK'
    BY <1>1, RestoreUnchanged DEF ServiceOK
  <1>3. ConfigOK'
    BY <1>1 DEF ServiceOK, ConfigOK, ConfigWorker
  <1> QED BY <1>1, <1>2, <1>3, UserActionType, ConfigStepOK DEF ServiceOK, ApiOK, ScalarsOK

(* Every step of the config controller preserves the invariant. *)
LEMMA ConfigReconcileStep ==
    ASSUME ServiceOK, ConfigReconcile, UNCHANGED wk
    PROVE  ServiceOK' /\ KeepsAppliedRules
  BY FetchConfigStep, RemoveConfigOperationStep, QueueClustersStep, SetConfigStep,
     RefreshStep, RefreshReturnsStep, RefreshDueStep
  DEF ConfigReconcile

-----------------------------------------------------------------------------
(* The life of the process.                                                *)

(* Run: the process starts. *)
LEMMA StartStep ==
    ASSUME ServiceOK, Start
    PROVE  ServiceOK' /\ KeepsAppliedRules
  <1>1. /\ Exists(stored) /\ proc' = "booting"
        /\ config' = stored.spec /\ BeginRestore(stored.spec)
        /\ UNCHANGED <<clusters, ccs, stored, nextUid, queue, cfgQueued, ipam, wk, cf>>
    BY DEF Start
  <1>2. stored.spec \in Configs
    BY <1>1 DEF ServiceOK, ScalarsOK, Exists, ConfigObject
  <1>3. /\ RestoreOK' /\ lock' \in BOOLEAN
        /\ used' \in [names: SUBSET Cluster, failures: Nat, edits: Nat, crashes: Nat]
    BY <1>1, <1>2, BeginRestoreStep
  <1>4. AnnotationOK' /\ KeepsAppliedRules
    BY <1>1, ClustersUnchanged, AnnotationStays DEF ServiceOK
  <1>5. WorkerOK' /\ ConfigOK'
    BY <1>1 DEF ServiceOK, WorkerOK, ConfigOK, CurrentRule, Exists
  <1> QED BY <1>1, <1>2, <1>3, <1>4, <1>5 DEF ServiceOK, ApiOK, ScalarsOK, StoreOK

(* The memory of the process is lost. *)
LEMMA ProcessExitsStep ==
    ASSUME ServiceOK, ProcessExits, UNCHANGED <<clusters, ccs, stored, nextUid>>,
           used' \in [names: SUBSET Cluster, failures: Nat, edits: Nat, crashes: Nat]
    PROVE  ServiceOK' /\ KeepsAppliedRules
  <1>1. WorkerOK' /\ AnnotationOK'
    BY IdleWorkerType, WorkerAt DEF ProcessExits
  <1>2. RestoreOK' /\ ConfigOK'
    BY IdleRestoreType, IdleConfigWorkerOK DEF ProcessExits, RestoreOK
  <1>3. StoreOK'
    BY EmptyStoreWellFormed DEF ProcessExits, StoreOK
  <1>4. ApiOK' /\ ScalarsOK'
    BY DEF ServiceOK, ApiOK, ScalarsOK, ProcessExits
  <1> QED BY <1>1, <1>2, <1>3, <1>4, ClustersUnchanged DEF ServiceOK

(* A failed start and a crash. *)
LEMMA StopStep ==
    ASSUME ServiceOK, BootFails \/ Crash
    PROVE  ServiceOK' /\ KeepsAppliedRules
  BY ProcessExitsStep DEF BootFails, Crash, ServiceOK, ApiOK

(* The manager starts the watches of a process with a well-formed state. *)
LEMMA WatchesStep ==
    ASSUME ServiceOK, NEW cfg, StartWatches(cfg),
           proc' = "running", config' \in Configs \cup {NoObject},
           StoreOK', RestoreOK',
           UNCHANGED <<clusters, ccs, stored, nextUid, used, lock, wk, cf>>
    PROVE  ServiceOK' /\ KeepsAppliedRules
  <1>1. queue' \in SUBSET Cluster /\ cfgQueued' \in BOOLEAN
    BY DEF StartWatches, RelevantClusters, Exists
  <1>2. AnnotationOK' /\ KeepsAppliedRules
    BY ClustersUnchanged, AnnotationStays DEF ServiceOK
  <1>3. WorkerOK' /\ ConfigOK'
    BY DEF ServiceOK, WorkerOK, ConfigOK, CurrentRule
  <1> QED BY <1>1, <1>2, <1>3 DEF ServiceOK, ApiOK, ScalarsOK

(* Run: the manager starts, and a second replica has the same state. *)
LEMMA StartManagerStep ==
    ASSUME IndInv, StartManager
    PROVE  IndInv' /\ KeepsAppliedRules
  <1>1. /\ proc' = "running" /\ rs' = IdleRestore /\ StartWatches(config)
        /\ standby' = standby \/ standby' = [cfg |-> config, ipam |-> ipam]
        /\ UNCHANGED <<clusters, ccs, stored, nextUid, config, used, ipam, lock, wk, cf>>
    BY DEF StartManager
  <1>2. RestoreOK'
    BY <1>1, IdleRestoreType DEF RestoreOK
  <1>3. StoreOK' /\ config' \in Configs \cup {NoObject}
    BY <1>1 DEF IndInv, ServiceOK, StoreOK, ScalarsOK
  <1>4. ServiceOK' /\ KeepsAppliedRules
    BY <1>1, <1>2, <1>3, WatchesStep DEF IndInv
  <1>5. StandbyOK'
    BY <1>1 DEF IndInv, ServiceOK, StandbyOK, StoreOK, ScalarsOK
  <1> QED BY <1>4, <1>5 DEF IndInv

(* The second replica becomes the leader. *)
LEMMA TakeOverStep ==
    ASSUME IndInv, TakeOver
    PROVE  IndInv' /\ KeepsAppliedRules
  <1>1. /\ proc' = "running" /\ config' = standby.cfg /\ ipam' = standby.ipam
        /\ standby' = NoStandby /\ StartWatches(standby.cfg)
        /\ UNCHANGED <<clusters, ccs, stored, nextUid, used, lock, wk, rs, cf>>
    BY DEF TakeOver
  <1>2. StoreOK' /\ config' \in Configs \cup {NoObject} /\ RestoreOK'
    BY <1>1 DEF IndInv, ServiceOK, StandbyOK, StoreOK, RestoreOK
  <1>3. ServiceOK' /\ KeepsAppliedRules
    BY <1>1, <1>2, WatchesStep DEF IndInv
  <1>4. StandbyOK'
    BY <1>1, EmptyStoreWellFormed DEF StandbyOK, NoStandby
  <1> QED BY <1>3, <1>4 DEF IndInv

(* Every step preserves the invariant and keeps the applied rules. *)
LEMMA NextStep ==
    ASSUME IndInv, Next
    PROVE  IndInv' /\ KeepsAppliedRules
  <1>1. CASE StartManager \/ TakeOver
    BY <1>1, StartManagerStep, TakeOverStep
  <1>2. CASE ~(StartManager \/ TakeOver)
    <2>1. UNCHANGED standby
      BY <1>2 DEF Next, Start, BootFails, Crash
    <2>2. StandbyOK'
      BY <2>1 DEF IndInv, StandbyOK
    <2>3. ServiceOK' /\ KeepsAppliedRules
      BY <1>2, EnvironmentStep, ClusterReconcileStep, ConfigReconcileStep,
         RestoreStepStep, StartStep, StopStep
      DEF Next, IndInv
    <2> QED BY <2>2, <2>3 DEF IndInv
  <1> QED BY <1>1, <1>2

(* So does doing nothing. *)
LEMMA StutterStep ==
    ASSUME IndInv, UNCHANGED vars
    PROVE  IndInv'
  <1>1. UNCHANGED <<clusters, wk, rs, cf, standby>>
    BY DEF vars
  <1>2. WorkerOK' /\ RestoreOK' /\ ConfigOK'
    BY <1>1, ProcessesUnchanged DEF IndInv, ServiceOK
  <1>3. AnnotationOK'
    BY <1>1, ClustersUnchanged, AnnotationStays DEF IndInv, ServiceOK
  <1>4. ApiOK' /\ ScalarsOK' /\ StoreOK'
    BY DEF vars, IndInv, ServiceOK, ApiOK, ScalarsOK, StoreOK
  <1>5. StandbyOK'
    BY <1>1 DEF IndInv, StandbyOK
  <1> QED BY <1>2, <1>3, <1>4, <1>5 DEF IndInv, ServiceOK

(* The invariant holds initially. *)
LEMMA InitIndInv == Init => IndInv
  <1> SUFFICES ASSUME Init PROVE IndInv
    OBVIOUS
  <1>1. ApiOK /\ ScalarsOK
    <2>1. stored \in ConfigObject
      <3>1. PICK cfg \in InitialConfigs : stored = NewConfig(cfg)
        BY DEF Init
      <3>2. cfg \in Configs
        BY PlatformAssumption
      <3> QED BY <3>1, <3>2 DEF NewConfig, ConfigObject, Operation
    <2> QED BY <2>1, NothingType DEF Init, ApiOK, ScalarsOK
  <1>2. StoreOK
    BY EmptyStoreWellFormed DEF Init, StoreOK
  <1>3. WorkerOK /\ AnnotationOK
    BY IdleWorkerType DEF Init, WorkerOK, AnnotationOK
  <1>4. RestoreOK
    BY IdleRestoreType DEF Init, RestoreOK
  <1>5. ConfigOK
    BY DEF Init, ConfigOK, IdleConfigWorker, ConfigWorker
  <1>6. StandbyOK
    BY EmptyStoreWellFormed DEF Init, StandbyOK, NoStandby
  <1> QED BY <1>1, <1>2, <1>3, <1>4, <1>5, <1>6 DEF IndInv, ServiceOK

-----------------------------------------------------------------------------
(* The inductive invariant holds of every reachable state of the service.  *)
THEOREM Inductive == Spec => []IndInv
  <1>1. Init => IndInv
    BY InitIndInv
  <1>2. IndInv /\ [Next]_vars => IndInv'
    BY NextStep, StutterStep
  <1> QED BY <1>1, <1>2, PTL DEF Spec

(* Every object the service stores and everything its processes remember   *)
(* has its type: no step reads an object, a rule or an injection that is   *)
(* not there.                                                              *)
THEOREM TypeCorrect == Spec => []TypeOK
  <1>1. IndInv => TypeOK
    BY IndInvTypeOK
  <1> QED BY <1>1, Inductive, PTL

(* No step takes an injection from the applied-rules annotation of a       *)
(* Cluster, nor changes one.                                               *)
THEOREM AppliedRulesStay == Spec => AppliedRulesKept
  <1>1. IndInv /\ [Next]_vars => [KeepsAppliedRules]_vars
    BY NextStep
  <1> QED BY <1>1, Inductive, PTL DEF Spec, AppliedRulesKept
=============================================================================
