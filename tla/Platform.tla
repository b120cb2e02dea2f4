------------------------------ MODULE Platform ------------------------------
(***************************************************************************)
(* The platform cluster: the Cluster, ClusterConfig and IPAMConfig objects *)
(* of its API server, the users and controllers that change them beside    *)
(* this service, and the watches that turn changes into work items.        *)
(*                                                                         *)
(* A Cluster is identified by its name, its incarnation by a uid.  The     *)
(* ClusterConfig that rule r produces for Cluster c has a name made of the *)
(* two (GenerateClusterConfigName), so ccs[c][r] is that object.           *)
(***************************************************************************)
EXTENDS ReferenceInjector

CONSTANTS
    Cluster,       \* names of Clusters
    Configs,       \* the IPAMConfigs an operator may store
    InitialConfigs,\* the ones the service may be installed with
    NoObject,      \* an object that does not exist
    ReuseNames,    \* may a Cluster get the name of a deleted one?
    UserActions,   \* what users and foreign controllers do beside creating and deleting Clusters
    FailingCalls,  \* kinds of API calls that may fail
    LostResponses, \* kinds of API calls that may take effect and yet return an error
    MaxUid,        \* bound: number of Clusters ever created
    MaxEdits,      \* bound: number of UserActions
    MaxFailures,   \* bound: number of failing API calls and lost responses
    MaxCrashes     \* bound: number of crashes of the service

VARIABLES
    clusters,   \* [Cluster -> object]
    ccs,        \* [Cluster -> [Rule -> object]], the ClusterConfigs
    stored,     \* the IPAMConfig resource
    nextUid,    \* the uid of the next Cluster
    proc,       \* the service process: "down", "booting" or "running"
    config,     \* shared.config, the IPAMConfig in the memory of the service
    queue,      \* names in the work queue of the Cluster controller
    cfgQueued,  \* the work queue of the config controller is not empty
    used        \* the names used so far, and how much of each bound is used up

Patch == [path: Path, cidr: CIDR]

PathsOf(S) == {p.path : p \in S}
CidrsOf(S) == {p.cidr : p \in S}

NoInjections == [r \in Rule |-> {}]
NoConfigs == [r \in Rule |-> NoObject]

Operation == {"none", "ignore", "reconcile"}

(* ann is the applied-rules annotation: rule ID -> path -> CIDR.  A rule   *)
(* without an entry has the empty set.  refs is spec.clusterConfigs.       *)
ClusterObject ==
    [uid: Nat, purpose: Purpose, op: Operation, ann: [Rule -> SUBSET Patch], refs: SUBSET Reference]

(* fin: the CIDR management finalizer is set; foreign: so is another one.  *)
ClusterConfig ==
    [owner: Nat, patches: SUBSET Patch, fin: BOOLEAN, foreign: BOOLEAN, deleting: BOOLEAN]

(* The IPAMConfig resource with its operation annotation. *)
ConfigObject == [spec: Configs, op: Operation, deleting: BOOLEAN]

NewConfig(cfg) == [spec |-> cfg, op |-> "none", deleting |-> FALSE]

ASSUME PlatformAssumption ==
    /\ Configs \subseteq IPAMConfig
    /\ InitialConfigs \subseteq Configs
    /\ \A cfg \in Configs :
        ValidConfig(cfg) /\ \A i \in DOMAIN cfg.rules : cfg.rules[i].injections # <<>>
    /\ NoObject \notin ClusterObject \cup ClusterConfig \cup IPAMConfig \cup ConfigObject
    /\ UserActions \subseteq {"operation", "finalizer", "edit", "config", "configMeta", "refresh"}
    /\ FailingCalls \subseteq {"get", "list", "patch", "create", "update", "delete", "release"}
    /\ LostResponses \subseteq {"patch", "create", "update", "delete", "release"}
    /\ ReuseNames \in BOOLEAN
    /\ {MaxUid, MaxEdits, MaxFailures, MaxCrashes} \subseteq Nat

-----------------------------------------------------------------------------
(* The API server.                                                         *)

Exists(obj) == obj # NoObject

(* An object in deletion disappears with its last finalizer. *)
Persisted(cc) == IF cc.deleting /\ ~cc.fin /\ ~cc.foreign THEN NoObject ELSE cc

Deleted(cc) == Persisted([cc EXCEPT !.deleting = TRUE])

(* A call of this kind may fail while the bound is not used up. *)
ApiFails(kind) ==
    /\ kind \in FailingCalls
    /\ used.failures < MaxFailures
    /\ used' = [used EXCEPT !.failures = @ + 1]

(* What the caller learns of a call that took effect: success, or an error *)
(* because the response was lost.                                          *)
Answered(kind, ok) ==
    \/ ok /\ UNCHANGED used
    \/ /\ ~ok /\ kind \in LostResponses
       /\ used.failures < MaxFailures
       /\ used' = [used EXCEPT !.failures = @ + 1]

(* The watch on owned ClusterConfigs passes updates and deletions on as    *)
(* requests for the Cluster that owns them.                                *)
WriteClusterConfig(c, r, cc) ==
    /\ ccs' = [ccs EXCEPT ![c][r] = cc]
    /\ queue' = IF proc = "running" THEN queue \cup {c} ELSE queue

(* It drops their creations. *)
CreateClusterConfig(c, r, cc) ==
    /\ ccs' = [ccs EXCEPT ![c][r] = cc]
    /\ UNCHANGED queue

(* The predicate of the watch on Clusters. *)
ClusterPredicate(cl) ==
    /\ Exists(config)
    /\ Matches(config, cl.purpose)
    /\ cl.op # "ignore"

ClusterEvent(c, cl, relevant) ==
    queue' = IF proc = "running" /\ relevant /\ ClusterPredicate(cl) THEN queue \cup {c} ELSE queue

(* The predicate of the watch on the IPAMConfig. *)
ConfigEvent(obj, relevant) ==
    cfgQueued' = (cfgQueued \/ (proc = "running" /\ relevant /\ obj.op # "ignore"))

(* The API server calls the webhook for every Cluster it creates or        *)
(* updates, and rejects the request if the webhook is not there or has no  *)
(* config.                                                                 *)
Admitted == Webhooks => proc = "running" /\ Exists(config)

Default(cl, named) ==
    IF Webhooks
    THEN [cl EXCEPT !.refs = InjectedReferences(config, cl.purpose, named, cl.refs)]
    ELSE cl

RelevantClusters(cfg) == {c \in Cluster : Exists(clusters[c]) /\ Matches(cfg, clusters[c].purpose)}

-----------------------------------------------------------------------------
(* Users and foreign controllers.                                          *)

(* External: a user orders a Cluster, by name or with generateName. *)
CreateCluster(c, purpose, named) ==
    /\ Admitted
    /\ ~Exists(clusters[c])
    /\ ReuseNames \/ c \notin used.names
    /\ nextUid <= MaxUid
    /\ nextUid' = nextUid + 1
    /\ used' = [used EXCEPT !.names = @ \cup {c}]
    /\ LET cl == Default([uid |-> nextUid, purpose |-> purpose, op |-> "none",
                          ann |-> NoInjections, refs |-> {}], named)
       IN  clusters' = [clusters EXCEPT ![c] = cl] /\ ClusterEvent(c, cl, TRUE)
    /\ UNCHANGED <<ccs, stored, proc, config, cfgQueued>>

(* External: the last finalizer of a deleted Cluster is gone. *)
DeleteCluster(c) ==
    /\ Exists(clusters[c])
    /\ clusters' = [clusters EXCEPT ![c] = NoObject]
    /\ ClusterEvent(c, clusters[c], TRUE)
    /\ UNCHANGED <<ccs, stored, nextUid, proc, config, cfgQueued, used>>

(* External: the garbage collector deletes objects whose owner is gone. *)
GarbageCollect(c, r) ==
    /\ Exists(ccs[c][r]) /\ ~ccs[c][r].deleting
    /\ Exists(clusters[c]) => clusters[c].uid # ccs[c][r].owner
    /\ WriteClusterConfig(c, r, Deleted(ccs[c][r]))
    /\ UNCHANGED <<clusters, stored, nextUid, proc, config, cfgQueued, used>>

UserAction(kind) ==
    /\ kind \in UserActions
    /\ used.edits < MaxEdits
    /\ used' = [used EXCEPT !.edits = @ + 1]

(* External: a user sets or removes the operation annotation of a Cluster. *)
(* The watch reacts to "reconcile" appearing and to "ignore" vanishing.    *)
SetOperation(c, op) ==
    /\ UserAction("operation") /\ Admitted
    /\ Exists(clusters[c]) /\ clusters[c].op # op
    /\ LET cl == Default([clusters[c] EXCEPT !.op = op], TRUE)
       IN  /\ clusters' = [clusters EXCEPT ![c] = cl]
           /\ ClusterEvent(c, cl, op = "reconcile" \/ clusters[c].op = "ignore")
    /\ UNCHANGED <<ccs, stored, nextUid, proc, config, cfgQueued>>

(* External: another controller adds or removes its finalizer. *)
ForeignFinalizer(c, r, present) ==
    /\ UserAction("finalizer")
    /\ Exists(ccs[c][r]) /\ ccs[c][r].foreign # present
    /\ present => ~ccs[c][r].deleting
    /\ WriteClusterConfig(c, r, Persisted([ccs[c][r] EXCEPT !.foreign = present]))
    /\ UNCHANGED <<clusters, stored, nextUid, proc, config, cfgQueued>>

(* External: somebody deletes a ClusterConfig, or removes a patch or the   *)
(* CIDR management finalizer from it.                                      *)
EditClusterConfig(c, r) ==
    /\ UserAction("edit")
    /\ Exists(ccs[c][r])
    /\ \/ ~ccs[c][r].deleting /\ WriteClusterConfig(c, r, Deleted(ccs[c][r]))
       \/ /\ ccs[c][r].fin
          /\ WriteClusterConfig(c, r, Persisted([ccs[c][r] EXCEPT !.fin = FALSE]))
       \/ \E p \in ccs[c][r].patches :
             /\ ccs[c][r].patches # {p}
             /\ WriteClusterConfig(c, r, [ccs[c][r] EXCEPT !.patches = @ \ {p}])
    /\ UNCHANGED <<clusters, stored, nextUid, proc, config, cfgQueued>>

(* External: the operator stores a config. *)
StoreConfig(cfg) ==
    /\ UserAction("config")
    /\ Exists(stored) => stored.spec # cfg
    /\ stored' = IF Exists(stored) THEN [stored EXCEPT !.spec = cfg] ELSE NewConfig(cfg)
    /\ ConfigEvent(stored', TRUE)
    /\ UNCHANGED <<clusters, ccs, nextUid, proc, config, queue>>

(* External: the operator deletes the config, or the last finalizer of one *)
(* in deletion is removed.                                                 *)
DeleteConfig ==
    /\ Exists(stored)
    /\ IF stored.deleting THEN UNCHANGED used ELSE UserAction("config")
    /\ stored' = NoObject
    /\ ConfigEvent(stored, TRUE)
    /\ UNCHANGED <<clusters, ccs, nextUid, proc, config, queue>>

(* External: the operator deletes the config, and somebody's finalizer     *)
(* keeps the object; or sets or removes its operation annotation.          *)
ChangeConfigMeta ==
    /\ UserAction("configMeta")
    /\ Exists(stored)
    /\ \/ /\ ~stored.deleting
          /\ stored' = [stored EXCEPT !.deleting = TRUE]
          /\ ConfigEvent(stored', TRUE)
       \/ \E op \in Operation \ {stored.op} :
             /\ stored' = [stored EXCEPT !.op = op]
             /\ ConfigEvent(stored', op = "reconcile" \/ stored.op = "ignore")
    /\ UNCHANGED <<clusters, ccs, nextUid, proc, config, queue>>

Environment ==
    \/ \E c \in Cluster, p \in Purpose, named \in BOOLEAN : CreateCluster(c, p, named)
    \/ \E c \in Cluster : DeleteCluster(c)
    \/ \E c \in Cluster, r \in Rule : GarbageCollect(c, r)
    \/ \E c \in Cluster, op \in Operation : SetOperation(c, op)
    \/ \E c \in Cluster, r \in Rule, b \in BOOLEAN : ForeignFinalizer(c, r, b)
    \/ \E c \in Cluster, r \in Rule : EditClusterConfig(c, r)
    \/ \E cfg \in Configs : StoreConfig(cfg)
    \/ DeleteConfig
    \/ ChangeConfigMeta
=============================================================================
