-------------------------- MODULE ClusterController --------------------------
(***************************************************************************)
(* internal/controllers/cluster: the reconciler of Clusters.  One worker   *)
(* (MaxConcurrentReconciles is 1) takes a name from the queue and runs     *)
(* through the API and IPAM calls of one reconciliation; each call is a    *)
(* step, and everything else may happen between two steps.                 *)
(***************************************************************************)
EXTENDS Shared

VARIABLE wk   \* the local state of the worker

(***************************************************************************)
(* pc       the next call of the reconciliation                            *)
(* c, cl    the name and the fetched Cluster (NoObject: not found)         *)
(* rules    the injection rules read by the first GetConfig                *)
(* cfg      the config read by the second GetConfig                        *)
(* todo     indices of the rules that still have to be generated           *)
(* inj, raw, tmp   generateCIDRsForInjectionRule: the next injection, the  *)
(*          CIDRs acquired for the rule, and those with an injection ID    *)
(* ann      AnnotationToApply                                              *)
(* create, update  the RestorationInstruction                              *)
(* del, r   the listed ClusterConfigs of a deleted Cluster, and the        *)
(*          current one                                                    *)
(* err      an error occurred: the request is queued again at the end      *)
(***************************************************************************)
Worker ==
    [pc: {"idle", "operation", "config", "list", "generate", "annotate", "apply",
          "delList", "delRelease", "delDelete"},
     c: Cluster \cup {NoObject},
     cl: ClusterObject \cup {NoObject},
     rules: Seq(CIDRInjection),
     cfg: Configs \cup {NoObject},
     todo: SUBSET Nat,
     inj: Nat,
     raw: SUBSET Patch,
     tmp: [Id -> CIDR \cup {NoCidr}],
     ann: [Rule -> SUBSET Patch],
     create: [Rule -> SUBSET Patch],
     update: [Rule -> Update \cup {NoObject}],
     del: [Rule -> ClusterConfig \cup {NoObject}],
     r: Rule \cup {NoObject},
     err: BOOLEAN]

NoTmpParents == [id \in Id |-> NoCidr]

IdleWorker ==
    [pc |-> "idle", c |-> NoObject, cl |-> NoObject,
     rules |-> <<>>, cfg |-> NoObject, todo |-> {}, inj |-> 1, raw |-> {},
     tmp |-> NoTmpParents, ann |-> NoInjections, create |-> NoInjections,
     update |-> NoUpdates, del |-> NoConfigs, r |-> NoObject,
     err |-> FALSE]

(* Mutant: errors are logged but not returned. *)
Return_ErrorLost(c, failed) ==
    wk' = IdleWorker /\ UNCHANGED queue

(* Mutant: the request is reset before it is queued again. *)
Return_ResetFirst(c, failed) ==
    /\ wk' = IdleWorker
    /\ queue' = IF failed THEN queue \cup {wk'.c} ELSE queue

(* The reconciliation of c ends; controller-runtime queues it again after  *)
(* an error.                                                               *)
Return(c, failed) ==
    /\ wk' = IdleWorker
    /\ queue' = IF failed THEN queue \cup {c} ELSE queue

workerUnchanged == <<nextUid, stored, proc, config, cfgQueued, lock>>

(* What follows once no rule is left to generate: the annotation is        *)
(* patched if it changed, then the RestorationInstruction is applied.      *)
Proceed(w) ==
    [w EXCEPT !.pc = IF w.todo # {} THEN "generate"
                     ELSE IF w.ann # w.cl.ann THEN "annotate" ELSE "apply"]

-----------------------------------------------------------------------------
(* reconcile                                                               *)

(* The first GetConfig and the choice of the applicable rules. *)
SelectRules(c, cl) ==
    IF Exists(config) /\ Matches(config, cl.purpose)
    THEN wk' = [IdleWorker EXCEPT !.pc = "config", !.c = c, !.cl = cl, !.rules = config.rules]
    ELSE wk' = IdleWorker

(* Mutant: a Cluster that is not found is nobody's business. *)
FetchCluster_IgnoresNotFound(c) ==
    /\ proc = "running" /\ wk.pc = "idle" /\ c \in queue
    /\ queue' = queue \ {c}
    /\ IF Exists(clusters[c]) /\ clusters[c].op = "none"
       THEN SelectRules(c, clusters[c]) ELSE wk' = IdleWorker
    /\ UNCHANGED <<clusters, ccs, ipam, used, workerUnchanged>>

FetchCluster(c) ==
    /\ proc = "running" /\ wk.pc = "idle" /\ c \in queue
    /\ queue' = queue \ {c}
    /\ LET cl == clusters[c]
       IN  \/ /\ ~Exists(cl)
              /\ wk' = [IdleWorker EXCEPT !.pc = "delList", !.c = c]
           \/ /\ Exists(cl) /\ cl.op = "ignore"
              /\ wk' = IdleWorker
           \/ /\ Exists(cl) /\ cl.op = "reconcile"
              /\ wk' = [IdleWorker EXCEPT !.pc = "operation", !.c = c, !.cl = cl]
           \/ /\ Exists(cl) /\ cl.op = "none"
              /\ SelectRules(c, cl)
    /\ UNCHANGED <<clusters, ccs, ipam, used, workerUnchanged>>

(* Mutant: any error of Get is taken for NotFound. *)
FetchClusterFails_AsNotFound(c) ==
    /\ proc = "running" /\ wk.pc = "idle" /\ c \in queue
    /\ ApiFails("get")
    /\ queue' = queue \ {c}
    /\ wk' = [IdleWorker EXCEPT !.pc = "delList", !.c = c]
    /\ UNCHANGED <<clusters, ccs, ipam, workerUnchanged>>

(* Get fails: the request is queued again. *)
FetchClusterFails(c) ==
    /\ proc = "running" /\ wk.pc = "idle" /\ c \in queue
    /\ ApiFails("get")
    /\ UNCHANGED <<clusters, ccs, ipam, queue, wk, workerUnchanged>>

(* Removes the "reconcile" annotation; the patch returns the current       *)
(* object.  The watch ignores the update unless "ignore" was lost.         *)
RemoveOperationAnnotation ==
    /\ wk.pc = "operation"
    /\ \/ /\ Exists(clusters[wk.c]) /\ Admitted
          /\ LET cl == Default([clusters[wk.c] EXCEPT !.op = "none"], TRUE)
             IN  /\ clusters' = [clusters EXCEPT ![wk.c] = cl]
                 /\ \/ /\ Answered("patch", TRUE)
                       /\ SelectRules(wk.c, cl)
                       /\ ClusterEvent(wk.c, cl, clusters[wk.c].op = "ignore")
                    \/ Answered("patch", FALSE) /\ Return(wk.c, TRUE)
       \/ /\ ~Exists(clusters[wk.c]) \/ ~Admitted
          /\ Return(wk.c, TRUE)
          /\ UNCHANGED <<clusters, used>>
       \/ /\ ApiFails("patch")
          /\ Return(wk.c, TRUE)
          /\ UNCHANGED clusters
    /\ UNCHANGED <<ccs, ipam, workerUnchanged>>

-----------------------------------------------------------------------------
(* handleCreateOrUpdate and ManageInjections                               *)

(* Mutant: the ClusterConfig wins over the annotation. *)
AppliedRules_ClusterConfigWins(ann, listed) ==
    [r \in Rule |-> IF Exists(listed[r]) THEN listed[r].patches ELSE ann[r]]

(* Entries of ClusterConfigs are added to the applied rules for the paths  *)
(* the annotation does not have.                                           *)
AppliedRules(ann, listed) ==
    [r \in Rule |->
        IF Exists(listed[r])
        THEN ann[r] \cup {p \in listed[r].patches : p.path \notin PathsOf(ann[r])}
        ELSE ann[r]]

InjectedPaths(applied) == UNION {PathsOf(applied[r]) : r \in Rule}

(* Only paths that can be normalised are compared. *)
HasIssue(rule, applied) ==
    RepeatsPath(rule) \/ (RulePaths(rule) \cap InjectedPaths(applied)) \ OddPath # {}

AlreadyApplied(rule, applied, listed) ==
    applied[rule.id] # {} \/ Exists(listed[rule.id])

(* The rules that apply to the Cluster and have not been applied yet. *)
NewRules(applied, listed) ==
    {i \in DOMAIN wk.rules :
        /\ RuleMatches(wk.rules[i], wk.cl.purpose)
        /\ ~AlreadyApplied(wk.rules[i], applied, listed)}

(* The second GetConfig: the config may be another one, or gone. *)
GetConfigAgain ==
    /\ wk.pc = "config"
    /\ wk' = [wk EXCEPT !.pc = "list", !.cfg = config]
    /\ UNCHANGED <<clusters, ccs, ipam, queue, used, workerUnchanged>>

(* The list of the Cluster's ClusterConfigs and what ManageInjections      *)
(* derives from it before it touches the IPAM state.  A path that cannot   *)
(* be normalised is reported, and its rule generated all the same.  A nil  *)
(* config makes the generation of a rule panic, which controller-runtime   *)
(* turns into an error before anything is applied.                         *)
ManageInjections ==
    /\ wk.pc = "list"
    /\ LET listed  == ccs[wk.c]
           applied == AppliedRules(wk.cl.ann, listed)
           new     == NewRules(applied, listed)
           todo    == {i \in new : ~HasIssue(wk.rules[i], applied)}
           ri      == CheckClusterConfigs(applied, listed)
           odd     == \E i \in new : RulePaths(wk.rules[i]) \cap OddPath # {}
       IN  \/ /\ ~Exists(wk.cfg) /\ todo # {}
              /\ Return(wk.c, TRUE)
           \/ /\ Exists(wk.cfg) \/ todo = {}
              /\ wk' = Proceed([wk EXCEPT !.todo = todo, !.ann = applied,
                                          !.create = ri.create, !.update = ri.update,
                                          !.err = (todo # new \/ odd)])
              /\ UNCHANGED queue
    /\ UNCHANGED <<clusters, ccs, ipam, used, workerUnchanged>>

ManageInjectionsFails ==
    /\ wk.pc = "list"
    /\ ApiFails("list")
    /\ Return(wk.c, TRUE)
    /\ UNCHANGED <<clusters, ccs, ipam, workerUnchanged>>

-----------------------------------------------------------------------------
(* generateCIDRsForInjectionRule                                           *)

CurrentRule == CHOOSE i \in wk.todo : \A k \in wk.todo : i <= k

(* The prefixes a parent ID stands for: an earlier injection of the rule,  *)
(* or the CIDRs of the config.                                             *)
PrefixesOf(id) ==
    IF wk.tmp[id] # NoCidr THEN <<wk.tmp[id]>> ELSE wk.cfg.parents[id]

(* The prefixes of one list that may serve the injection: those with free  *)
(* space such that no earlier one of the list has any.                     *)
Serving(prefixes, size) ==
    {prefixes[j] : j \in {j \in DOMAIN prefixes :
        /\ FreeChildren(ipam, prefixes[j], size) # {}
        /\ \A k \in 1..(j - 1) : FreeChildren(ipam, prefixes[k], size) = {}}}

(* The parents are tried in the order the injection lists them; without a  *)
(* list, all parents of the config are tried in an undefined order.        *)
Candidates(inj) ==
    IF inj.parents = <<>>
    THEN UNION {Serving(PrefixesOf(id), inj.size) : id \in {id \in Id : wk.cfg.parents[id] # <<>>}}
    ELSE UNION {Serving(PrefixesOf(inj.parents[n]), inj.size) :
                    n \in {n \in DOMAIN inj.parents :
                        \A m \in 1..(n - 1) : Serving(PrefixesOf(inj.parents[m]), inj.size) = {}}}

(* One injection of the current rule gets its CIDR; with its last          *)
(* injection the rule is entered in the annotation and a ClusterConfig is  *)
(* planned for it.                                                         *)
GenerateInjection ==
    /\ wk.pc = "generate" /\ ~lock
    /\ LET i    == CurrentRule
           rule == wk.rules[i]
           inj  == rule.injections[wk.inj]
       IN  \E p \in Candidates(inj) : \E cidr \in FreeChildren(ipam, p, inj.size) :
            LET raw == wk.raw \cup [path: inj.paths, cidr: {cidr}]
            IN  /\ ipam' = Record(ipam, cidr, p)
                /\ wk' = IF wk.inj < Len(rule.injections)
                         THEN [wk EXCEPT !.inj = @ + 1, !.raw = raw,
                                         !.tmp = [id \in Id |-> IF id = inj.id THEN cidr ELSE @[id]]]
                         ELSE Proceed([wk EXCEPT !.todo = @ \ {i}, !.inj = 1, !.raw = {},
                                                 !.tmp = NoTmpParents,
                                                 !.ann[rule.id] = raw, !.create[rule.id] = raw])
    /\ UNCHANGED <<clusters, ccs, queue, used, workerUnchanged>>

(* Mutant: what the rule acquired so far is forgotten. *)
GenerateInjectionFails_NoRelease ==
    /\ wk.pc = "generate" /\ ~lock
    /\ LET i == CurrentRule
       IN  /\ Candidates(wk.rules[i].injections[wk.inj]) = {}
           /\ wk' = Proceed([wk EXCEPT !.todo = @ \ {i}, !.inj = 1, !.raw = {},
                                       !.tmp = NoTmpParents, !.err = TRUE])
    /\ UNCHANGED <<clusters, ccs, ipam, queue, used, workerUnchanged>>

(* No parent has room for the injection: what the rule acquired so far is  *)
(* released (in the order of a Go map) and the rule is skipped.            *)
GenerateInjectionFails ==
    /\ wk.pc = "generate" /\ ~lock
    /\ LET i == CurrentRule
       IN  /\ Candidates(wk.rules[i].injections[wk.inj]) = {}
           /\ \E R \in ReleasedInAnyOrder(ipam, CidrsOf(wk.raw)) : ipam' = Forget(ipam, R)
           /\ wk' = Proceed([wk EXCEPT !.todo = @ \ {i}, !.inj = 1, !.raw = {},
                                       !.tmp = NoTmpParents, !.err = TRUE])
    /\ UNCHANGED <<clusters, ccs, queue, used, workerUnchanged>>

-----------------------------------------------------------------------------
(* The end of handleCreateOrUpdate                                         *)

(* A merge patch on the name of the Cluster: it carries neither uid nor    *)
(* resourceVersion.  The webhook may reject it or add references to it.    *)
(* An error does not keep the rest from being applied.                     *)
PatchAnnotation ==
    /\ wk.pc = "annotate"
    /\ \/ /\ Exists(clusters[wk.c]) /\ Admitted
          /\ clusters' = [clusters EXCEPT ![wk.c] = Default([@ EXCEPT !.ann = wk.ann], TRUE)]
          /\ \E ok \in BOOLEAN :
                /\ Answered("patch", ok)
                /\ wk' = [wk EXCEPT !.pc = "apply", !.err = @ \/ ~ok]
       \/ /\ ~Exists(clusters[wk.c]) \/ ~Admitted
          /\ wk' = [wk EXCEPT !.pc = "apply", !.err = TRUE]
          /\ UNCHANGED <<clusters, used>>
       \/ /\ ApiFails("patch")
          /\ wk' = [wk EXCEPT !.pc = "apply", !.err = TRUE]
          /\ UNCHANGED clusters
    /\ UNCHANGED <<ccs, ipam, queue, workerUnchanged>>

ApplyCreates ==
    /\ wk.pc = "apply"
    /\ \E r \in Rule, ok \in BOOLEAN :
        /\ wk.create[r] # {}
        /\ ApplyCreate(wk.c, r, wk.cl.uid, wk.create[r], ok)
        /\ wk' = [wk EXCEPT !.create[r] = {}, !.err = @ \/ ~ok]
    /\ UNCHANGED <<ipam, proc, config, cfgQueued, lock>>

ApplyUpdates ==
    /\ wk.pc = "apply" /\ wk.create = NoInjections
    /\ \E r \in Rule, ok \in BOOLEAN :
        /\ Exists(wk.update[r])
        /\ ApplyUpdate(wk.c, r, wk.update[r], ok)
        /\ wk' = [wk EXCEPT !.update[r] = NoObject, !.err = @ \/ ~ok]
    /\ UNCHANGED <<ipam, proc, config, cfgQueued, lock>>

FinishCreateOrUpdate ==
    /\ wk.pc = "apply" /\ wk.create = NoInjections /\ wk.update = NoUpdates
    /\ Return(wk.c, wk.err)
    /\ UNCHANGED <<clusters, ccs, ipam, used, workerUnchanged>>

-----------------------------------------------------------------------------
(* handleDelete                                                            *)

ListForDelete ==
    /\ wk.pc = "delList"
    /\ wk' = [wk EXCEPT !.pc = "delRelease", !.del = ccs[wk.c]]
    /\ UNCHANGED <<clusters, ccs, ipam, queue, used, workerUnchanged>>

ListForDeleteFails ==
    /\ wk.pc = "delList"
    /\ ApiFails("list")
    /\ Return(wk.c, TRUE)
    /\ UNCHANGED <<clusters, ccs, ipam, workerUnchanged>>

ReleaseForDelete ==
    /\ wk.pc = "delRelease" /\ ~lock
    /\ \E r \in Rule, ok \in BOOLEAN :
        /\ Exists(wk.del[r])
        /\ ReleaseCIDRs(wk.c, r, wk.del[r], ok)
        /\ wk' = [wk EXCEPT !.pc = "delDelete", !.r = r, !.err = @ \/ ~ok]
    /\ UNCHANGED <<proc, config, cfgQueued, lock>>

DeleteForDelete ==
    /\ wk.pc = "delDelete"
    /\ \E ok \in BOOLEAN :
        /\ DeleteClusterConfig(wk.c, wk.r, ok)
        /\ wk' = [wk EXCEPT !.pc = "delRelease", !.del[wk.r] = NoObject, !.err = @ \/ ~ok]
    /\ UNCHANGED <<ipam, proc, config, cfgQueued, lock>>

FinishDelete ==
    /\ wk.pc = "delRelease" /\ wk.del = NoConfigs
    /\ Return(wk.c, wk.err)
    /\ UNCHANGED <<clusters, ccs, ipam, used, workerUnchanged>>

ClusterReconcile ==
    \/ \E c \in Cluster : FetchCluster(c) \/ FetchClusterFails(c)
    \/ RemoveOperationAnnotation
    \/ GetConfigAgain \/ ManageInjections \/ ManageInjectionsFails
    \/ GenerateInjection \/ GenerateInjectionFails
    \/ PatchAnnotation
    \/ ApplyCreates \/ ApplyUpdates \/ FinishCreateOrUpdate
    \/ ListForDelete \/ ListForDeleteFails
    \/ ReleaseForDelete \/ DeleteForDelete \/ FinishDelete
=============================================================================
