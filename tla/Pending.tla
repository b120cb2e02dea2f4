------------------------------- MODULE Pending -------------------------------
(***************************************************************************)
(* Why a service at rest is finished: the inductive invariants behind the  *)
(* Quiet properties of GardenerIpam.tla.  Whatever is still to be done for *)
(* a Cluster, its name is queued, or the worker has it in hand and will    *)
(* finish it or queue it again; and somebody answers for whatever range is *)
(* blocked.                                                                *)
(***************************************************************************)
EXTENDS Claims

(* The config that the service was installed with stays.  (When it changes *)
(* a request may come too early, see the run lost_trigger.)                *)
ConfigStays == UserActions \cap {"config", "configMeta"} = {}

(* The config in force, in the hands of every part. *)
Fixed ==
    /\ Exists(stored) /\ stored.op = "none" /\ ~stored.deleting
    /\ proc # "down" => config = stored.spec
    /\ cf.pc # "idle" => proc = "running" /\ cf.pc # "operation"
    /\ cf.pc \in {"queue", "set"} => cf.cfg = stored.spec /\ ~cf.deleting

(* No ClusterConfig is empty. *)
Filled == \A c \in Cluster, r \in Rule : Live(ccs[c][r]) => ccs[c][r].patches # {}

-----------------------------------------------------------------------------
(* Clusters that are to be served.                                         *)

Working == wk.pc \in {"config", "list", "generate", "annotate", "apply"}

Applied(rules, purpose, ann) ==
    \A i \in DOMAIN rules : RuleMatches(rules[i], purpose) => ann[rules[i].id] # {}

Done(c) ==
    Matches(config, clusters[c].purpose) =>
        /\ Applied(config.rules, clusters[c].purpose, clusters[c].ann)
        /\ \A r \in Rule : clusters[c].ann[r] # {} => Live(ccs[c][r])

(* What the worker still has to do for the rules it has read, unless it    *)
(* has met an error.                                                       *)
OnTrack ==
    /\ \A i \in DOMAIN wk.rules :
        RuleMatches(wk.rules[i], wk.cl.purpose) => i \in wk.todo \/ wk.ann[wk.rules[i].id] # {}
    /\ \A r \in Rule : wk.ann[r] # {} => wk.create[r] # {} \/ Live(ccs[wk.c][r])
    /\ wk.pc # "generate" => wk.todo = {}
    /\ wk.pc = "apply" => clusters[wk.c].ann = wk.ann

(* The worker works with the current config and, as long as its Cluster    *)
(* exists, with the current state of it.                                   *)
InHand ==
    Working /\ Exists(clusters[wk.c]) =>
        /\ wk.rules = config.rules
        /\ wk.cl.purpose = clusters[wk.c].purpose
        /\ wk.pc # "apply" => clusters[wk.c].ann = wk.cl.ann
        /\ wk.pc \in {"config", "list"} \/ wk.err \/ OnTrack

Attended(c) == c \in queue \/ (wk.c = c /\ (Working \/ wk.pc = "operation"))

Served ==
    proc = "running" => \A c \in Cluster :
        Exists(clusters[c]) /\ clusters[c].op # "ignore" => Attended(c) \/ Done(c)

(* The references of a Cluster are those to the ClusterConfigs of the      *)
(* rules that match it; a placeholder stays until the annotation is        *)
(* written at the latest.                                                  *)
WellReferenced(cl) ==
    LET matching == MatchingRules(stored.spec, cl.purpose)
    IN  \/ cl.refs = matching
        \/ cl.refs = {Placeholder} /\ matching # {} /\ cl.ann = NoInjections

Referenced ==
    Webhooks => \A c \in Cluster : Exists(clusters[c]) => WellReferenced(clusters[c])

ServedInv == Fixed /\ Filled /\ InHand /\ Served /\ Referenced

-----------------------------------------------------------------------------
(* Clusters that are gone.                                                 *)

(* As long as nobody has intervened and the process has not crashed (a     *)
(* Cluster that is deleted while it is ignored, or between a Restore and   *)
(* the start of the watches, is noticed by nobody) ...                     *)
Calm == used.crashes = 0 /\ used.edits = 0

(* ... nothing has been written before the controllers run for the first   *)
(* time, ...                                                               *)
Fresh ==
    proc # "running" => \A c \in Cluster, r \in Rule :
        /\ Exists(clusters[c]) => clusters[c].ann[r] = {}
        /\ ~Exists(ccs[c][r])
        /\ Exists(rs.todo[c]) => rs.todo[c].ann[r] = {}
        /\ rs.create[r] = {}

NotIgnored ==
    /\ \A c \in Cluster : Exists(clusters[c]) => clusters[c].op = "none"
    /\ wk.pc # "operation"

(* ... and what a deleted Cluster has left is still to be released. *)
ReleasePending(c, r) ==
    \/ c \in queue
    \/ wk.c = c /\ wk.pc = "delList"
    \/ wk.c = c /\ wk.pc \in {"delRelease", "delDelete"} /\ (wk.err \/ Exists(wk.del[r]))

Released ==
    proc = "running" =>
        /\ Working /\ ~Exists(clusters[wk.c]) => wk.c \in queue
        /\ wk.pc = "delDelete" /\ ~wk.err => ~Live(ccs[wk.c][wk.r])
        /\ \A c \in Cluster, r \in Rule :
            ~Exists(clusters[c]) /\ Live(ccs[c][r]) => ReleasePending(c, r)

ReleasedInv == Calm => Fresh /\ NotIgnored /\ Released

-----------------------------------------------------------------------------
(* Ranges that are blocked.                                                *)

(* Each of these loses a range for good, until the next Restore: a CIDR    *)
(* inside another one of its rule is not released with it (its parent is   *)
(* gone by then); a ClusterConfig that is not created is retried from the  *)
(* annotation, which is gone if the Cluster is deleted first; and if the   *)
(* response to the removal of the finalizer is lost, the copy of the IPAM  *)
(* state in which the CIDRs were released is dropped.                      *)
Traceable ==
    /\ Undisturbed /\ Flat
    /\ "create" \notin FailingCalls
    /\ "release" \notin LostResponses

(* Somebody answers for the range x: a ClusterConfig with its finalizer,   *)
(* or the worker, which is going to write it to one or to give it back.    *)
Backed(x) ==
    \/ \E c \in Cluster, r \in Rule : Live(ccs[c][r]) /\ x \in CidrsOf(ccs[c][r].patches)
    \/ \E r \in Rule : x \in CidrsOf(wk.create[r])
    \/ x \in CidrsOf(wk.raw)

(* Every range below the top level is taken from a registered parent, and  *)
(* somebody answers for it.                                                *)
Accounted ==
    Ready => \A x \in Registered(ipam) : ipam[x] # NoCidr =>
        ipam[x] \in AllParents \cap Registered(ipam) /\ Backed(x)

(* The worker plans no ClusterConfig before it generates or after it has   *)
(* applied the last one.                                                   *)
PlannedLate == wk.pc \notin {"generate", "annotate", "apply"} => wk.create = NoInjections

(* What goes into the rebuilt IPAM state still has its finalizer, and is   *)
(* not among the orphans that may lose it.                                 *)
HandledLive ==
    \A c \in Cluster, r \in Rule : Exists(rs.handled[c][r]) =>
        rs.pc # "listCCs" /\ ~Exists(rs.rest[c][r]) /\ Live(ccs[c][r])

(* No range is blocked that nobody answers for: between any two calls,     *)
(* whatever the IPAM state has below its top level was taken from a        *)
(* registered parent and is in a ClusterConfig that will be released, or   *)
(* in the hands of the worker (handleCreateOrUpdate, handleDelete, the     *)
(* Restore).                                                               *)
AccountsHold == Accounted /\ PlannedLate /\ HandledLive

-----------------------------------------------------------------------------
(* Whatever is unfinished is queued or in hand: between any two calls,     *)
(* every Cluster that rules match is served, queued or in the hands of the *)
(* worker with all that is missing still planned; and without a crash or   *)
(* an intervention the same goes for the release of what a deleted Cluster *)
(* has left (reconcile, handleCreateOrUpdate, handleDelete).               *)
PendingHolds == ServedInv /\ ReleasedInv
=============================================================================
