------------------------------ MODULE LeakProofs ------------------------------
(***************************************************************************)
(* Why no range is lost (Accounted, Pending.tla): whatever is blocked      *)
(* below a parent is in a ClusterConfig with its finalizer or in the hands *)
(* of the worker, and when it is given back, all of it is released.        *)
(***************************************************************************)
EXTENDS QuietProofs

-----------------------------------------------------------------------------
(* Who answers for a range.                                                *)

(* No ClusterConfig loses its finalizer or its patches. *)
ConfigsLive ==
    \A c \in Cluster, r \in Rule : Live(ccs[c][r]) =>
        Live(ccs'[c][r]) /\ ccs'[c][r].patches = ccs[c][r].patches

(* Nothing of it happens as long as no object changes. *)
LEMMA UnchangedLive ==
    ASSUME UNCHANGED ccs
    PROVE  ConfigsLive
  BY DEF ConfigsLive

(* The kinds of steps that keep what is held. *)
LEMMA KindLive ==
    ASSUME \/ Keeps
           \/ \E h \in Cluster : Arrives(h) \/ Leaves(h) \/ Grants(h)
    PROVE  ConfigsLive
  <1>1. CASE Keeps
    BY <1>1 DEF Keeps, SameConfig, ConfigsLive
  <1>2. ASSUME NEW h \in Cluster, Grants(h)
        PROVE  ConfigsLive
    BY <1>2 DEF Grants, SameConfig, ConfigsLive
  <1>3. CASE UNCHANGED ccs
    BY <1>3, UnchangedLive
  <1> QED BY <1>1, <1>2, <1>3 DEF Arrives, Leaves

(* What is written down or planned stays so. *)
LEMMA BackedKept ==
    ASSUME ConfigsLive, wk.raw = {} \/ wk'.raw = wk.raw,
           \A r \in Rule : wk.create[r] = {} \/ wk'.create[r] = wk.create[r]
    PROVE  \A x : Backed(x) => Backed(x)'
  <1> SUFFICES ASSUME NEW x, Backed(x) PROVE Backed(x)'
    OBVIOUS
  <1>1. ASSUME NEW c \in Cluster, NEW r \in Rule, Live(ccs[c][r]), x \in CidrsOf(ccs[c][r].patches)
        PROVE  Backed(x)'
    <2>1. Live(ccs'[c][r]) /\ x \in CidrsOf(ccs'[c][r].patches)
      BY <1>1 DEF ConfigsLive
    <2> QED BY <2>1 DEF Backed, Live, Exists
  <1>2. ASSUME NEW r \in Rule, x \in CidrsOf(wk.create[r])
        PROVE  Backed(x)'
    <2>1. wk.create[r] # {}
      BY <1>2 DEF CidrsOf
    <2> QED BY <1>2, <2>1 DEF Backed
  <1>3. ASSUME x \in CidrsOf(wk.raw)
        PROVE  Backed(x)'
    <2>1. wk.raw # {}
      BY <1>3 DEF CidrsOf
    <2> QED BY <1>3, <2>1 DEF Backed
  <1> QED BY <1>1, <1>2, <1>3 DEF Backed

(* A step that leaves the IPAM state alone. *)
LEMMA AccountedKept ==
    ASSUME Accounted, UNCHANGED ipam, Ready' => Ready, \A x : Backed(x) => Backed(x)'
    PROVE  Accounted'
  BY DEF Accounted, Registered

-----------------------------------------------------------------------------
(* The IPAM state.                                                         *)

(* Claims are no parents. *)
LEMMA ClaimNoParent ==
    ASSUME Undisturbed, NEW G \in ClaimMap, InsideParents(G), NEW c \in Cluster, NEW r \in Rule
    PROVE  CidrsOf(G[c][r]) \cap AllParents = {}
  <1> SUFFICES ASSUME NEW x \in CidrsOf(G[c][r]) PROVE x \notin AllParents
    OBVIOUS
  <1>1. x \in CIDR
    BY ClaimCidrs
  <1>2. PICK a \in AllParents : StrictlyContains(a, x)
    BY DEF InsideParents
  <1> QED BY <1>1, <1>2, InsideNoParent

(* Below a parent, whatever is to be released is released, whatever the    *)
(* order.                                                                  *)
LEMMA GivenBack ==
    ASSUME NEW st, NEW S, S \cap AllParents = {}, NEW R \in SUBSET (S \cap DOMAIN st),
           \A x \in DOMAIN st : st[x] # NoCidr => st[x] \in AllParents \cap DOMAIN st,
           \A x \in (S \cap DOMAIN st) \ R : st[x] \in R \/ st[x] \notin DOMAIN st,
           NEW x \in DOMAIN Forget(st, R), Forget(st, R)[x] # NoCidr
    PROVE  /\ x \in DOMAIN st /\ st[x] # NoCidr /\ x \notin S
           /\ Forget(st, R)[x] \in AllParents \cap DOMAIN Forget(st, R)
  <1>1. DOMAIN Forget(st, R) = DOMAIN st \ R /\ Forget(st, R)[x] = st[x]
    BY DEF Forget
  <1>2. x \in DOMAIN st /\ x \notin R /\ st[x] \in AllParents \cap DOMAIN st
    BY <1>1
  <1>3. st[x] \notin R
    BY <1>2
  <1> QED BY <1>1, <1>2, <1>3

(* A new range comes from a registered parent. *)
LEMMA TakenFrom ==
    ASSUME NEW st, NEW p, p \in AllParents \cap DOMAIN st, NEW cidr, cidr \notin DOMAIN st,
           \A x \in DOMAIN st : st[x] # NoCidr => st[x] \in AllParents \cap DOMAIN st,
           NEW x \in DOMAIN Record(st, cidr, p), Record(st, cidr, p)[x] # NoCidr
    PROVE  /\ x = cidr \/ (x \in DOMAIN st /\ st[x] # NoCidr)
           /\ Record(st, cidr, p)[x] \in AllParents \cap DOMAIN Record(st, cidr, p)
  <1>1. /\ DOMAIN Record(st, cidr, p) = DOMAIN st \cup {cidr}
        /\ Record(st, cidr, p)[x] = IF x = cidr THEN p ELSE st[x]
    BY DEF Record
  <1> QED BY <1>1

-----------------------------------------------------------------------------
(* The Cluster controller.                                                 *)

(* While it runs there is no Restore. *)
LEMMA WorkerHandled ==
    ASSUME Steady, proc = "running", UNCHANGED rs
    PROVE  HandledLive'
  <1>1. rs'.handled = NoClusterConfigs
    BY DEF Steady, Phases, IdleRestore
  <1> QED BY <1>1 DEF HandledLive, NoClusterConfigs, NoConfigs, Exists

(* A step that leaves the IPAM state alone and forgets nothing. *)
LEMMA WorkerAccounts ==
    ASSUME Steady, Accounted, proc = "running", UNCHANGED <<ipam, proc, rs>>, ConfigsLive,
           wk.raw = {} \/ wk'.raw = wk.raw,
           \A r \in Rule : wk.create[r] = {} \/ wk'.create[r] = wk.create[r],
           wk'.create = NoInjections \/ wk'.pc \in {"generate", "annotate", "apply"}
    PROVE  AccountsHold'
  <1>1. \A x : Backed(x) => Backed(x)'
    BY BackedKept
  <1>2. Ready' => Ready
    BY DEF Ready
  <1>3. Accounted'
    BY <1>1, <1>2, AccountedKept
  <1>4. HandledLive'
    BY WorkerHandled
  <1>5. PlannedLate'
    BY DEF PlannedLate, NoInjections
  <1> QED BY <1>3, <1>4, <1>5 DEF AccountsHold

(* reconcile and handleDelete, as far as they do not touch the IPAM state: *)
(* the worker has nothing planned.                                         *)
LEMMA EmptyHandedAccounts ==
    ASSUME IndInv, Steady, NEW G, ClaimsOK(G), AccountsHold, UNCHANGED rs,
           \/ \E c \in Cluster : FetchCluster(c) \/ FetchClusterFails(c)
           \/ RemoveOperationAnnotation \/ GetConfigAgain \/ ManageInjectionsFails
           \/ FinishCreateOrUpdate
           \/ ListForDelete \/ ListForDeleteFails \/ FinishDelete
    PROVE  AccountsHold'
  <1>0. /\ wk.pc \in {"idle", "operation", "config", "list", "apply", "delList", "delRelease"}
        /\ wk.pc = "apply" => wk.create = NoInjections
        /\ UNCHANGED <<ccs, ipam, proc>>
    BY DEF FetchCluster, FetchClusterFails, RemoveOperationAnnotation, GetConfigAgain,
       ManageInjectionsFails, FinishCreateOrUpdate, ListForDelete, ListForDeleteFails,
       FinishDelete, workerUnchanged
  <1>1. /\ wk.create = NoInjections
        /\ wk.pc \in {"idle", "operation", "config", "list", "apply", "delList", "delRelease"}
        /\ UNCHANGED <<ccs, ipam, proc>>
    BY <1>0 DEF AccountsHold, PlannedLate
  <1>2. wk.raw = {} /\ \A r \in Rule : wk.create[r] = {}
    BY <1>1 DEF ClaimsOK, WorkerClaims, WorkerScratch, NoInjections
  <1>3. proc = "running"
    BY <1>1, WorkerRuns
       DEF FetchCluster, FetchClusterFails, RemoveOperationAnnotation, GetConfigAgain,
           ManageInjectionsFails, FinishCreateOrUpdate, ListForDelete, ListForDeleteFails, FinishDelete
  <1>4. wk \in Worker
    BY DEF IndInv, ServiceOK, WorkerOK
  <1>5. \A c, cl : SelectRules(c, cl) => wk'.create = NoInjections
    <2> SUFFICES ASSUME NEW c, NEW cl, SelectRules(c, cl) PROVE wk'.create = NoInjections
      OBVIOUS
    <2>1. CASE wk' = IdleWorker
      BY <2>1 DEF IdleWorker
    <2>2. CASE wk' = [IdleWorker EXCEPT !.pc = "config", !.c = c, !.cl = cl, !.rules = config.rules]
      BY <2>2 DEF IdleWorker
    <2> QED BY <2>1, <2>2 DEF SelectRules
  <1>6. \A c, failed : Return(c, failed) => wk'.create = NoInjections
    BY DEF Return, IdleWorker
  <1>7. wk'.create = NoInjections
    <2>1. ASSUME NEW c \in Cluster, FetchCluster(c)
          PROVE  wk'.create = NoInjections
      <3>1. CASE wk' = [IdleWorker EXCEPT !.pc = "delList", !.c = c]
        BY <3>1 DEF IdleWorker
      <3>2. CASE wk' = IdleWorker
        BY <3>2 DEF IdleWorker
      <3>3. CASE wk' = [IdleWorker EXCEPT !.pc = "operation", !.c = c, !.cl = clusters[c]]
        BY <3>3 DEF IdleWorker
      <3>4. CASE SelectRules(c, clusters[c])
        BY <1>5, <3>4
      <3> QED BY <2>1, <3>1, <3>2, <3>3, <3>4 DEF FetchCluster
    <2>2. ASSUME NEW c \in Cluster, FetchClusterFails(c)
          PROVE  wk'.create = NoInjections
      BY <1>1, <2>2 DEF FetchClusterFails
    <2>3. CASE RemoveOperationAnnotation
      BY <1>5, <1>6, <2>3 DEF RemoveOperationAnnotation
    <2>4. CASE ManageInjectionsFails \/ FinishCreateOrUpdate \/ ListForDeleteFails \/ FinishDelete
      BY <1>6, <2>4 DEF ManageInjectionsFails, FinishCreateOrUpdate, ListForDeleteFails, FinishDelete
    <2>5. CASE ListForDelete
      BY <1>1, <1>4, <2>5 DEF ListForDelete, Worker
    <2>6. CASE GetConfigAgain
      BY <1>1, <1>4, <2>6 DEF GetConfigAgain, Worker
    <2> QED BY <2>1, <2>2, <2>3, <2>4, <2>5, <2>6
  <1> QED BY <1>1, <1>2, <1>3, <1>7, UnchangedLive, WorkerAccounts DEF AccountsHold

(* handleCreateOrUpdate: the ClusterConfigs are planned, or the annotation *)
(* is patched.                                                             *)
LEMMA PlanAccounts ==
    ASSUME IndInv, Steady, NEW G, ClaimsOK(G), AccountsHold, UNCHANGED rs,
           ManageInjections \/ PatchAnnotation
    PROVE  AccountsHold'
  <1>1. UNCHANGED <<ccs, ipam, proc>> /\ wk.pc \in {"list", "annotate"} /\ wk \in Worker
    BY DEF ManageInjections, PatchAnnotation, workerUnchanged, IndInv, ServiceOK, WorkerOK
  <1>2. proc = "running" /\ wk.raw = {}
    BY <1>1, WorkerRuns DEF ClaimsOK, WorkerClaims, WorkerScratch
  <1>3. CASE ManageInjections
    <2>1. \A r \in Rule : wk.create[r] = {}
      <3>1. wk.pc = "list"
        BY <1>3 DEF ManageInjections
      <3>2. wk.create = NoInjections
        BY <3>1 DEF AccountsHold, PlannedLate
      <3> QED BY <3>2 DEF NoInjections
    <2> DEFINE listed  == ccs[wk.c]
               applied == AppliedRules(wk.cl.ann, listed)
               new     == NewRules(applied, listed)
               todo    == {i \in new : ~HasIssue(wk.rules[i], applied)}
               ri      == CheckClusterConfigs(applied, listed)
               odd     == \E i \in new : RulePaths(wk.rules[i]) \cap OddPath # {}
               w       == [wk EXCEPT !.todo = todo, !.ann = applied,
                                     !.create = ri.create, !.update = ri.update,
                                     !.err = (todo # new \/ odd)]
    <2>2. wk'.create = NoInjections \/ wk'.pc \in {"generate", "annotate", "apply"}
      <3>1. CASE Return(wk.c, TRUE)
        BY <3>1 DEF Return, IdleWorker
      <3>2. CASE wk' = Proceed(w)
        <4> HIDE DEF listed, applied, new, todo, ri, odd
        <4> QED BY <1>1, <3>2 DEF Proceed, Worker
      <3> QED BY <1>3, <3>1, <3>2 DEF ManageInjections
    <2> QED BY <1>1, <1>2, <2>1, <2>2, UnchangedLive, WorkerAccounts DEF AccountsHold
  <1>4. CASE PatchAnnotation
    <2>1. wk'.pc = "apply" /\ wk'.create = wk.create
      BY <1>1, <1>4 DEF PatchAnnotation, Worker
    <2> QED BY <1>1, <1>2, <2>1, UnchangedLive, WorkerAccounts DEF AccountsHold
  <1> QED BY <1>3, <1>4

(* A step of the worker after which each range was accounted for before or *)
(* is accounted for now.                                                   *)
LEMMA WorkerReaccounts ==
    ASSUME Steady, AccountsHold, proc = "running", UNCHANGED <<proc, rs>>,
           \A x \in DOMAIN ipam' : ipam'[x] # NoCidr =>
                ipam'[x] \in AllParents \cap DOMAIN ipam' /\ Backed(x)',
           wk'.create = NoInjections \/ wk'.pc \in {"generate", "annotate", "apply"}
    PROVE  AccountsHold'
  <1>1. HandledLive'
    BY WorkerHandled
  <1>2. PlannedLate'
    BY DEF PlannedLate, NoInjections
  <1>3. Accounted'
    BY DEF Accounted, Registered
  <1> QED BY <1>1, <1>2, <1>3 DEF AccountsHold

(* What holds of the IPAM state while the worker works. *)
LEMMA RunningAccounted ==
    ASSUME AccountsHold, proc = "running"
    PROVE  \A x \in DOMAIN ipam : ipam[x] # NoCidr =>
                ipam[x] \in AllParents \cap DOMAIN ipam /\ Backed(x)
  BY DEF AccountsHold, Accounted, Registered, Ready

(* generateCIDRsForInjectionRule: the acquired CIDR is in the hands of the *)
(* worker, in what it has for the rule or in the planned ClusterConfig.    *)
LEMMA GenerateInjectionAccounts ==
    ASSUME Traceable, IndInv, Steady, NEW G \in ClaimMap, ClaimsOK(G), AccountsHold,
           GenerateInjection, UNCHANGED rs
    PROVE  AccountsHold'
  <1> DEFINE i    == CurrentRule
             rule == wk.rules[i]
             inj  == rule.injections[wk.inj]
             rid  == rule.id
  <1>1. wk.pc = "generate" /\ UNCHANGED <<ccs, proc>>
    BY DEF GenerateInjection, workerUnchanged
  <1>2. /\ wk \in Worker /\ wk.c \in Cluster /\ i \in wk.todo /\ rid \in Rule
        /\ i \in DOMAIN wk.rules
        /\ rule.injections \in Seq(SingleCIDRInjection) /\ wk.inj \in DOMAIN rule.injections
        /\ proc = "running"
    BY <1>1, GeneratingType, WorkerRuns DEF IndInv, ServiceOK
  <1>3. inj \in SingleCIDRInjection /\ inj.paths \in SUBSET Path /\ inj.paths # {}
    <2>1. inj \in SingleCIDRInjection
      BY <1>2, SeqElement
    <2>2. inj.paths # {}
      BY <1>2 DEF ClaimsOK, WorkerClaims, WorkerScratch, RulesOK
    <2> QED BY <2>1, <2>2 DEF SingleCIDRInjection
  <1>3a. PICK p \in Candidates(inj) : \E cidr \in FreeChildren(ipam, p, inj.size) :
            LET raw == wk.raw \cup [path: inj.paths, cidr: {cidr}]
            IN  /\ ipam' = Record(ipam, cidr, p)
                /\ wk' = IF wk.inj < Len(rule.injections)
                         THEN [wk EXCEPT !.inj = @ + 1, !.raw = raw,
                                         !.tmp = [id \in Id |-> IF id = inj.id THEN cidr ELSE @[id]]]
                         ELSE Proceed([wk EXCEPT !.todo = @ \ {i}, !.inj = 1, !.raw = {},
                                                 !.tmp = NoTmpParents,
                                                 !.ann[rule.id] = raw, !.create[rule.id] = raw])
    BY DEF GenerateInjection
  <1>4. PICK cidr \in FreeChildren(ipam, p, inj.size) :
            LET raw == wk.raw \cup [path: inj.paths, cidr: {cidr}]
            IN  /\ ipam' = Record(ipam, cidr, p)
                /\ wk' = IF wk.inj < Len(rule.injections)
                         THEN [wk EXCEPT !.inj = @ + 1, !.raw = raw,
                                         !.tmp = [id \in Id |-> IF id = inj.id THEN cidr ELSE @[id]]]
                         ELSE Proceed([wk EXCEPT !.todo = @ \ {i}, !.inj = 1, !.raw = {},
                                                 !.tmp = NoTmpParents,
                                                 !.ann[rule.id] = raw, !.create[rule.id] = raw])
    BY <1>3a
  <1> DEFINE raw == wk.raw \cup [path: inj.paths, cidr: {cidr}]
             tmp == [id \in Id |-> IF id = inj.id THEN cidr ELSE wk.tmp[id]]
             w1  == [wk EXCEPT !.inj = @ + 1, !.raw = raw, !.tmp = tmp]
             w2  == [wk EXCEPT !.todo = @ \ {i}, !.inj = 1, !.raw = {}, !.tmp = NoTmpParents,
                               !.ann[rid] = raw, !.create[rid] = raw]
  <1>5. cidr \in CIDR /\ cidr \notin DOMAIN ipam /\ p \in DOMAIN ipam
    BY DEF FreeChildren
  <1>6. raw \in SUBSET Patch
    BY <1>2, <1>3, <1>5 DEF Patch, Worker
  <1>7. CidrsOf(raw) = CidrsOf(wk.raw) \cup {cidr}
    <2>1. \A x \in [path: inj.paths, cidr: {cidr}] : x.cidr = cidr
      OBVIOUS
    <2>2. PICK q \in inj.paths : TRUE
      BY <1>3
    <2>3. [path |-> q, cidr |-> cidr] \in [path: inj.paths, cidr: {cidr}]
      OBVIOUS
    <2> QED BY <2>1, <2>3 DEF CidrsOf
  <1>8. p \in AllParents
    BY <1>1, <1>3, CandidateOrigin DEF Traceable
  <1>9. wk.create[rid] = {}
    BY <1>1, <1>2 DEF ClaimsOK, WorkerClaims, Generating, Untouched
  <1>10. /\ \A x \in CidrsOf(raw) : Backed(x)'
         /\ \A r \in Rule : wk.create[r] = {} \/ wk'.create[r] = wk.create[r]
         /\ wk'.pc \in {"generate", "annotate", "apply"}
    <2>1. CASE wk.inj < Len(rule.injections)
      <3>1. wk' = w1
        BY <1>4, <2>1
      <3> HIDE DEF raw, tmp
      <3>2. wk'.raw = raw /\ wk'.create = wk.create /\ wk'.pc = wk.pc
        BY <1>2, <3>1 DEF Worker
      <3> QED BY <1>1, <3>2 DEF Backed
    <2>2. CASE ~(wk.inj < Len(rule.injections))
      <3>1. wk' = Proceed(w2)
        BY <1>4, <2>2
      <3> HIDE DEF raw
      <3>2. w2 \in Worker /\ w2.create = [wk.create EXCEPT ![rid] = raw]
        BY <1>2, <1>6, NothingType DEF Worker
      <3> HIDE DEF w2
      <3>3. wk'.create = [wk.create EXCEPT ![rid] = raw] /\ wk'.pc \in {"generate", "annotate", "apply"}
        BY <3>1, <3>2, ProceedFields
      <3>4. \A r \in Rule : wk'.create[r] = IF r = rid THEN raw ELSE wk.create[r]
        <4>1. wk.create \in [Rule -> SUBSET Patch]
          BY <1>2 DEF Worker
        <4> QED BY <3>3, <4>1
      <3>5. \A x \in CidrsOf(raw) : Backed(x)'
        BY <1>2, <3>4 DEF Backed
      <3> QED BY <1>9, <3>3, <3>4, <3>5
    <2> QED BY <2>1, <2>2
  <1> HIDE DEF raw
  <1>11. ASSUME NEW x, Backed(x)
         PROVE  Backed(x)'
    <2>1. CASE \E c \in Cluster, r \in Rule : Live(ccs[c][r]) /\ x \in CidrsOf(ccs[c][r].patches)
      BY <1>1, <2>1 DEF Backed, Live, Exists
    <2>2. ASSUME NEW r \in Rule, x \in CidrsOf(wk.create[r])
          PROVE  Backed(x)'
      <3>1. wk.create[r] # {}
        BY <2>2 DEF CidrsOf
      <3> QED BY <1>10, <2>2, <3>1 DEF Backed
    <2>3. CASE x \in CidrsOf(wk.raw)
      BY <1>7, <1>10, <2>3
    <2> QED BY <1>11, <2>1, <2>2, <2>3 DEF Backed
  <1>12. ASSUME NEW x \in DOMAIN ipam', ipam'[x] # NoCidr
         PROVE  ipam'[x] \in AllParents \cap DOMAIN ipam' /\ Backed(x)'
    <2>1. \A y \in DOMAIN ipam : ipam[y] # NoCidr =>
                ipam[y] \in AllParents \cap DOMAIN ipam /\ Backed(y)
      BY <1>2, RunningAccounted
    <2>2. ipam' = Record(ipam, cidr, p)
      BY <1>4
    <2>3. /\ x = cidr \/ (x \in DOMAIN ipam /\ ipam[x] # NoCidr)
          /\ ipam'[x] \in AllParents \cap DOMAIN ipam'
      BY <1>5, <1>8, <1>12, <2>1, <2>2, TakenFrom
    <2> QED BY <1>7, <1>10, <1>11, <2>1, <2>3
  <1> QED BY <1>1, <1>2, <1>10, <1>12, WorkerReaccounts

(* What the rule acquired is given back. *)
LEMMA GenerateInjectionFailsAccounts ==
    ASSUME Traceable, IndInv, Steady, NEW G \in ClaimMap, ClaimsOK(G), AccountsHold,
           GenerateInjectionFails, UNCHANGED rs
    PROVE  AccountsHold'
  <1> DEFINE i   == CurrentRule
             rid == wk.rules[i].id
             S   == CidrsOf(wk.raw)
             w   == [wk EXCEPT !.todo = @ \ {i}, !.inj = 1, !.raw = {},
                               !.tmp = NoTmpParents, !.err = TRUE]
  <1>1. /\ wk.pc = "generate" /\ UNCHANGED <<ccs, proc>>
        /\ wk' = Proceed(w)
        /\ \E R \in ReleasedInAnyOrder(ipam, S) : ipam' = Forget(ipam, R)
    BY DEF GenerateInjectionFails, workerUnchanged
  <1>2. wk \in Worker /\ wk.c \in Cluster /\ rid \in Rule /\ proc = "running"
    BY <1>1, GeneratingType, WorkerRuns DEF IndInv, ServiceOK
  <1>3. w \in Worker /\ w.create = wk.create
    BY <1>2, NothingType DEF Worker
  <1> HIDE DEF w
  <1>4. wk'.create = wk.create /\ wk'.pc \in {"generate", "annotate", "apply"}
    BY <1>1, <1>3, ProceedFields
  <1>5. S \cap AllParents = {}
    <2>1. CidrsOf(G[wk.c][rid]) \cap AllParents = {}
      BY <1>2, ClaimNoParent DEF ClaimsOK, Traceable
    <2>2. Copy(wk.raw, G[wk.c][rid])
      BY <1>1 DEF ClaimsOK, WorkerClaims, Generating
    <2> QED BY <2>1, <2>2 DEF Copy, CidrsOf
  <1>6. PICK R \in SUBSET (S \cap DOMAIN ipam) :
            /\ ipam' = Forget(ipam, R)
            /\ \A c \in (S \cap DOMAIN ipam) \ R : ipam[c] \in R \/ ipam[c] \notin DOMAIN ipam
    BY <1>1 DEF ReleasedInAnyOrder
  <1> HIDE DEF S
  <1>7. ASSUME NEW x \in DOMAIN ipam', ipam'[x] # NoCidr
        PROVE  ipam'[x] \in AllParents \cap DOMAIN ipam' /\ Backed(x)'
    <2>1. \A y \in DOMAIN ipam : ipam[y] # NoCidr =>
                ipam[y] \in AllParents \cap DOMAIN ipam /\ Backed(y)
      BY <1>2, RunningAccounted
    <2>2. /\ x \in DOMAIN ipam /\ ipam[x] # NoCidr /\ x \notin S
          /\ ipam'[x] \in AllParents \cap DOMAIN ipam'
      BY <1>5, <1>6, <1>7, <2>1, GivenBack
    <2>3. Backed(x) /\ x \notin CidrsOf(wk.raw)
      BY <2>1, <2>2 DEF S
    <2>4. Backed(x)'
      BY <1>1, <1>4, <2>3 DEF Backed, Live, Exists
    <2> QED BY <2>2, <2>4
  <1> QED BY <1>1, <1>2, <1>4, <1>7, WorkerReaccounts

(* RestorationInstruction.Apply: what was planned is in a ClusterConfig,   *)
(* this one or the one that exists already.                                *)
LEMMA ApplyCreatesAccounts ==
    ASSUME Traceable, IndInv, Steady, NEW G, ClaimsOK(G), AccountsHold,
           ApplyCreates, UNCHANGED rs
    PROVE  AccountsHold'
  <1>1. /\ wk.pc = "apply" /\ UNCHANGED <<ipam, proc>> /\ wk \in Worker /\ Exists(wk.cl)
        /\ proc = "running" /\ Ready /\ wk.c \in Cluster
    BY WorkerRuns DEF ApplyCreates, IndInv, ServiceOK, WorkerOK
  <1>2. PICK r \in Rule, ok \in BOOLEAN :
            /\ wk.create[r] # {}
            /\ ApplyCreate(wk.c, r, wk.cl.uid, wk.create[r], ok)
            /\ wk' = [wk EXCEPT !.create[r] = {}, !.err = @ \/ ~ok]
    BY DEF ApplyCreates
  <1>3. /\ wk'.pc = "apply" /\ wk'.raw = wk.raw
        /\ \A s \in Rule : s # r => wk'.create[s] = wk.create[s]
    BY <1>1, <1>2 DEF Worker
  <1>4. wk.create[r] = G[wk.c][r]
    BY <1>1, <1>2 DEF ClaimsOK, WorkerClaims, WorkerCopies, Copy
  <1> DEFINE cc == NewClusterConfig(wk.cl.uid, wk.create[r])
  <1>5. \/ ~Exists(ccs[wk.c][r]) /\ ccs' = [ccs EXCEPT ![wk.c][r] = cc]
        \/ Exists(ccs[wk.c][r]) /\ UNCHANGED ccs
    BY <1>2 DEF ApplyCreate, CreateClusterConfig, Traceable, ApiFails
  <1>6. ConfigsLive /\ Live(ccs'[wk.c][r]) /\ ccs'[wk.c][r].patches = wk.create[r]
    <2>1. CASE ~Exists(ccs[wk.c][r]) /\ ccs' = [ccs EXCEPT ![wk.c][r] = cc]
      <3>1. wk.cl.uid \in Nat /\ wk.create[r] \in SUBSET Patch
        BY <1>1 DEF Worker, ClusterObject, Exists
      <3>2. cc \in ClusterConfig /\ cc.fin /\ cc.patches = wk.create[r]
        BY <3>1 DEF NewClusterConfig, ClusterConfig
      <3>3. Live(cc)
        BY <3>2, NoObjectType DEF Live, Exists
      <3> HIDE DEF cc
      <3>4. \A d \in Cluster, s \in Rule :
                ccs'[d][s] = IF d = wk.c /\ s = r THEN cc ELSE ccs[d][s]
        BY <1>1, <2>1 DEF IndInv, ServiceOK, ApiOK
      <3>5. ConfigsLive
        BY <2>1, <3>4 DEF ConfigsLive, Live
      <3> QED BY <1>1, <3>2, <3>3, <3>4, <3>5
    <2>2. CASE Exists(ccs[wk.c][r]) /\ UNCHANGED ccs
      <3>1. ccs[wk.c][r].fin
        BY <1>1, <2>2 DEF Steady, Finalized
      <3>2. ccs[wk.c][r].patches = G[wk.c][r]
        BY <1>1, <2>2, <3>1 DEF ClaimsOK, ClusterConfigCopies
      <3> QED BY <1>4, <2>2, <3>1, <3>2, UnchangedLive DEF Live
    <2> QED BY <1>5, <2>1, <2>2
  <1>7. ASSUME NEW x, Backed(x)
        PROVE  Backed(x)'
    <2>1. ASSUME NEW c \in Cluster, NEW s \in Rule, Live(ccs[c][s]), x \in CidrsOf(ccs[c][s].patches)
          PROVE  Backed(x)'
      <3>1. Live(ccs'[c][s]) /\ x \in CidrsOf(ccs'[c][s].patches)
        BY <1>6, <2>1 DEF ConfigsLive
      <3> QED BY <3>1 DEF Backed, Live, Exists
    <2>2. ASSUME NEW s \in Rule, x \in CidrsOf(wk.create[s])
          PROVE  Backed(x)'
      <3>1. CASE s = r
        BY <1>1, <1>6, <2>2, <3>1 DEF Backed, Live, Exists
      <3>2. CASE s # r
        BY <1>3, <2>2, <3>2 DEF Backed
      <3> QED BY <3>1, <3>2
    <2>3. CASE x \in CidrsOf(wk.raw)
      BY <1>3, <2>3 DEF Backed
    <2> QED BY <1>7, <2>1, <2>2, <2>3 DEF Backed
  <1>8. \A x \in DOMAIN ipam' : ipam'[x] # NoCidr =>
            ipam'[x] \in AllParents \cap DOMAIN ipam' /\ Backed(x)'
    BY <1>1, <1>7, RunningAccounted
  <1> QED BY <1>1, <1>3, <1>8, WorkerReaccounts

(* releaseCIDRsForClusterConfig_internal, unless the response is lost: the *)
(* finalizer goes only together with the CIDRs.                            *)
LEMMA ReleasedTogether ==
    ASSUME Traceable, IndInv, NEW c \in Cluster, NEW r \in Rule, NEW cc, cc.fin, NEW ok,
           ReleaseCIDRs(c, r, cc, ok)
    PROVE  \/ UNCHANGED <<ccs, ipam>>
           \/ /\ \A d \in Cluster, s \in Rule : <<d, s>> # <<c, r>> => ccs'[d][s] = ccs[d][s]
              /\ ipam' = Forget(ipam, ReleasedInOrder(ipam, CidrsOf(cc.patches)))
  <1> DEFINE R == ReleasedInOrder(ipam, CidrsOf(cc.patches))
             new == Persisted([ccs[c][r] EXCEPT !.fin = FALSE, !.foreign = cc.foreign])
  <1>1. \/ UNCHANGED <<ccs, ipam>>
        \/ /\ WriteClusterConfig(c, r, new)
           /\ Answered("release", ok)
           /\ ipam' = IF ok THEN Forget(ipam, R) ELSE ipam
    BY DEF ReleaseCIDRs
  <1> HIDE DEF R, new
  <1>2. Answered("release", ok) => ok
    BY DEF Answered, Traceable
  <1>3. WriteClusterConfig(c, r, new) =>
            \A d \in Cluster, s \in Rule : <<d, s>> # <<c, r>> => ccs'[d][s] = ccs[d][s]
    BY DEF WriteClusterConfig, IndInv, ServiceOK, ApiOK
  <1> QED BY <1>1, <1>2, <1>3 DEF R

(* handleDelete: what the ClusterConfig held is released with it. *)
LEMMA ReleaseForDeleteAccounts ==
    ASSUME Traceable, IndInv, Steady, NEW G \in ClaimMap, ClaimsOK(G), AccountsHold,
           ReleaseForDelete, UNCHANGED rs
    PROVE  AccountsHold'
  <1>1. /\ wk.pc = "delRelease" /\ UNCHANGED proc /\ wk \in Worker
        /\ proc = "running" /\ Ready /\ wk.c \in Cluster
    BY WorkerRuns DEF ReleaseForDelete, IndInv, ServiceOK, WorkerOK
  <1>2. PICK r \in Rule, ok \in BOOLEAN :
            /\ Exists(wk.del[r])
            /\ ReleaseCIDRs(wk.c, r, wk.del[r], ok)
            /\ wk' = [wk EXCEPT !.pc = "delDelete", !.r = r, !.err = @ \/ ~ok]
    BY DEF ReleaseForDelete
  <1>3. wk'.raw = wk.raw /\ wk'.create = wk.create
    BY <1>1, <1>2 DEF Worker
  <1>4. wk.create = NoInjections
    BY <1>1 DEF AccountsHold, PlannedLate
  <1>5. wk.del[r].fin /\ wk.del[r].patches = G[wk.c][r] /\ Live(ccs[wk.c][r])
    BY <1>1, <1>2 DEF ClaimsOK, WorkerClaims, Deleting, Listed, Live
  <1>6. ccs[wk.c][r].patches = G[wk.c][r]
    BY <1>1, <1>5 DEF ClaimsOK, ClusterConfigCopies, Live
  <1> DEFINE S == CidrsOf(G[wk.c][r])
             R == ReleasedInOrder(ipam, S)
  <1>7. \/ UNCHANGED <<ccs, ipam>>
        \/ /\ \A d \in Cluster, s \in Rule : <<d, s>> # <<wk.c, r>> => ccs'[d][s] = ccs[d][s]
           /\ ipam' = Forget(ipam, R)
    BY <1>1, <1>2, <1>5, ReleasedTogether
  <1>8. \A y \in DOMAIN ipam : ipam[y] # NoCidr =>
                ipam[y] \in AllParents \cap DOMAIN ipam /\ Backed(y)
    BY <1>1, RunningAccounted
  <1>9. CASE UNCHANGED <<ccs, ipam>>
    <2>1. \A x : Backed(x) => Backed(x)'
      BY <1>3, <1>9 DEF Backed, Live, Exists
    <2> QED BY <1>1, <1>3, <1>4, <1>8, <1>9, <2>1, WorkerReaccounts
  <1>10. CASE /\ \A d \in Cluster, s \in Rule : <<d, s>> # <<wk.c, r>> => ccs'[d][s] = ccs[d][s]
              /\ ipam' = Forget(ipam, R)
    <2>1. S \cap AllParents = {}
      BY <1>1, ClaimNoParent DEF ClaimsOK, Traceable
    <2>2. /\ R \in SUBSET (S \cap DOMAIN ipam)
          /\ \A x \in (S \cap DOMAIN ipam) \ R : ipam[x] \in R \/ ipam[x] \notin DOMAIN ipam
      <3>1. IsStore(ipam) /\ WellFormed(ipam)
        BY DEF IndInv, ServiceOK, StoreOK
      <3> HIDE DEF S
      <3> QED BY <3>1, ReleasedSubset
    <2> HIDE DEF R
    <2>3. ASSUME NEW x \in DOMAIN ipam', ipam'[x] # NoCidr
          PROVE  ipam'[x] \in AllParents \cap DOMAIN ipam' /\ Backed(x)'
      <3> HIDE DEF S
      <3>1. /\ x \in DOMAIN ipam /\ ipam[x] # NoCidr /\ x \notin S
            /\ ipam'[x] \in AllParents \cap DOMAIN ipam'
        BY <1>8, <1>10, <2>1, <2>2, <2>3, GivenBack
      <3>2. Backed(x)
        BY <1>8, <3>1
      <3>3. ASSUME NEW c \in Cluster, NEW s \in Rule, Live(ccs[c][s]), x \in CidrsOf(ccs[c][s].patches)
            PROVE  Backed(x)'
        <4>1. <<c, s>> # <<wk.c, r>>
          BY <1>6, <3>1, <3>3 DEF S
        <4>2. ccs'[c][s] = ccs[c][s]
          BY <1>10, <4>1
        <4> QED BY <3>3, <4>2 DEF Backed, Live, Exists
      <3>4. Backed(x)'
        BY <1>3, <3>2, <3>3 DEF Backed
      <3> QED BY <3>1, <3>4
    <2> QED BY <1>1, <1>3, <1>4, <2>3, WorkerReaccounts
  <1> QED BY <1>7, <1>9, <1>10

(* The ClusterConfig is deleted: it keeps its finalizer if it has one. *)
LEMMA DeleteForDeleteAccounts ==
    ASSUME Traceable, IndInv, Steady, NEW G, ClaimsOK(G), AccountsHold,
           DeleteForDelete, UNCHANGED rs
    PROVE  AccountsHold'
  <1>1. /\ wk.pc = "delDelete" /\ UNCHANGED <<ipam, proc>> /\ wk \in Worker
        /\ proc = "running" /\ wk.c \in Cluster /\ wk.r \in Rule
    BY WorkerRuns DEF DeleteForDelete, IndInv, ServiceOK, WorkerOK
  <1>2. PICK ok \in BOOLEAN :
            /\ DeleteClusterConfig(wk.c, wk.r, ok)
            /\ wk' = [wk EXCEPT !.pc = "delRelease", !.del[wk.r] = NoObject, !.err = @ \/ ~ok]
    BY DEF DeleteForDelete
  <1>3. wk'.raw = wk.raw /\ wk'.create = wk.create
    BY <1>1, <1>2 DEF Worker
  <1>4. wk.create = NoInjections
    BY <1>1 DEF AccountsHold, PlannedLate
  <1>5. Keeps
    BY <1>1, <1>2, DeleteKind DEF Traceable
  <1>6. ConfigsLive
    BY <1>5, KindLive
  <1> QED BY <1>1, <1>3, <1>4, <1>6, WorkerAccounts DEF AccountsHold

(* The Cluster controller loses no range. *)
LEMMA ClusterReconcileAccounts ==
    ASSUME Traceable, IndInv, Steady, NEW G \in ClaimMap, ClaimsOK(G), AccountsHold,
           ClusterReconcile, UNCHANGED rs
    PROVE  AccountsHold'
  BY EmptyHandedAccounts, PlanAccounts, GenerateInjectionAccounts, GenerateInjectionFailsAccounts,
     ApplyCreatesAccounts, ApplyUpdatesImpossible, ReleaseForDeleteAccounts,
     DeleteForDeleteAccounts DEF ClusterReconcile

-----------------------------------------------------------------------------
(* The Restore.                                                            *)

(* Between its steps nothing has to be accounted for but what it has       *)
(* handled.                                                                *)
LEMMA RestoreAccounts ==
    ASSUME Steady, rs.pc \notin {"idle", "done"}, rs'.pc # "done", UNCHANGED <<proc, wk>>, HandledLive'
    PROVE  AccountsHold'
  <1>1. proc = "booting" /\ wk' = IdleWorker
    BY RestoreRuns
  <1>2. Accounted'
    BY <1>1 DEF Accounted, Ready
  <1>3. PlannedLate'
    BY <1>1 DEF PlannedLate, IdleWorker, NoInjections
  <1> QED BY <1>2, <1>3 DEF AccountsHold

(* A step that handles nothing more. *)
LEMMA HandledKept ==
    ASSUME HandledLive, ConfigsLive, rs'.pc # "listCCs", rs'.handled = rs.handled,
           \A c \in Cluster, r \in Rule : Exists(rs'.rest[c][r]) => Exists(rs.rest[c][r])
    PROVE  HandledLive'
  <1> SUFFICES ASSUME NEW c \in Cluster, NEW r \in Rule, Exists(rs.handled[c][r])
               PROVE  ~Exists(rs'.rest[c][r]) /\ Live(ccs'[c][r])
    BY DEF HandledLive, Live, Exists
  <1> QED BY DEF HandledLive, ConfigsLive

(* A Restore that has not begun has handled nothing. *)
LEMMA NothingHandled ==
    ASSUME rs'.handled = NoClusterConfigs
    PROVE  HandledLive'
  BY DEF HandledLive, NoClusterConfigs, NoConfigs, Exists

(* Nor has one that has returned. *)
LEMMA ReturnsHandled ==
    ASSUME NEW result, RestoreReturns(result)
    PROVE  HandledLive'
  <1>1. rs'.handled = NoClusterConfigs
    BY DEF RestoreReturns, IdleRestore
  <1> QED BY <1>1, NothingHandled

(* The ClusterConfigs are listed: nothing is handled yet. *)
LEMMA RestoreListHandled ==
    ASSUME IndInv, HandledLive, RestoreList
    PROVE  HandledLive'
  <1>1. rs.pc = "listCCs" /\ rs \in Restoration
    BY DEF RestoreList, IndInv, ServiceOK, RestoreOK
  <1>2. CASE rs' = [rs EXCEPT !.pc = "check", !.rest = ccs]
    <2>1. rs'.handled = rs.handled
      BY <1>1, <1>2 DEF Restoration
    <2>2. \A c \in Cluster, r \in Rule : ~Exists(rs.handled[c][r])
      BY <1>1 DEF HandledLive
    <2> QED BY <2>1, <2>2 DEF HandledLive, Exists
  <1> QED BY <1>2, ReturnsHandled DEF RestoreList

(* The ClusterConfigs of a listed Cluster have their finalizer. *)
LEMMA RestoreCheckHandled ==
    ASSUME IndInv, NEW G, ClaimsOK(G), HandledLive, NEW c \in Cluster, RestoreCheck(c)
    PROVE  HandledLive'
  <1> DEFINE ri == CheckClusterConfigs(rs.todo[c].ann, rs.rest[c])
  <1>1. rs.pc = "check" /\ rs \in Restoration /\ Exists(rs.todo[c]) /\ UNCHANGED ccs
    BY DEF RestoreCheck, IndInv, ServiceOK, RestoreOK
  <1>2. \A r \in Rule : Exists(rs.rest[c][r]) => Live(ccs[c][r])
    BY <1>1 DEF ClaimsOK, RestoreClaims, RestOK, Left
  <1>3. /\ rs'.rest = [rs.rest EXCEPT ![c] = NoConfigs]
        /\ rs'.handled = [rs.handled EXCEPT ![c] = rs.rest[c]]
        /\ rs'.pc = IF ri.create = NoInjections /\ ri.update = NoUpdates THEN "check" ELSE "apply"
    BY <1>1 DEF RestoreCheck, Restoration
  <1> HIDE DEF ri
  <1>4. /\ rs'.pc # "listCCs"
        /\ \A d \in Cluster : rs'.rest[d] = IF d = c THEN NoConfigs ELSE rs.rest[d]
        /\ \A d \in Cluster : rs'.handled[d] = IF d = c THEN rs.rest[c] ELSE rs.handled[d]
    BY <1>1, <1>3 DEF Restoration
  <1> SUFFICES ASSUME NEW d \in Cluster, NEW r \in Rule, Exists(rs'.handled[d][r])
               PROVE  ~Exists(rs'.rest[d][r]) /\ Live(ccs[d][r])
    BY <1>1, <1>4 DEF HandledLive, Live, Exists
  <1>5. CASE d = c
    BY <1>2, <1>4, <1>5 DEF NoConfigs, Exists
  <1>6. CASE d # c
    BY <1>4, <1>6 DEF HandledLive
  <1> QED BY <1>5, <1>6

(* A ClusterConfig is created; none is taken away. *)
LEMMA RestoreCreateHandled ==
    ASSUME IndInv, HandledLive, RestoreCreate
    PROVE  HandledLive'
  <1>1. rs.pc = "apply" /\ rs \in Restoration /\ rs.c \in Cluster
    BY DEF RestoreCreate, IndInv, ServiceOK, RestoreOK
  <1>2. PICK r \in Rule, ok \in BOOLEAN :
            /\ ApplyCreate(rs.c, r, rs.uid, rs.create[r], ok)
            /\ rs' = [rs EXCEPT !.create[r] = {}, !.bad = @ \/ ~ok]
    BY DEF RestoreCreate
  <1>3. rs'.pc = "apply" /\ rs'.handled = rs.handled /\ rs'.rest = rs.rest
    BY <1>1, <1>2 DEF Restoration
  <1> DEFINE cc == NewClusterConfig(rs.uid, rs.create[r])
  <1>4. ConfigsLive
    <2>1. \/ UNCHANGED ccs
          \/ ~Exists(ccs[rs.c][r]) /\ ccs' = [ccs EXCEPT ![rs.c][r] = cc]
      BY <1>2 DEF ApplyCreate, CreateClusterConfig
    <2> HIDE DEF cc
    <2>2. CASE ~Exists(ccs[rs.c][r]) /\ ccs' = [ccs EXCEPT ![rs.c][r] = cc]
      <3>1. \A d \in Cluster, s \in Rule :
                ccs'[d][s] = IF d = rs.c /\ s = r THEN cc ELSE ccs[d][s]
        BY <1>1, <2>2 DEF IndInv, ServiceOK, ApiOK
      <3> QED BY <2>2, <3>1 DEF ConfigsLive, Live
    <2> QED BY <2>1, <2>2, UnchangedLive
  <1> QED BY <1>3, <1>4, HandledKept

(* Whatever exists of a checked Cluster has its finalizer. *)
LEMMA RestoreRefetchHandled ==
    ASSUME IndInv, NEW G, ClaimsOK(G), HandledLive, RestoreRefetch
    PROVE  HandledLive'
  <1>1. /\ rs.pc = "apply" /\ rs \in Restoration /\ rs.c \in Cluster /\ UNCHANGED ccs
    BY DEF RestoreRefetch, IndInv, ServiceOK, RestoreOK
  <1>2. ApplyOK(G) /\ Covered
    BY DEF ClaimsOK, RestoreClaims
  <1> DEFINE again == [r \in Rule |-> IF Exists(ccs[rs.c][r]) THEN ccs[rs.c][r]
                                      ELSE rs.handled[rs.c][r]]
  <1>3. \/ rs' = [rs EXCEPT !.pc = "check", !.handled[rs.c] = again]
        \/ rs' = [rs EXCEPT !.pc = "check", !.err = TRUE]
    BY DEF RestoreRefetch
  <1>4. /\ rs'.pc = "check" /\ rs'.rest = rs.rest
        /\ rs'.handled = [rs.handled EXCEPT ![rs.c] = again] \/ rs'.handled = rs.handled
    BY <1>1, <1>3 DEF Restoration
  <1>5. \A d \in Cluster, s \in Rule :
            \/ rs'.handled[d][s] = rs.handled[d][s]
            \/ d = rs.c /\ Exists(ccs[d][s]) /\ rs'.handled[d][s] = ccs[d][s]
    BY <1>1, <1>4 DEF Restoration
  <1>6. \A s \in Rule : ~Exists(rs.rest[rs.c][s])
    BY <1>1, <1>2 DEF ApplyOK
  <1>7. \A s \in Rule : Exists(ccs[rs.c][s]) => Live(ccs[rs.c][s])
    BY <1>1, <1>2, <1>6 DEF Covered, Checking, Live
  <1> SUFFICES ASSUME NEW d \in Cluster, NEW s \in Rule, Exists(rs'.handled[d][s])
               PROVE  ~Exists(rs.rest[d][s]) /\ Live(ccs[d][s])
    BY <1>1, <1>4 DEF HandledLive, Live, Exists
  <1> QED BY <1>5, <1>6, <1>7 DEF HandledLive

(* The Restore passes from one phase to the next, or returns. *)
LEMMA RestorePhaseHandled ==
    ASSUME IndInv, HandledLive, RestoreChecked \/ RestoreOrphansHandled \/ RestoreBuild
    PROVE  HandledLive'
  <1>1. rs \in Restoration /\ UNCHANGED ccs
    BY DEF RestoreChecked, RestoreOrphansHandled, RestoreBuild, IndInv, ServiceOK, RestoreOK
  <1>2. ASSUME NEW pc \in {"orphans", "build"}, rs' = [rs EXCEPT !.pc = pc]
        PROVE  HandledLive'
    <2>1. rs'.pc # "listCCs" /\ rs'.handled = rs.handled /\ rs'.rest = rs.rest
      BY <1>1, <1>2 DEF Restoration
    <2> QED BY <1>1, <2>1, UnchangedLive, HandledKept
  <1> QED BY <1>2, ReturnsHandled DEF RestoreChecked, RestoreOrphansHandled, RestoreBuild

(* The cleanup of orphans: only the ClusterConfig in hand may lose its     *)
(* finalizer, and it is not among the handled ones.                        *)
LEMMA OrphanHandledLive ==
    ASSUME Undisturbed, IndInv, NEW G, ClaimsOK(G), HandledLive,
           OrphanDelete \/ OrphanReleaseCIDRs
    PROVE  HandledLive' /\ rs'.pc \in {"orphans", "release"}
  <1>1. /\ rs.pc \in {"delete", "release"} /\ rs \in Restoration
        /\ Exists(rs.rest[rs.c][rs.r]) /\ rs.c \in Cluster /\ rs.r \in Rule
    BY DEF OrphanDelete, OrphanReleaseCIDRs, IndInv, ServiceOK, RestoreOK
  <1>2. PICK c \in Cluster, r \in Rule : c = rs.c /\ r = rs.r
    BY <1>1
  <1>3. ASSUME NEW e \in BOOLEAN, rs' = OrphanHandled \/ rs' = [OrphanHandled EXCEPT !.err = e]
        PROVE  /\ rs'.pc = "orphans" /\ rs'.handled = rs.handled
               /\ \A d \in Cluster, s \in Rule : Exists(rs'.rest[d][s]) => Exists(rs.rest[d][s])
    <2>1. /\ rs'.pc = "orphans" /\ rs'.handled = rs.handled
          /\ rs'.rest = [rs.rest EXCEPT ![c][r] = NoObject]
      BY <1>1, <1>2, <1>3, OrphanHandledFields
    <2>2. \A d \in Cluster, s \in Rule :
            rs'.rest[d][s] = IF d = c /\ s = r THEN NoObject ELSE rs.rest[d][s]
      BY <1>1, <2>1 DEF Restoration
    <2> QED BY <2>1, <2>2 DEF Exists
  <1>4. CASE OrphanDelete
    <2>1. Keeps \/ UNCHANGED ccs
      <3>1. UNCHANGED ccs \/ \E ok : DeleteClusterConfig(c, r, ok)
        BY <1>2, <1>4 DEF OrphanDelete
      <3> QED BY <3>1, DeleteKind
    <2>2. ConfigsLive
      BY <2>1, KindLive, UnchangedLive
    <2>3. \/ rs' = [rs EXCEPT !.pc = "release"] \/ rs' = OrphanHandled
          \/ rs' = [OrphanHandled EXCEPT !.err = TRUE]
      BY <1>4 DEF OrphanDelete
    <2>4. /\ rs'.pc \in {"orphans", "release"} /\ rs'.handled = rs.handled
          /\ \A d \in Cluster, s \in Rule : Exists(rs'.rest[d][s]) => Exists(rs.rest[d][s])
      <3>1. CASE rs' = [rs EXCEPT !.pc = "release"]
        BY <1>1, <3>1 DEF Restoration
      <3> QED BY <1>3, <2>3, <3>1
    <2> QED BY <2>2, <2>4, HandledKept
  <1>5. CASE OrphanReleaseCIDRs
    <2>1. PICK ok \in BOOLEAN :
            /\ ReleaseCIDRs(c, r, rs.rest[c][r], ok)
            /\ rs' = [OrphanHandled EXCEPT !.err = @ \/ ~ok]
      BY <1>2, <1>5 DEF OrphanReleaseCIDRs
    <2>2. PICK e \in BOOLEAN : rs' = [OrphanHandled EXCEPT !.err = e]
      <3>1. OrphanHandled.err \in BOOLEAN
        BY <1>1 DEF OrphanHandled, Restoration
      <3> QED BY <2>1, <3>1
    <2>3. /\ rs'.pc = "orphans" /\ rs'.handled = rs.handled
          /\ \A d \in Cluster, s \in Rule : Exists(rs'.rest[d][s]) => Exists(rs.rest[d][s])
      BY <1>3, <2>2
    <2> DEFINE new == Persisted([ccs[c][r] EXCEPT !.fin = FALSE, !.foreign = rs.rest[c][r].foreign])
    <2>4. \A d \in Cluster, s \in Rule : <<d, s>> # <<c, r>> => ccs'[d][s] = ccs[d][s]
      <3>1. UNCHANGED ccs \/ WriteClusterConfig(c, r, new)
        BY <2>1 DEF ReleaseCIDRs
      <3> HIDE DEF new
      <3> QED BY <3>1 DEF WriteClusterConfig, IndInv, ServiceOK, ApiOK
    <2>5. ~Exists(rs.handled[c][r])
      BY <1>1, <1>2 DEF HandledLive
    <2> SUFFICES ASSUME NEW d \in Cluster, NEW s \in Rule, Exists(rs.handled[d][s])
                 PROVE  ~Exists(rs'.rest[d][s]) /\ Live(ccs'[d][s])
      BY <2>3 DEF HandledLive, Live, Exists
    <2>6. ccs'[d][s] = ccs[d][s]
      BY <2>4, <2>5
    <2> QED BY <2>3, <2>6 DEF HandledLive
  <1> QED BY <1>4, <1>5

(* The Cluster of an orphan is fetched again.  An orphan that is kept has  *)
(* its finalizer.                                                          *)
LEMMA OrphanGetClusterHandled ==
    ASSUME IndInv, NEW G, ClaimsOK(G), HandledLive, NEW c \in Cluster, NEW r \in Rule,
           OrphanGetCluster(c, r)
    PROVE  HandledLive' /\ rs'.pc \in {"orphans", "delete"}
  <1>1. rs.pc = "orphans" /\ rs \in Restoration /\ Exists(rs.rest[c][r]) /\ UNCHANGED ccs
    BY DEF OrphanGetCluster, IndInv, ServiceOK, RestoreOK
  <1>2. ~Exists(clusters[c])
    <2>1. ~Exists(rs.todo[c])
      BY <1>1 DEF ClaimsOK, RestoreClaims, OrphanOK, NoClusters, Exists
    <2> QED BY <1>1, <2>1 DEF ClaimsOK, RestoreClaims, RestOK, Left
  <1>3. \/ rs' = [rs EXCEPT !.pc = "delete", !.c = c, !.r = r]
        \/ rs' = [rs EXCEPT !.pc = "delete", !.c = c, !.r = r, !.err = TRUE]
    BY <1>2 DEF OrphanGetCluster
  <1>4. rs'.pc = "delete" /\ rs'.handled = rs.handled /\ rs'.rest = rs.rest
    BY <1>1, <1>3 DEF Restoration
  <1> QED BY <1>1, <1>4, UnchangedLive, HandledKept

(* In the rebuilt IPAM state a range below the top level is in a           *)
(* ClusterConfig, and directly below a parent of the config.               *)
LEMMA RebuiltBelow ==
    ASSUME Undisturbed, Flat, NEW G \in ClaimMap, DisjointClaims(G), InsideParents(G),
           NEW P \in SUBSET AllParents, NEW HC, DOMAIN HC = Cluster \X Rule,
           \A c \in Cluster, r \in Rule : HC[<<c, r>>] = {} \/ HC[<<c, r>>] = CidrsOf(G[c][r]),
           NEW x \in DOMAIN Rebuilt(P, HC), Rebuilt(P, HC)[x] # NoCidr
    PROVE  /\ Rebuilt(P, HC)[x] \in AllParents \cap DOMAIN Rebuilt(P, HC)
           /\ \E c \in Cluster, r \in Rule : x \in HC[<<c, r>>]
  <1> DEFINE D == P \cup UNION {HC[k] : k \in DOMAIN HC}
             own == CHOOSE k \in DOMAIN HC : x \in HC[k]
             st == Rebuilt(P, HC)
  <1>1. /\ DOMAIN st = D
        /\ x \in D /\ st[x] = IF x \in P THEN NoCidr ELSE ParentOf(P, HC[own], x)
    BY DEF Rebuilt
  <1>2. x \notin P /\ \E k \in DOMAIN HC : x \in HC[k]
    BY <1>1
  <1>3. own \in DOMAIN HC /\ x \in HC[own]
    BY <1>2
  <1>4. P \subseteq DOMAIN st
    BY <1>1
  <1> HIDE DEF D, own
  <1>5. PICK c \in Cluster, r \in Rule : own = <<c, r>>
    BY <1>3
  <1> DEFINE S == CidrsOf(G[c][r])
  <1>6. HC[own] = S
    BY <1>3, <1>5
  <1>7. S \in SUBSET CIDR /\ P \in SUBSET CIDR
    BY ClaimCidrs, AllParentsType
  <1>8. \A p \in P : ~StrictlyContains(x, p)
    <2>1. PICK a \in AllParents : StrictlyContains(a, x)
      BY <1>3, <1>6 DEF InsideParents
    <2> QED BY <1>3, <1>6, <1>7, <2>1, InsideNoParent
  <1>9. DisjointRanges(S)
    BY DEF DisjointClaims
  <1> HIDE DEF S
  <1>10. ~Parentless(P, x) /\ st[x] = ParentOf(P, S, x)
    BY <1>1, <1>2, <1>6 DEF ParentOf
  <1>11. ParentOf(P, S, x) \in Around(P, S, x)
    BY <1>2, <1>3, <1>6, <1>7, <1>8, <1>10, ParentOfAround
  <1>12. PICK y \in P \cup S : y = st[x] /\ Contains(y, x) /\ y # x
    BY <1>10, <1>11 DEF Around, StrictlyContains
  <1>13. y \notin S
    BY <1>3, <1>6, <1>9, <1>12 DEF DisjointRanges, Overlaps
  <1> QED BY <1>3, <1>4, <1>5, <1>12, <1>13

(* The IPAM state is rebuilt from ClusterConfigs that still have their     *)
(* finalizer.                                                              *)
LEMMA RestoreBuildAccounts ==
    ASSUME Traceable, IndInv, Steady, NEW G \in ClaimMap, ClaimsOK(G), HandledLive,
           RestoreBuild, UNCHANGED wk
    PROVE  AccountsHold'
  <1>1. rs.pc = "build" /\ rs \in Restoration /\ UNCHANGED <<ccs, proc>>
    BY DEF RestoreBuild, restoreUnchanged, IndInv, ServiceOK, RestoreOK
  <1>2. HandledLive'
    BY RestorePhaseHandled
  <1>3. CASE RestoreReturns("failed")
    <2>1. rs'.pc # "done"
      BY <1>3 DEF RestoreReturns, IdleRestore
    <2> QED BY <1>1, <1>2, <2>1, RestoreAccounts
  <1>4. CASE ipam' = Rebuilt(ParentCIDRs(rs.cfg), HandledCidrs)
    <2>1. PlannedLate'
      BY <1>1, RestoreRuns DEF PlannedLate, IdleWorker, NoInjections
    <2>2. PICK P \in SUBSET AllParents : P = ParentCIDRs(rs.cfg)
      BY <1>1 DEF ClaimsOK, RestoreClaims, Configured, AllParents
    <2>3. PICK HC : HC = HandledCidrs
      OBVIOUS
    <2>4. /\ DOMAIN HC = Cluster \X Rule
          /\ \A c \in Cluster, r \in Rule :
                HC[<<c, r>>] = IF Exists(rs.handled[c][r]) THEN CidrsOf(rs.handled[c][r].patches) ELSE {}
      BY <2>3 DEF HandledCidrs
    <2>5. ASSUME NEW c \in Cluster, NEW r \in Rule, Exists(rs.handled[c][r])
          PROVE  /\ rs.handled[c][r].patches = G[c][r]
                 /\ Live(ccs[c][r]) /\ ccs[c][r].patches = G[c][r]
      <3>1. rs.handled[c][r].patches = G[c][r] /\ Live(ccs[c][r])
        BY <2>5 DEF ClaimsOK, RestoreClaims, HandledOK, HandledLive
      <3> QED BY <3>1 DEF ClaimsOK, ClusterConfigCopies, Live
    <2>6. ASSUME NEW x \in DOMAIN ipam', ipam'[x] # NoCidr
          PROVE  ipam'[x] \in AllParents \cap DOMAIN ipam' /\ Backed(x)'
      <3>1. ipam' = Rebuilt(P, HC)
        BY <1>4, <2>2, <2>3
      <3>2. \A c \in Cluster, r \in Rule : HC[<<c, r>>] = {} \/ HC[<<c, r>>] = CidrsOf(G[c][r])
        BY <2>4, <2>5
      <3>3. DisjointClaims(G) /\ InsideParents(G) /\ Undisturbed /\ Flat
        BY DEF ClaimsOK, Traceable
      <3>4. /\ ipam'[x] \in AllParents \cap DOMAIN ipam'
            /\ \E c \in Cluster, r \in Rule : x \in HC[<<c, r>>]
        <4>1. x \in DOMAIN Rebuilt(P, HC) /\ Rebuilt(P, HC)[x] # NoCidr
          BY <2>6, <3>1
        <4>2. DOMAIN HC = Cluster \X Rule
          BY <2>4
        <4>3. /\ Rebuilt(P, HC)[x] \in AllParents \cap DOMAIN Rebuilt(P, HC)
              /\ \E c \in Cluster, r \in Rule : x \in HC[<<c, r>>]
          BY <3>2, <3>3, <4>1, <4>2, RebuiltBelow, ZenonT(60)
        <4> QED BY <3>1, <4>3
      <3>5. PICK c \in Cluster, r \in Rule : x \in HC[<<c, r>>]
        BY <3>4
      <3>6. Live(ccs[c][r]) /\ x \in CidrsOf(ccs[c][r].patches)
        BY <2>4, <2>5, <3>5
      <3>7. Backed(x)'
        BY <1>1, <3>6 DEF Backed, Live, Exists
      <3> QED BY <3>4, <3>7
    <2>7. Accounted'
      BY <2>6 DEF Accounted, Registered
    <2> QED BY <1>2, <2>1, <2>7 DEF AccountsHold
  <1> QED BY <1>3, <1>4 DEF RestoreBuild

(* A Restore accounts for all that it leaves blocked. *)
LEMMA RestoreStepAccounts ==
    ASSUME Traceable, IndInv, Steady, NEW G \in ClaimMap, ClaimsOK(G), AccountsHold,
           RestoreStep, UNCHANGED wk
    PROVE  AccountsHold'
  <1>1. CASE RestoreBuild
    BY <1>1, RestoreBuildAccounts DEF AccountsHold
  <1>2. CASE ~RestoreBuild
    <2>1. ~RestoreUpdate
      BY RestoreUpdateImpossible
    <2>2. rs.pc \notin {"idle", "done"} /\ UNCHANGED proc
      BY DEF RestoreStep, RestoreList, RestoreCheck, RestoreCreate, RestoreUpdate,
         RestoreRefetch, RestoreChecked, OrphanGetCluster, OrphanDelete, OrphanReleaseCIDRs,
         RestoreOrphansHandled, RestoreBuild, restoreUnchanged
    <2>3. HandledLive'
      BY <1>2, <2>1, RestoreListHandled, RestoreCheckHandled, RestoreCreateHandled,
         RestoreRefetchHandled, RestorePhaseHandled, OrphanGetClusterHandled,
         OrphanHandledLive DEF RestoreStep, AccountsHold, Traceable
    <2>4. rs \in Restoration
      BY DEF IndInv, ServiceOK, RestoreOK
    <2>5. RestoreReturns("failed") => rs'.pc # "done"
      BY DEF RestoreReturns, IdleRestore
    <2>6. \A pc : rs' = [rs EXCEPT !.pc = pc] => rs'.pc = pc
      BY <2>4 DEF Restoration
    <2>7. rs'.pc # "done"
      <3>1. CASE RestoreList
        BY <2>4, <2>5, <3>1 DEF RestoreList, Restoration
      <3>2. ASSUME NEW c \in Cluster, RestoreCheck(c)
            PROVE  rs'.pc # "done"
        <4> DEFINE ri == CheckClusterConfigs(rs.todo[c].ann, rs.rest[c])
        <4>1. rs'.pc = IF ri.create = NoInjections /\ ri.update = NoUpdates THEN "check" ELSE "apply"
          BY <2>4, <3>2 DEF RestoreCheck, Restoration
        <4> HIDE DEF ri
        <4> QED BY <4>1
      <3>3. CASE RestoreCreate
        BY <2>4, <3>3 DEF RestoreCreate, Restoration
      <3>4. CASE RestoreRefetch
        BY <2>4, <3>4 DEF RestoreRefetch, Restoration
      <3>5. CASE RestoreChecked \/ RestoreOrphansHandled
        BY <2>5, <2>6, <3>5 DEF RestoreChecked, RestoreOrphansHandled
      <3>6. CASE OrphanDelete \/ OrphanReleaseCIDRs
        BY <3>6, OrphanHandledLive DEF AccountsHold, Traceable
      <3>7. CASE \E c \in Cluster, r \in Rule : OrphanGetCluster(c, r)
        BY <3>7, OrphanGetClusterHandled DEF AccountsHold
      <3> QED BY <1>2, <2>1, <3>1, <3>2, <3>3, <3>4, <3>5, <3>6, <3>7 DEF RestoreStep
    <2> QED BY <2>2, <2>3, <2>7, RestoreAccounts
  <1> QED BY <1>1, <1>2

-----------------------------------------------------------------------------
(* Everybody else, and the life of the process.                            *)

(* Nothing changes but the users' objects. *)
LEMMA OutsideAccounts ==
    ASSUME AccountsHold, ConfigsLive, UNCHANGED <<ipam, proc, wk, rs>>
    PROVE  AccountsHold'
  <1>1. \A x : Backed(x) => Backed(x)'
    BY BackedKept
  <1>2. Accounted'
    BY <1>1, AccountedKept DEF AccountsHold, Ready
  <1>3. HandledLive'
    BY DEF AccountsHold, HandledLive, ConfigsLive, Exists, Live
  <1> QED BY <1>2, <1>3 DEF AccountsHold, PlannedLate

(* The controllers start with what the Restore has rebuilt. *)
LEMMA StartManagerAccounts ==
    ASSUME AccountsHold, StartManager
    PROVE  AccountsHold'
  <1>1. Ready /\ UNCHANGED <<ccs, ipam, wk>> /\ rs' = IdleRestore
    BY DEF StartManager, Ready
  <1>2. \A x : Backed(x) => Backed(x)'
    BY <1>1, UnchangedLive, BackedKept
  <1>3. Accounted'
    BY <1>1, <1>2, AccountedKept DEF AccountsHold
  <1>4. HandledLive'
    BY <1>1, NothingHandled DEF IdleRestore
  <1> QED BY <1>1, <1>3, <1>4 DEF AccountsHold, PlannedLate

(* The IPAM state of a process that starts or exits is empty. *)
LEMMA NotReadyAccounts ==
    ASSUME ~Ready', wk' = IdleWorker, rs'.handled = NoClusterConfigs
    PROVE  AccountsHold'
  <1>1. HandledLive'
    BY NothingHandled
  <1> QED BY <1>1 DEF AccountsHold, Accounted, PlannedLate, IdleWorker, NoInjections

(* The process starts, gives up or crashes. *)
LEMMA ProcessAccounts ==
    ASSUME Steady, Start \/ BootFails \/ Crash
    PROVE  AccountsHold'
  <1>1. CASE Start
    <2> DEFINE todo == [c \in Cluster |->
                            IF c \in RelevantClusters(stored.spec) THEN clusters[c] ELSE NoObject]
    <2>1. proc' = "booting" /\ wk' = IdleWorker
      BY <1>1 DEF Start, Steady, Phases
    <2>2. \/ rs' = [IdleRestore EXCEPT !.pc = "listCCs", !.cfg = stored.spec, !.todo = todo]
          \/ RestoreReturns("failed")
      BY <1>1 DEF Start, BeginRestore
    <2> HIDE DEF todo
    <2>3. rs'.handled = NoClusterConfigs /\ rs'.pc # "done"
      <3>1. CASE rs' = [IdleRestore EXCEPT !.pc = "listCCs", !.cfg = stored.spec, !.todo = todo]
        BY <3>1 DEF IdleRestore
      <3>2. CASE RestoreReturns("failed")
        BY <3>2 DEF RestoreReturns, IdleRestore
      <3> QED BY <2>2, <3>1, <3>2
    <2> QED BY <2>1, <2>3, NotReadyAccounts DEF Ready
  <1>2. CASE BootFails \/ Crash
    <2>1. proc' = "down" /\ wk' = IdleWorker /\ rs' = IdleRestore
      BY <1>2 DEF BootFails, Crash, ProcessExits
    <2>2. rs'.handled = NoClusterConfigs
      BY <2>1 DEF IdleRestore
    <2> QED BY <2>1, <2>2, NotReadyAccounts DEF Ready
  <1> QED BY <1>1, <1>2

(* Every step accounts for what it leaves blocked. *)
LEMMA NextAccounts ==
    ASSUME Traceable, IndInv, Steady, Claimed, AccountsHold, [Next]_vars
    PROVE  AccountsHold'
  <1>1. PICK G \in ClaimMap : ClaimsOK(G)
    BY DEF Claimed
  <1>2. Undisturbed
    BY DEF Traceable
  <1>3. CASE Environment /\ UNCHANGED <<ipam, lock, wk, rs, cf, standby>>
    <2>1. ConfigsLive
      BY <1>1, <1>2, <1>3, EnvironmentKind, KindLive
    <2>2. UNCHANGED proc
      BY <1>3 DEF Environment, CreateCluster, DeleteCluster, GarbageCollect, SetOperation,
         ForeignFinalizer, EditClusterConfig, StoreConfig, DeleteConfig, ChangeConfigMeta
    <2> QED BY <1>3, <2>1, <2>2, OutsideAccounts
  <1>4. CASE ClusterReconcile /\ UNCHANGED <<rs, cf, standby>>
    BY <1>1, <1>4, ClusterReconcileAccounts
  <1>5. CASE ConfigReconcile /\ UNCHANGED <<wk, standby>>
    <2>1. cf.pc \notin {"refresh", "refreshing"}
      BY DEF Steady, Phases
    <2>2. UNCHANGED <<ccs, rs, ipam, proc>>
      BY <1>5, <2>1 DEF ConfigReconcile, FetchConfig, RemoveConfigOperation, QueueClusters,
         SetConfig, Refresh, RefreshReturns, RefreshDue, configUnchanged
    <2> QED BY <1>5, <2>2, UnchangedLive, OutsideAccounts
  <1>6. CASE RestoreStep /\ UNCHANGED <<wk, cf, standby>>
    BY <1>1, <1>6, RestoreStepAccounts
  <1>7. CASE Start \/ BootFails \/ Crash
    BY <1>7, ProcessAccounts
  <1>8. CASE StartManager
    BY <1>8, StartManagerAccounts
  <1>9. CASE UNCHANGED vars
    <2>1. UNCHANGED <<ccs, ipam, proc, wk, rs>>
      BY <1>9 DEF vars
    <2> QED BY <2>1, UnchangedLive, OutsideAccounts
  <1> QED
    BY <1>3, <1>4, <1>5, <1>6, <1>7, <1>8, <1>9, TakeOverImpossible DEF Next

-----------------------------------------------------------------------------
(***************************************************************************)
(* Theorems.                                                               *)
(***************************************************************************)

(* Between any two calls somebody answers for every range that is blocked  *)
(* below a parent (generateCIDRsForInjectionRule, Apply, handleDelete, the *)
(* Restore): whatever calls fail other than those that Traceable excludes, *)
(* and whenever the process crashes.                                       *)
THEOREM RangesAccounted == Traceable => (Spec => []AccountsHold)
  <1> SUFFICES ASSUME Traceable PROVE Spec => []AccountsHold
    OBVIOUS
  <1>1. Undisturbed
    BY DEF Traceable
  <1>2. Init => AccountsHold
    <2> SUFFICES ASSUME Init PROVE AccountsHold
      OBVIOUS
    <2>1. proc = "down" /\ wk.create = NoInjections /\ rs.handled = NoClusterConfigs
      BY DEF Init, IdleWorker, IdleRestore
    <2> QED BY <2>1 DEF AccountsHold, Accounted, Ready, PlannedLate, HandledLive, NoClusterConfigs,
                        NoConfigs, Exists
  <1>3. IndInv /\ (Steady /\ Claimed) /\ AccountsHold /\ [Next]_vars => AccountsHold'
    BY NextAccounts
  <1> QED BY <1>1, <1>2, <1>3, ClaimsInductive, Inductive, PTL DEF Spec

(* At rest the IPAM state blocks nothing below its parents but what        *)
(* somebody holds: no failed generation, deletion, crash or Restore leaks  *)
(* a range.                                                                *)
THEOREM NothingLeaks == Traceable => (Spec => []QuietNoLeak)
  <1> SUFFICES ASSUME Traceable PROVE Spec => []QuietNoLeak
    OBVIOUS
  <1>1. Undisturbed
    BY DEF Traceable
  <1>2. ASSUME Claimed, AccountsHold
        PROVE  QuietNoLeak
    <2> SUFFICES ASSUME Quiet, NEW x \in Registered(ipam), ipam[x] # NoCidr
                 PROVE  x \in AllHeld
      BY DEF QuietNoLeak
    <2>1. PICK G \in ClaimMap : ClaimsOK(G)
      BY <1>2 DEF Claimed
    <2>2. wk.raw = {} /\ wk.create = NoInjections
      BY <1>2, <2>1 DEF Quiet, AccountsHold, PlannedLate, ClaimsOK, WorkerClaims, WorkerScratch
    <2>3. Backed(x)
      BY <1>2 DEF AccountsHold, Accounted, Quiet, Ready
    <2>4. PICK c \in Cluster, r \in Rule : Live(ccs[c][r]) /\ x \in CidrsOf(ccs[c][r].patches)
      BY <2>2, <2>3 DEF Backed, NoInjections, CidrsOf
    <2>5. x \in Held(c, r)
      BY <2>4 DEF Held, Live
    <2> QED BY <2>5 DEF AllHeld
  <1> QED BY <1>1, <1>2, RangesAccounted, ClaimsInductive, PTL

(* At rest the capacity of the parents is used by existing Clusters only:  *)
(* nothing is left of a Cluster that is gone (handleDelete), as long as    *)
(* nobody has intervened and the process has not crashed.                  *)
THEOREM RestInUse ==
    Traceable /\ ConfigStays =>
        (Spec => [](Calm /\ Quiet =>
            \A x \in Registered(ipam) : ipam[x] # NoCidr =>
                \E c \in Cluster, r \in Rule : Exists(clusters[c]) /\ x \in Held(c, r)))
  <1> SUFFICES ASSUME Traceable, ConfigStays
               PROVE  Spec => [](Calm /\ Quiet =>
                        \A x \in Registered(ipam) : ipam[x] # NoCidr =>
                            \E c \in Cluster, r \in Rule : Exists(clusters[c]) /\ x \in Held(c, r))
    OBVIOUS
  <1>1. Undisturbed
    BY DEF Traceable
  <1>2. ASSUME QuietNoLeak, Calm => QuietNoOrphans
        PROVE  Calm /\ Quiet =>
                 \A x \in Registered(ipam) : ipam[x] # NoCidr =>
                     \E c \in Cluster, r \in Rule : Exists(clusters[c]) /\ x \in Held(c, r)
    <2> SUFFICES ASSUME Calm, Quiet, NEW x \in Registered(ipam), ipam[x] # NoCidr
                 PROVE  \E c \in Cluster, r \in Rule : Exists(clusters[c]) /\ x \in Held(c, r)
      OBVIOUS
    <2>1. PICK c \in Cluster, r \in Rule : x \in Held(c, r)
      BY <1>2 DEF QuietNoLeak, AllHeld
    <2>2. Exists(clusters[c])
      BY <1>2, <2>1 DEF QuietNoOrphans, Held
    <2> QED BY <2>1, <2>2
  <1> QED BY <1>1, <1>2, NothingLeaks, RestReleased, PTL
=============================================================================
