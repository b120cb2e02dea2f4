---------------------------- MODULE PromiseProofs ----------------------------
(***************************************************************************)
(* What the service promises, as long as nothing disturbs it (Undisturbed, *)
(* Claims.tla): no two rules hold overlapping CIDRs, the IPAM state blocks *)
(* what is held, a Cluster keeps what it was given, and all in all the     *)
(* service implements the ledger of Ledger.tla.                            *)
(***************************************************************************)
EXTENDS RestoreProofs

(* The invariant behind the promises: some claims, what is reserved for    *)
(* each rule of each Cluster, account for every copy of a CIDR in          *)
(* annotations, ClusterConfigs and the memory of the process, over         *)
(* failing calls, lost responses, crashes and restarts.                    *)
THEOREM ClaimsInductive == Undisturbed => (Spec => [](Steady /\ Claimed))
  <1> SUFFICES ASSUME Undisturbed PROVE Spec => [](Steady /\ Claimed)
    OBVIOUS
  <1>1. Init => Steady /\ Claimed
    BY InitClaimed
  <1>2. IndInv /\ IndInv' /\ (Steady /\ Claimed) /\ [Next]_vars => (Steady /\ Claimed)'
    BY NextClaimed
  <1> QED BY <1>1, <1>2, Inductive, PTL DEF Spec

-----------------------------------------------------------------------------
(* What a rule holds is its claim, or nothing. *)
LEMMA HeldClaim ==
    ASSUME NEW G, AnnotationCopies(G), ClusterConfigCopies(G), NEW c \in Cluster, NEW r \in Rule
    PROVE  /\ Held(c, r) = {} \/ Held(c, r) = CidrsOf(G[c][r])
           /\ Held(c, r) \subseteq CidrsOf(G[c][r])
           /\ Live(ccs[c][r]) => Held(c, r) = CidrsOf(G[c][r])
           /\ Exists(clusters[c]) /\ clusters[c].ann[r] # {} => Held(c, r) = CidrsOf(G[c][r])
  <1>1. CidrsOf({}) = {}
    BY DEF CidrsOf
  <1>2. Exists(clusters[c]) => clusters[c].ann[r] = {} \/ clusters[c].ann[r] = G[c][r]
    BY DEF AnnotationCopies, Copy
  <1>3. Live(ccs[c][r]) => ccs[c][r].patches = G[c][r]
    BY DEF ClusterConfigCopies, Live
  <1>4. Held(c, r) = (IF Exists(clusters[c]) THEN CidrsOf(clusters[c].ann[r]) ELSE {}) \cup
                     (IF Live(ccs[c][r]) THEN CidrsOf(ccs[c][r].patches) ELSE {})
    BY DEF Held, Live
  <1> QED BY <1>1, <1>2, <1>3, <1>4

(* Disjoint claims make disjoint holdings. *)
LEMMA ClaimedDisjoint ==
    ASSUME Claimed
    PROVE  HeldDisjoint
  <1>1. PICK G \in ClaimMap : ClaimsOK(G)
    BY DEF Claimed
  <1>2. AnnotationCopies(G) /\ ClusterConfigCopies(G) /\ DisjointClaims(G)
    BY <1>1 DEF ClaimsOK
  <1>3. \A c \in Cluster, r \in Rule : Held(c, r) \subseteq CidrsOf(G[c][r])
    BY <1>2, HeldClaim
  <1> QED BY <1>2, <1>3 DEF DisjointClaims, HeldDisjoint

(* No two rules, of one Cluster or of two, ever hold overlapping CIDRs,    *)
(* whatever calls fail and whenever the process crashes.                   *)
THEOREM DisjointCidrs == Undisturbed => (Spec => []HeldDisjoint)
  <1> SUFFICES ASSUME Undisturbed PROVE Spec => []HeldDisjoint
    OBVIOUS
  <1>1. Steady /\ Claimed => HeldDisjoint
    BY ClaimedDisjoint
  <1> QED BY <1>1, ClaimsInductive, PTL

(* While the controllers run, the IPAM state blocks every CIDR that        *)
(* somebody holds, whether it was acquired or restored.                    *)
THEOREM BlockedCidrs == Undisturbed => (Spec => []HeldBlocked)
  <1> SUFFICES ASSUME Undisturbed PROVE Spec => []HeldBlocked
    OBVIOUS
  <1>1. ASSUME Steady, Claimed
        PROVE  HeldBlocked
    <2>1. PICK G \in ClaimMap : ClaimsOK(G)
      BY <1>1 DEF Claimed
    <2>2. AnnotationCopies(G) /\ ClusterConfigCopies(G) /\ Blocked(G)
      BY <2>1 DEF ClaimsOK
    <2>3. \A c \in Cluster, r \in Rule : Held(c, r) \subseteq CidrsOf(G[c][r])
      BY <2>2, HeldClaim
    <2>4. proc = "running" => \A c \in Cluster, r \in Rule : Held(c, r) \subseteq DOMAIN ipam
      BY <2>2, <2>3 DEF Blocked, Ready, BlockedIn, Anchored
    <2> QED BY <2>4 DEF HeldBlocked, AllHeld, Registered
  <1> QED BY <1>1, ClaimsInductive, PTL

-----------------------------------------------------------------------------
(***************************************************************************)
(* The kinds of steps, by what they do to what is held.                    *)
(***************************************************************************)
SameCluster(c) ==
    /\ Exists(clusters'[c]) <=> Exists(clusters[c])
    /\ Exists(clusters[c]) => clusters'[c].ann = clusters[c].ann

SameConfig(c, r) ==
    /\ Live(ccs'[c][r]) <=> Live(ccs[c][r])
    /\ Live(ccs[c][r]) => ccs'[c][r].patches = ccs[c][r].patches

Keeps ==
    /\ \A c \in Cluster : SameCluster(c)
    /\ \A c \in Cluster, r \in Rule : SameConfig(c, r)

(* A new Cluster holds nothing. *)
Arrives(h) ==
    /\ ~Exists(clusters[h]) /\ Exists(clusters'[h]) /\ clusters'[h].ann = NoInjections
    /\ \A r \in Rule : ~Exists(ccs[h][r])
    /\ \A c \in Cluster \ {h} : SameCluster(c)
    /\ UNCHANGED ccs

Leaves(h) ==
    /\ Exists(clusters[h]) /\ ~Exists(clusters'[h])
    /\ \A c \in Cluster \ {h} : SameCluster(c)
    /\ UNCHANGED ccs

(* Something is written down for Cluster h, nothing is lost. *)
Grants(h) ==
    /\ \A c \in Cluster \ {h} : SameCluster(c) /\ \A r \in Rule : SameConfig(c, r)
    /\ Exists(clusters'[h]) <=> Exists(clusters[h])
    /\ \A r \in Rule :
        /\ Exists(clusters[h]) => clusters[h].ann[r] \subseteq clusters'[h].ann[r]
        /\ Live(ccs[h][r]) => SameConfig(h, r)
        /\ Live(ccs'[h][r]) /\ ~Live(ccs[h][r]) => ccs'[h][r].patches # {}

(* The finalizer of a ClusterConfig goes, and only if its Cluster is gone. *)
Returns(h, s) ==
    /\ UNCHANGED clusters /\ ~Exists(clusters[h]) /\ ~Live(ccs'[h][s])
    /\ \A c \in Cluster, r \in Rule : <<c, r>> # <<h, s>> => SameConfig(c, r)

StepKind(G) ==
    \/ Keeps
    \/ \E h \in Cluster : Arrives(h) \/ Leaves(h) \/ \E s \in Rule : Returns(h, s)
    \/ \E h \in Cluster : Grants(h) /\ AnnotationCopies(G)' /\ ClusterConfigCopies(G)'

(* Deletions change nothing. *)
LEMMA AgedKeeps ==
    ASSUME \A c \in Cluster : SameCluster(c),
           \A c \in Cluster, r \in Rule : Aged(ccs[c][r], ccs'[c][r])
    PROVE  Keeps
  BY DEF Keeps, SameConfig, Aged, Live, Exists

(* Neither do steps that touch no object. *)
LEMMA UnchangedKeeps ==
    ASSUME UNCHANGED <<clusters, ccs>>
    PROVE  Keeps
  BY DEF Keeps, SameCluster, SameConfig, Exists, Live

(* Nothing but the annotation of one Cluster may change with it. *)
LEMMA WrittenSame ==
    ASSUME ApiOK, NEW c \in Cluster, NEW cl, clusters' = [clusters EXCEPT ![c] = cl]
    PROVE  clusters'[c] = cl /\ \A d \in Cluster \ {c} : clusters'[d] = clusters[d] /\ SameCluster(d)
  BY DEF ApiOK, SameCluster, Exists

(* The users and foreign controllers. *)
LEMMA EnvironmentKind ==
    ASSUME Undisturbed, IndInv, Steady, NEW G, ClaimsOK(G), Environment
    PROVE  Keeps \/ \E h \in Cluster : Arrives(h) \/ Leaves(h)
  <1>1. ApiOK /\ ScalarsOK /\ Named
    BY DEF IndInv, ServiceOK, Steady
  <1>2. ASSUME NEW c \in Cluster, NEW p \in Purpose, NEW named \in BOOLEAN, CreateCluster(c, p, named)
        PROVE  Arrives(c)
    <2> DEFINE new == [uid |-> nextUid, purpose |-> p, op |-> "none",
                       ann |-> NoInjections, refs |-> {}]
               cl  == Default(new, named)
    <2>1. /\ ~Exists(clusters[c]) /\ c \notin used.names /\ Admitted
          /\ clusters' = [clusters EXCEPT ![c] = cl]
          /\ UNCHANGED ccs
      BY <1>2 DEF CreateCluster, Undisturbed
    <2>2. new \in ClusterObject
      BY <1>1, NothingType DEF ScalarsOK, ClusterObject, Operation
    <2>3. cl.ann = NoInjections /\ Exists(cl)
      BY <1>1, <2>1, <2>2, DefaultType, NoObjectType DEF Exists
    <2> HIDE DEF cl
    <2>4. clusters'[c] = cl /\ \A d \in Cluster \ {c} : SameCluster(d)
      BY <1>1, <2>1, WrittenSame
    <2>5. \A r \in Rule : ~Exists(ccs[c][r])
      BY <1>1, <2>1 DEF Named
    <2> QED BY <2>1, <2>3, <2>4, <2>5 DEF Arrives
  <1>3. ASSUME NEW c \in Cluster, DeleteCluster(c)
        PROVE  Leaves(c)
    <2>1. /\ Exists(clusters[c]) /\ UNCHANGED ccs
          /\ clusters' = [clusters EXCEPT ![c] = NoObject]
      BY <1>3 DEF DeleteCluster
    <2>2. clusters'[c] = NoObject /\ \A d \in Cluster \ {c} : SameCluster(d)
      BY <1>1, <2>1, WrittenSame
    <2> QED BY <2>1, <2>2 DEF Leaves, Exists
  <1>4. ASSUME NEW c \in Cluster, NEW r \in Rule, GarbageCollect(c, r)
        PROVE  Keeps
    <2>1. /\ Exists(ccs[c][r]) /\ UNCHANGED clusters
          /\ WriteClusterConfig(c, r, Deleted(ccs[c][r]))
      BY <1>4 DEF GarbageCollect
    <2>2. ccs[c][r] \in ClusterConfig /\ Shape(ccs[c][r])
      BY <1>1, <2>1 DEF ApiOK, Exists, ClaimsOK, ClusterConfigCopies
    <2>3. Aged(ccs[c][r], Deleted(ccs[c][r]))
      BY <2>2, DeletedAged
    <2>4. \A d \in Cluster, s \in Rule :
            ccs'[d][s] = IF d = c /\ s = r THEN Deleted(ccs[c][r]) ELSE ccs[d][s]
      BY <1>1, <2>1 DEF ApiOK, WriteClusterConfig
    <2>5. \A d \in Cluster, s \in Rule : Aged(ccs[d][s], ccs'[d][s])
      BY <2>3, <2>4 DEF Aged
    <2>6. \A d \in Cluster : SameCluster(d)
      BY <2>1 DEF SameCluster, Exists
    <2> QED BY <2>5, <2>6, AgedKeeps
  <1>5. ASSUME NEW c \in Cluster, NEW op \in Operation, SetOperation(c, op)
        PROVE  Keeps
    <2> DEFINE old == clusters[c]
               new == [old EXCEPT !.op = op]
               cl  == Default(new, TRUE)
    <2>1. /\ Exists(old) /\ UNCHANGED ccs /\ Admitted
          /\ clusters' = [clusters EXCEPT ![c] = cl]
      BY <1>5 DEF SetOperation
    <2>2. old \in ClusterObject
      BY <1>1, <2>1 DEF ApiOK, Exists
    <2>3. new \in ClusterObject /\ new.ann = old.ann
      BY <2>2 DEF ClusterObject
    <2>4. cl.ann = old.ann /\ Exists(cl)
      BY <1>1, <2>1, <2>3, DefaultType, NoObjectType DEF Exists
    <2> HIDE DEF cl
    <2>5. clusters'[c] = cl /\ \A d \in Cluster \ {c} : SameCluster(d)
      BY <1>1, <2>1, WrittenSame
    <2>6. \A d \in Cluster : SameCluster(d)
      BY <2>1, <2>4, <2>5 DEF SameCluster
    <2> QED BY <2>1, <2>6, AgedKeeps DEF Aged
  <1>6. ASSUME UserAction("edit") \/ UserAction("finalizer")
        PROVE  FALSE
    BY <1>6 DEF UserAction, Undisturbed
  <1>7. ASSUME (\E cfg \in Configs : StoreConfig(cfg)) \/ DeleteConfig \/ ChangeConfigMeta
        PROVE  Keeps
    <2>1. UNCHANGED <<clusters, ccs>>
      BY <1>7 DEF StoreConfig, DeleteConfig, ChangeConfigMeta
    <2> QED BY <2>1, UnchangedKeeps
  <1> QED
    BY <1>2, <1>3, <1>4, <1>5, <1>6, <1>7
    DEF Environment, ForeignFinalizer, EditClusterConfig


(* A ClusterConfig is created, or nothing happens. *)
LEMMA CreateKind ==
    ASSUME Undisturbed, IndInv, Steady, NEW G, ClaimsOK(G), AnnotationCopies(G)', ClusterConfigCopies(G)',
           NEW c \in Cluster, NEW r \in Rule, NEW uid \in Nat, NEW patches \in SUBSET Patch,
           patches # {}, \E ok \in BOOLEAN : ApplyCreate(c, r, uid, patches, ok)
    PROVE  StepKind(G)
  <1>1. /\ UNCHANGED clusters
        /\ \/ UNCHANGED ccs
           \/ /\ ~Exists(ccs[c][r]) /\ ccs'[c][r] = NewClusterConfig(uid, patches)
              /\ \A d \in Cluster, s \in Rule : (d = c /\ s = r) \/ ccs'[d][s] = ccs[d][s]
    <2>1. UNCHANGED clusters /\ Created(c, r, uid, patches)
      BY ApplyCreateEffect
    <2> QED BY <2>1 DEF Created
  <1>2. CASE UNCHANGED ccs
    BY <1>1, <1>2, UnchangedKeeps DEF StepKind
  <1>3. CASE /\ ~Exists(ccs[c][r]) /\ ccs'[c][r] = NewClusterConfig(uid, patches)
             /\ \A d \in Cluster, s \in Rule : (d = c /\ s = r) \/ ccs'[d][s] = ccs[d][s]
    <2>1. \A d \in Cluster : SameCluster(d)
      BY <1>1 DEF SameCluster, Exists
    <2>2. \A d \in Cluster, s \in Rule : Live(ccs[d][s]) \/ d # c => SameConfig(d, s)
      BY <1>3 DEF SameConfig, Live
    <2>3. \A s \in Rule : Live(ccs'[c][s]) /\ ~Live(ccs[c][s]) => ccs'[c][s].patches # {}
      BY <1>3 DEF NewClusterConfig
    <2>4. Grants(c)
      BY <1>1, <2>1, <2>2, <2>3 DEF Grants, SameCluster
    <2> QED BY <2>4 DEF StepKind
  <1> QED BY <1>1, <1>2, <1>3

(* The finalizer of the ClusterConfig of a deleted Cluster is removed, or  *)
(* nothing happens.                                                        *)
LEMMA ReleaseKind ==
    ASSUME IndInv, NEW G, NEW c \in Cluster, NEW r \in Rule, NEW cc \in ClusterConfig,
           cc.fin, ~cc.foreign, Exists(ccs[c][r]) => Shape(ccs[c][r]), ~Exists(clusters[c]),
           NEW ok \in BOOLEAN, ReleaseCIDRs(c, r, cc, ok)
    PROVE  StepKind(G)
  <1>1. /\ UNCHANGED clusters
        /\ \/ UNCHANGED ccs
           \/ /\ \A d \in Cluster, s \in Rule : <<d, s>> # <<c, r>> => ccs'[d][s] = ccs[d][s]
              /\ Exists(ccs'[c][r]) => ~ccs'[c][r].fin
    BY ReleaseEffect
  <1>2. CASE UNCHANGED ccs
    BY <1>1, <1>2, UnchangedKeeps DEF StepKind
  <1>3. CASE /\ \A d \in Cluster, s \in Rule : <<d, s>> # <<c, r>> => ccs'[d][s] = ccs[d][s]
             /\ Exists(ccs'[c][r]) => ~ccs'[c][r].fin
    <2>1. Returns(c, r)
      BY <1>1, <1>3 DEF Returns, Live, SameConfig
    <2> QED BY <2>1 DEF StepKind
  <1> QED BY <1>1, <1>2, <1>3

(* A ClusterConfig is deleted; it keeps its finalizer if it has one. *)
LEMMA DeleteKind ==
    ASSUME Undisturbed, IndInv, NEW G, ClaimsOK(G), NEW c \in Cluster, NEW r \in Rule,
           NEW ok, DeleteClusterConfig(c, r, ok)
    PROVE  Keeps
  <1>1. Exists(ccs[c][r]) => Shape(ccs[c][r])
    BY DEF ClaimsOK, ClusterConfigCopies
  <1>2. UNCHANGED clusters /\ \A d \in Cluster, s \in Rule : Aged(ccs[d][s], ccs'[d][s])
    BY <1>1, DeleteEffect
  <1>3. \A d \in Cluster : SameCluster(d)
    BY <1>2 DEF SameCluster, Exists
  <1> QED BY <1>2, <1>3, AgedKeeps

(* The annotation is patched: it may only grow, by what is claimed. *)
LEMMA PatchAnnotationKind ==
    ASSUME IndInv, Steady, NEW G, ClaimsOK(G), PatchAnnotation, UNCHANGED <<rs, cf, standby>>
    PROVE  StepKind(G)
  <1>1. /\ wk.pc = "annotate" /\ UNCHANGED ccs /\ wk \in Worker /\ wk.c \in Cluster
    BY WorkerRuns DEF PatchAnnotation, IndInv, ServiceOK, WorkerOK
  <1> DEFINE old == clusters[wk.c]
             new == [old EXCEPT !.ann = wk.ann]
             cl  == Default(new, TRUE)
  <1>2. CASE UNCHANGED clusters
    BY <1>1, <1>2, UnchangedKeeps DEF StepKind
  <1>3. CASE Exists(old) /\ Admitted /\ clusters' = [clusters EXCEPT ![wk.c] = cl]
    <2>1. old \in ClusterObject /\ wk.ann \in [Rule -> SUBSET Patch]
      BY <1>1, <1>3 DEF IndInv, ServiceOK, ApiOK, Exists, Worker
    <2>2. new \in ClusterObject /\ new.ann = wk.ann
      BY <2>1 DEF ClusterObject
    <2>3. cl.ann = wk.ann /\ Exists(cl)
      BY <1>3, <2>2, DefaultFields, DefaultType, NoObjectType DEF Exists, IndInv, ServiceOK
    <2> HIDE DEF cl
    <2>4. clusters'[wk.c] = cl /\ \A d \in Cluster \ {wk.c} : SameCluster(d)
      BY <1>1, <1>3, WrittenSame DEF IndInv, ServiceOK
    <2>5. \A r \in Rule : old.ann[r] \subseteq wk.ann[r]
      BY <1>1, <1>3 DEF IndInv, ServiceOK, AnnotationOK
    <2>6. \A d \in Cluster, r \in Rule : SameConfig(d, r)
      BY <1>1 DEF SameConfig, Live, Exists
    <2>7. Grants(wk.c)
      BY <1>1, <1>3, <2>3, <2>4, <2>5, <2>6 DEF Grants, SameConfig
    <2>8. AnnotationCopies(G)' /\ ClusterConfigCopies(G)'
      BY PatchAnnotationClaims DEF ClaimsOK
    <2> QED BY <1>1, <2>7, <2>8 DEF StepKind
  <1> QED BY <1>2, <1>3 DEF PatchAnnotation

(* The operation annotation is removed. *)
LEMMA RemoveOperationAnnotationKind ==
    ASSUME IndInv, Steady, RemoveOperationAnnotation
    PROVE  Keeps
  <1>1. UNCHANGED ccs /\ wk.c \in Cluster
    BY WorkerRuns DEF RemoveOperationAnnotation
  <1> DEFINE old == clusters[wk.c]
             new == [old EXCEPT !.op = "none"]
             cl  == Default(new, TRUE)
  <1>2. CASE UNCHANGED clusters
    BY <1>1, <1>2, UnchangedKeeps
  <1>3. CASE Exists(old) /\ Admitted /\ clusters' = [clusters EXCEPT ![wk.c] = cl]
    <2>1. old \in ClusterObject
      BY <1>1, <1>3 DEF IndInv, ServiceOK, ApiOK, Exists
    <2>2. new \in ClusterObject /\ new.ann = old.ann
      BY <2>1 DEF ClusterObject, Operation
    <2>3. cl.ann = old.ann /\ Exists(cl)
      BY <1>3, <2>2, DefaultFields, DefaultType, NoObjectType DEF Exists, IndInv, ServiceOK
    <2> HIDE DEF cl
    <2>4. clusters'[wk.c] = cl /\ \A d \in Cluster \ {wk.c} : SameCluster(d)
      BY <1>1, <1>3, WrittenSame DEF IndInv, ServiceOK
    <2>5. \A d \in Cluster : SameCluster(d)
      BY <1>3, <2>3, <2>4 DEF SameCluster
    <2> QED BY <1>1, <2>5, AgedKeeps DEF Aged
  <1> QED BY <1>2, <1>3, WorkerRuns DEF RemoveOperationAnnotation

(* The Cluster controller. *)
LEMMA ClusterReconcileKind ==
    ASSUME Undisturbed, IndInv, Steady, NEW G, ClaimsOK(G), ClusterReconcile,
           UNCHANGED <<rs, cf, standby>>
    PROVE  StepKind(G)
  <1>1. CASE \/ \E c \in Cluster : FetchCluster(c) \/ FetchClusterFails(c)
             \/ GetConfigAgain \/ ManageInjections \/ ManageInjectionsFails
             \/ GenerateInjection \/ GenerateInjectionFails
             \/ FinishCreateOrUpdate \/ ListForDelete \/ ListForDeleteFails \/ FinishDelete
    <2>1. UNCHANGED <<clusters, ccs>>
      BY <1>1 DEF FetchCluster, FetchClusterFails, GetConfigAgain, ManageInjections,
         ManageInjectionsFails, GenerateInjection, GenerateInjectionFails, FinishCreateOrUpdate, ListForDelete,
         ListForDeleteFails, FinishDelete
    <2> QED BY <2>1, UnchangedKeeps DEF StepKind
  <1>2. CASE RemoveOperationAnnotation
    BY <1>2, RemoveOperationAnnotationKind DEF StepKind
  <1>3. CASE PatchAnnotation
    BY <1>3, PatchAnnotationKind
  <1>4. CASE ApplyCreates
    <2>1. wk.pc = "apply" /\ wk \in Worker /\ Exists(wk.cl) /\ wk.c \in Cluster
      BY <1>4, WorkerRuns DEF ApplyCreates, IndInv, ServiceOK, WorkerOK
    <2>2. wk.cl.uid \in Nat /\ wk.create \in [Rule -> SUBSET Patch]
      BY <2>1 DEF Worker, ClusterObject, Exists
    <2>3. PICK r \in Rule, ok \in BOOLEAN :
            wk.create[r] # {} /\ ApplyCreate(wk.c, r, wk.cl.uid, wk.create[r], ok)
      BY <1>4 DEF ApplyCreates
    <2>4. PICK c \in Cluster, uid \in Nat, patches \in SUBSET Patch :
            c = wk.c /\ uid = wk.cl.uid /\ patches = wk.create[r]
      BY <2>1, <2>2
    <2>5. patches # {} /\ \E b \in BOOLEAN : ApplyCreate(c, r, uid, patches, b)
      BY <2>3, <2>4
    <2>6. AnnotationCopies(G)' /\ ClusterConfigCopies(G)'
      BY <1>4, ApplyCreatesClaims DEF ClaimsOK
    <2> QED BY <2>5, <2>6, CreateKind
  <1>5. CASE ReleaseForDelete
    <2>1. wk.pc = "delRelease" /\ wk \in Worker /\ wk.c \in Cluster
      BY <1>5, WorkerRuns DEF ReleaseForDelete, IndInv, ServiceOK, WorkerOK
    <2>2. PICK r \in Rule, ok \in BOOLEAN : Exists(wk.del[r]) /\ ReleaseCIDRs(wk.c, r, wk.del[r], ok)
      BY <1>5 DEF ReleaseForDelete
    <2>3. ~Exists(clusters[wk.c]) /\ Listed(G, r)
      BY <2>1, <2>2 DEF ClaimsOK, WorkerClaims, Deleting
    <2>4. wk.del[r] \in ClusterConfig /\ wk.del[r].fin /\ ~wk.del[r].foreign
      BY <2>1, <2>2, <2>3 DEF Listed, Live, Worker, Exists
    <2>5. Exists(ccs[wk.c][r]) => Shape(ccs[wk.c][r])
      BY <2>1 DEF ClaimsOK, ClusterConfigCopies
    <2> QED BY <2>1, <2>2, <2>3, <2>4, <2>5, ReleaseKind
  <1>6. CASE DeleteForDelete
    <2>1. wk.c \in Cluster /\ wk.r \in Rule
      BY <1>6, WorkerRuns DEF DeleteForDelete, IndInv, ServiceOK, WorkerOK
    <2>2. PICK ok \in BOOLEAN : DeleteClusterConfig(wk.c, wk.r, ok)
      BY <1>6 DEF DeleteForDelete
    <2> QED BY <2>1, <2>2, DeleteKind DEF StepKind
  <1> QED
    BY <1>1, <1>2, <1>3, <1>4, <1>5, <1>6, ApplyUpdatesImpossible DEF ClusterReconcile

(* A Restore. *)
LEMMA RestoreStepKind ==
    ASSUME Undisturbed, IndInv, Steady, NEW G, ClaimsOK(G), RestoreStep, UNCHANGED <<wk, cf, standby>>
    PROVE  StepKind(G)
  <1>1. CASE \/ RestoreList \/ RestoreRefetch \/ RestoreChecked
             \/ \E c \in Cluster : RestoreCheck(c)
             \/ \E c \in Cluster, r \in Rule : OrphanGetCluster(c, r)
             \/ RestoreOrphansHandled \/ RestoreBuild
    <2>1. UNCHANGED <<clusters, ccs>>
      BY <1>1 DEF RestoreList, RestoreRefetch, RestoreChecked, RestoreCheck, OrphanGetCluster,
         RestoreOrphansHandled, RestoreBuild
    <2> QED BY <2>1, UnchangedKeeps DEF StepKind
  <1>2. CASE RestoreCreate
    <2>1. rs \in Restoration /\ rs.c \in Cluster
      BY <1>2 DEF RestoreCreate, IndInv, ServiceOK, RestoreOK
    <2>2. PICK r \in Rule, ok \in BOOLEAN :
            rs.create[r] # {} /\ ApplyCreate(rs.c, r, rs.uid, rs.create[r], ok)
      BY <1>2 DEF RestoreCreate
    <2>3. PICK c \in Cluster, uid \in Nat, patches \in SUBSET Patch :
            c = rs.c /\ uid = rs.uid /\ patches = rs.create[r]
      BY <2>1 DEF Restoration
    <2>4. patches # {} /\ \E b \in BOOLEAN : ApplyCreate(c, r, uid, patches, b)
      BY <2>2, <2>3
    <2>5. AnnotationCopies(G)' /\ ClusterConfigCopies(G)'
      BY <1>2, RestoreCreateClaims DEF ClaimsOK
    <2> QED BY <2>4, <2>5, CreateKind
  <1>3. CASE OrphanDelete
    <2>1. rs.c \in Cluster /\ rs.r \in Rule
      BY <1>3 DEF OrphanDelete, IndInv, ServiceOK, RestoreOK
    <2>2. UNCHANGED <<clusters, ccs>> \/ \E ok \in BOOLEAN : DeleteClusterConfig(rs.c, rs.r, ok)
      BY <1>3 DEF OrphanDelete
    <2> QED BY <2>1, <2>2, DeleteKind, UnchangedKeeps DEF StepKind
  <1>4. CASE OrphanReleaseCIDRs
    <2>1. rs.pc = "release" /\ rs \in Restoration /\ rs.c \in Cluster /\ rs.r \in Rule
      BY <1>4 DEF OrphanReleaseCIDRs, IndInv, ServiceOK, RestoreOK
    <2>2. PICK c \in Cluster, r \in Rule, cc \in ClusterConfig \cup {NoObject} :
            c = rs.c /\ r = rs.r /\ cc = rs.rest[c][r]
      BY <2>1 DEF Restoration
    <2>3. PICK ok \in BOOLEAN : ReleaseCIDRs(c, r, cc, ok)
      BY <1>4, <2>2 DEF OrphanReleaseCIDRs
    <2>4. Exists(cc) /\ Left(G, c, r, cc, ccs[c][r]) /\ cc.fin /\ rs.todo = NoClusters
      BY <2>1, <2>2 DEF IndInv, ServiceOK, RestoreOK, ClaimsOK, RestoreClaims, RestOK, OrphanOK
    <2>5. cc \in ClusterConfig
      BY <2>1, <2>2, <2>4 DEF Restoration, Exists
    <2>6. ~cc.foreign /\ ~Exists(clusters[c])
      BY <2>4 DEF Left, Shape, NoClusters, Exists
    <2>7. Exists(ccs[c][r]) => Shape(ccs[c][r])
      BY DEF ClaimsOK, ClusterConfigCopies
    <2> QED BY <2>3, <2>4, <2>5, <2>6, <2>7, ReleaseKind
  <1> QED
    BY <1>1, <1>2, <1>3, <1>4, RestoreUpdateImpossible DEF RestoreStep

(* Every step is of one of the kinds. *)
LEMMA NextKind ==
    ASSUME Undisturbed, IndInv, Steady, NEW G, ClaimsOK(G), [Next]_vars
    PROVE  StepKind(G)
  <1>1. CASE ConfigReconcile /\ UNCHANGED <<wk, standby>>
    <2>1. UNCHANGED <<clusters, ccs>>
      BY <1>1 DEF ConfigReconcile, FetchConfig, RemoveConfigOperation, QueueClusters, SetConfig,
         Refresh, RefreshReturns, RefreshDue, configUnchanged
    <2> QED BY <2>1, UnchangedKeeps DEF StepKind
  <1>2. CASE Start \/ StartManager \/ BootFails \/ Crash \/ UNCHANGED vars
    <2>1. UNCHANGED <<clusters, ccs>>
      BY <1>2 DEF Start, StartManager, BootFails, Crash, vars
    <2> QED BY <2>1, UnchangedKeeps DEF StepKind
  <1>3. CASE Environment
    BY <1>3, EnvironmentKind DEF StepKind
  <1> QED
    BY <1>1, <1>2, <1>3, ClusterReconcileKind, RestoreStepKind, TakeOverImpossible DEF Next

-----------------------------------------------------------------------------
(* The finalizer of a ClusterConfig stays as long as the Cluster exists    *)
(* that it was made for: neither handleDelete nor the orphan handling of a *)
(* Restore ever takes it from a living Cluster.                            *)
THEOREM FinalizerStays == Undisturbed => (Spec => FinalizerKept)
  <1> SUFFICES ASSUME Undisturbed PROVE Spec => FinalizerKept
    OBVIOUS
  <1> DEFINE Kept ==
        \A c \in Cluster, r \in Rule :
            /\ Exists(ccs[c][r]) /\ ccs[c][r].fin
            /\ Exists(ccs'[c][r]) => ~ccs'[c][r].fin
            => ~(Exists(clusters[c]) /\ clusters[c].uid = ccs[c][r].owner)
  <1>1. IndInv /\ (Steady /\ Claimed) /\ [Next]_vars => [Kept]_vars
    <2> SUFFICES ASSUME IndInv, Steady, Claimed, [Next]_vars
                 PROVE  Kept
      OBVIOUS
    <2> SUFFICES ASSUME NEW c \in Cluster, NEW r \in Rule, Live(ccs[c][r]), ~Live(ccs'[c][r])
                 PROVE  ~Exists(clusters[c])
      BY DEF Live
    <2>1. PICK G \in ClaimMap : ClaimsOK(G)
      BY DEF Claimed
    <2>2. StepKind(G)
      BY <2>1, NextKind
    <2>3. ~SameConfig(c, r)
      BY DEF SameConfig
    <2>4. ~UNCHANGED ccs
      OBVIOUS
    <2>5. PICK h \in Cluster, s \in Rule : Returns(h, s)
      BY <2>2, <2>3, <2>4 DEF StepKind, Keeps, Arrives, Leaves, Grants
    <2> QED BY <2>3, <2>5 DEF Returns
  <1> QED BY <1>1, ClaimsInductive, Inductive, PTL DEF Spec, FinalizerKept

-----------------------------------------------------------------------------
(***************************************************************************)
(* The service implements the ledger: alive and held are what Promise      *)
(* makes of the state.                                                     *)
(***************************************************************************)
Alive == {c \in Cluster : Exists(clusters[c])}

Holdings == [c \in Cluster |-> [r \in Rule |-> Held(c, r)]]

(* A rule whose objects are the same holds the same. *)
LEMMA SameHeld ==
    ASSUME NEW c \in Cluster, NEW r \in Rule, SameCluster(c), SameConfig(c, r)
    PROVE  Held(c, r)' = Held(c, r)
  <1>1. Held(c, r) = (IF Exists(clusters[c]) THEN CidrsOf(clusters[c].ann[r]) ELSE {}) \cup
                     (IF Live(ccs[c][r]) THEN CidrsOf(ccs[c][r].patches) ELSE {})
    BY DEF Held, Live
  <1>2. Held(c, r)' = (IF Exists(clusters'[c]) THEN CidrsOf(clusters'[c].ann[r]) ELSE {}) \cup
                      (IF Live(ccs'[c][r]) THEN CidrsOf(ccs'[c][r].patches) ELSE {})
    BY DEF Held, Live, Exists, CidrsOf
  <1> QED BY <1>1, <1>2 DEF SameCluster, SameConfig

(* A new Cluster arrives. *)
LEMMA ArrivesPromise ==
    ASSUME NEW h \in Cluster, Arrives(h)
    PROVE  Promise!Arrive(h)
  <1>1. h \notin Alive /\ Alive' = Alive \cup {h}
    BY DEF Arrives, Alive, SameCluster, Exists
  <1>2. \A c \in Cluster, r \in Rule : Held(c, r)' = Held(c, r)
    <2> SUFFICES ASSUME NEW c \in Cluster, NEW r \in Rule
                 PROVE  Held(c, r)' = Held(c, r)
      OBVIOUS
    <2>1. CASE c # h
      <3>1. SameCluster(c) /\ SameConfig(c, r)
        BY <2>1 DEF Arrives, SameConfig, Live, Exists
      <3> QED BY <3>1, SameHeld
    <2>2. CASE c = h
      <3>1. CidrsOf({}) = {}
        BY DEF CidrsOf
      <3>2. Held(c, r) = {}
        BY <2>2 DEF Held, Arrives
      <3>3. clusters'[c].ann[r] = {}
        BY <2>2 DEF Arrives, NoInjections
      <3>4. Held(c, r)' = CidrsOf({})
        BY <2>2, <3>1, <3>3 DEF Held, Arrives, Exists, CidrsOf
      <3> QED BY <3>1, <3>2, <3>4
    <2> QED BY <2>1, <2>2
  <1>3. Holdings' = Holdings
    BY <1>2 DEF Holdings
  <1> QED BY <1>1, <1>3 DEF Promise!Arrive, Alive, Holdings

(* A Cluster is deleted: what only its annotation recorded is gone. *)
LEMMA LeavesPromise ==
    ASSUME NEW G, AnnotationCopies(G), ClusterConfigCopies(G), NEW h \in Cluster, Leaves(h)
    PROVE  Promise!Leave(h)
  <1>1. h \in Alive /\ Alive' = Alive \ {h}
    BY DEF Leaves, Alive, SameCluster, Exists
  <1>2. PICK S : S = {s \in Rule : ~Live(ccs[h][s])}
    OBVIOUS
  <1>3. \A r \in Rule : Held(h, r)' = IF r \in S THEN {} ELSE Held(h, r)
    <2> SUFFICES ASSUME NEW r \in Rule
                 PROVE  Held(h, r)' = IF r \in S THEN {} ELSE Held(h, r)
      OBVIOUS
    <2>1. Held(h, r)' = IF Live(ccs[h][r]) THEN CidrsOf(ccs[h][r].patches) ELSE {}
      BY DEF Held, Live, Exists, CidrsOf, Leaves
    <2>2. Live(ccs[h][r]) => ccs[h][r].patches = G[h][r] /\ Held(h, r) = CidrsOf(G[h][r])
      BY HeldClaim DEF ClusterConfigCopies, Live
    <2> QED BY <1>2, <2>1, <2>2
  <1>4. \A c \in Cluster \ {h}, r \in Rule : Held(c, r)' = Held(c, r)
    <2> SUFFICES ASSUME NEW c \in Cluster \ {h}, NEW r \in Rule
                 PROVE  Held(c, r)' = Held(c, r)
      OBVIOUS
    <2>1. SameCluster(c) /\ SameConfig(c, r)
      BY DEF Leaves, SameConfig, Live, Exists
    <2> QED BY <2>1, SameHeld
  <1>5. Holdings' = [c \in Cluster |-> [r \in Rule |-> Held(c, r)']]
    BY DEF Holdings
  <1>6. Holdings' = [Holdings EXCEPT ![h] = [s \in Rule |-> IF s \in S THEN {} ELSE Holdings[h][s]]]
    BY <1>3, <1>4, <1>5 DEF Holdings
  <1>7. S \in SUBSET Rule
    BY <1>2
  <1>8. \E T \in SUBSET Rule :
            Holdings' = [Holdings EXCEPT ![h] = [s \in Rule |-> IF s \in T THEN {} ELSE Holdings[h][s]]]
    BY <1>6, <1>7
  <1> QED BY <1>1, <1>8 DEF Promise!Leave, Alive, Holdings

(* Something is granted: it is what is claimed, which overlaps nothing     *)
(* that anybody else holds.                                                *)
LEMMA GrantsPromise ==
    ASSUME NEW G, AnnotationCopies(G), ClusterConfigCopies(G),
           AnnotationCopies(G)', ClusterConfigCopies(G)', HeldDisjoint',
           NEW h \in Cluster, Grants(h)
    PROVE  Promise!Grant(h)
  <1>1. Alive' = Alive
    BY DEF Grants, SameCluster, Alive
  <1>2. \A c \in Cluster \ {h}, r \in Rule : Held(c, r)' = Held(c, r)
    BY SameHeld DEF Grants
  <1>3. ASSUME NEW r \in Rule
        PROVE  Held(h, r)' = Held(h, r) \/ Held(h, r) = {}
    <2>1. \/ Held(h, r) = {}
          \/ Exists(clusters[h]) /\ clusters[h].ann[r] # {}
          \/ Live(ccs[h][r])
      BY DEF Held, Live, CidrsOf
    <2>2. Held(h, r) = {} \/ Held(h, r) = CidrsOf(G[h][r])
      BY HeldClaim
    <2>3. /\ Live(ccs'[h][r]) => Held(h, r)' = CidrsOf(G[h][r])
          /\ Exists(clusters'[h]) /\ clusters'[h].ann[r] # {} => Held(h, r)' = CidrsOf(G[h][r])
      <3>1. CidrsOf({}) = {}
        BY DEF CidrsOf
      <3>2. Exists(clusters'[h]) => clusters'[h].ann[r] = {} \/ clusters'[h].ann[r] = G[h][r]
        BY DEF AnnotationCopies, Copy, Exists
      <3>3. Live(ccs'[h][r]) => ccs'[h][r].patches = G[h][r]
        BY DEF ClusterConfigCopies, Live, Exists
      <3>4. Held(h, r)' = (IF Exists(clusters'[h]) THEN CidrsOf(clusters'[h].ann[r]) ELSE {}) \cup
                          (IF Live(ccs'[h][r]) THEN CidrsOf(ccs'[h][r].patches) ELSE {})
        BY DEF Held, Live, Exists, CidrsOf
      <3> QED BY <3>1, <3>2, <3>3, <3>4
    <2>4. /\ Live(ccs[h][r]) => Live(ccs'[h][r])
          /\ Exists(clusters[h]) /\ clusters[h].ann[r] # {} =>
                Exists(clusters'[h]) /\ clusters'[h].ann[r] # {}
      BY DEF Grants, SameConfig
    <2> QED BY <2>1, <2>2, <2>3, <2>4
  <1>4. Holdings' = [c \in Cluster |-> [r \in Rule |-> Held(c, r)']]
    BY DEF Holdings
  <1>5. Holdings' = [Holdings EXCEPT ![h] = Holdings'[h]]
    BY <1>2, <1>4 DEF Holdings
  <1>6. ASSUME NEW s \in Rule
        PROVE  \/ Holdings'[h][s] = Holdings[h][s]
               \/ /\ Holdings[h][s] = {}
                  /\ \A x \in Holdings'[h][s] : ~Promise!OverlapsOthers(x, h, s)
    <2>1. \A g \in Cluster, t \in Rule : <<g, t>> # <<h, s>> =>
            \A x \in Held(h, s)', y \in Held(g, t)' : ~Overlaps(x, y)
      BY DEF HeldDisjoint
    <2>2. \A x, y : Promise!Overlaps(x, y) <=> Overlaps(x, y)
      BY DEF Promise!Overlaps, Promise!Contains, Overlaps, Contains
    <2>3. \A x \in Holdings'[h][s] : ~Promise!OverlapsOthers(x, h, s)
      BY <1>4, <2>1, <2>2 DEF Promise!OverlapsOthers, Holdings
    <2> QED BY <1>3, <1>4, <2>3 DEF Holdings
  <1> QED BY <1>1, <1>5, <1>6 DEF Promise!Grant, Alive, Holdings

(* The finalizer of the ClusterConfig of a deleted Cluster goes, and with  *)
(* it what the rule held.                                                  *)
LEMMA ReturnsPromise ==
    ASSUME NEW h \in Cluster, NEW s \in Rule, Returns(h, s)
    PROVE  Promise!Return(h, s)
  <1>1. h \notin Alive /\ Alive' = Alive
    BY DEF Returns, Alive, Exists
  <1>2. ASSUME NEW c \in Cluster, NEW r \in Rule, <<c, r>> # <<h, s>>
        PROVE  Held(c, r)' = Held(c, r)
    <2>1. SameCluster(c) /\ SameConfig(c, r)
      BY <1>2 DEF Returns, SameCluster, Exists
    <2> QED BY <2>1, SameHeld
  <1>3. Held(h, s)' = {}
    BY DEF Held, Live, Exists, Returns
  <1>4. Holdings' = [c \in Cluster |-> [r \in Rule |-> Held(c, r)']]
    BY DEF Holdings
  <1>5. Holdings' = [Holdings EXCEPT ![h][s] = {}]
    BY <1>2, <1>3, <1>4 DEF Holdings
  <1> QED BY <1>1, <1>5 DEF Promise!Return, Alive, Holdings

(* A step of any other kind changes nothing in the ledger. *)
LEMMA KeepsPromise ==
    ASSUME Keeps
    PROVE  Alive' = Alive /\ Holdings' = Holdings
  <1>1. Alive' = Alive
    BY DEF Keeps, SameCluster, Alive
  <1>2. \A c \in Cluster, r \in Rule : Held(c, r)' = Held(c, r)
    BY SameHeld DEF Keeps
  <1> QED BY <1>1, <1>2 DEF Holdings

(* The refinement.  Every step of the service is a step of the ledger or   *)
(* leaves it unchanged: CIDRs are granted only where nobody holds an       *)
(* overlapping one, what a rule holds never changes, and nothing is taken  *)
(* from a living Cluster.                                                  *)
THEOREM LedgerImplemented == Undisturbed => (Spec => ImplementsLedger)
  <1> SUFFICES ASSUME Undisturbed PROVE Spec => ImplementsLedger
    OBVIOUS
  <1>1. Init => Promise!Init
    <2> SUFFICES ASSUME Init PROVE Promise!Init
      OBVIOUS
    <2>1. \A c \in Cluster : ~Exists(clusters[c]) /\ \A r \in Rule : ~Exists(ccs[c][r])
      BY DEF Init, NoClusters, NoClusterConfigs, NoConfigs, Exists
    <2>2. \A c \in Cluster, r \in Rule : Held(c, r) = {}
      BY <2>1 DEF Held
    <2> QED BY <2>1, <2>2 DEF Promise!Init
  <1>2. ASSUME IndInv, Steady, Claimed, HeldDisjoint', [Next]_vars
        PROVE  Promise!Next \/ (Alive' = Alive /\ Holdings' = Holdings)
    <2>1. PICK G \in ClaimMap : ClaimsOK(G)
      BY <1>2 DEF Claimed
    <2>2. StepKind(G) /\ AnnotationCopies(G) /\ ClusterConfigCopies(G)
      BY <1>2, <2>1, NextKind DEF ClaimsOK
    <2>3. CASE Keeps
      BY <2>3, KeepsPromise
    <2>4. ASSUME NEW h \in Cluster,
                 \/ Arrives(h) \/ Leaves(h) \/ \E s \in Rule : Returns(h, s)
                 \/ Grants(h) /\ AnnotationCopies(G)' /\ ClusterConfigCopies(G)'
          PROVE  Promise!Next
      <3>1. Promise!Arrive(h) \/ Promise!Leave(h) \/ Promise!Grant(h) \/ \E s \in Rule : Promise!Return(h, s)
        BY <1>2, <2>2, <2>4, ArrivesPromise, LeavesPromise, ReturnsPromise, GrantsPromise
      <3> QED BY <3>1 DEF Promise!Next
    <2> QED BY <2>2, <2>3, <2>4 DEF StepKind
  <1>3. IndInv /\ (Steady /\ Claimed) /\ HeldDisjoint' /\ [Next]_vars
            => [Promise!Next]_<<Alive, Holdings>>
    BY <1>2
  <1>4. IndInv /\ (Steady /\ Claimed) /\ HeldDisjoint' /\ [Next]_vars
            => [Promise!Next]_<<{c \in Cluster : Exists(clusters[c])},
                                [c \in Cluster |-> [r \in Rule |-> Held(c, r)]]>>
    BY <1>3 DEF Alive, Holdings
  <1> QED
    BY <1>1, <1>4, ClaimsInductive, DisjointCidrs, Inductive, PTL DEF Spec, ImplementsLedger, Promise!Spec

-----------------------------------------------------------------------------
(***************************************************************************)
(* The Restore succeeds unless a call of its own fails, if the parents     *)
(* never change.  n is the number of failures so far, less one if the      *)
(* Restore is in trouble already: what has failed before a Restore got     *)
(* into trouble does not count.                                            *)
(***************************************************************************)
SmoothSince(n) == Smooth /\ (Troubled => used.failures > n)

(* Using up a bound does not undo a failure. *)
LEMMA FailuresGrow ==
    ASSUME ApiOK, NEW n \in Int,
           \/ UNCHANGED used
           \/ \E kind : ApiFails(kind)
           \/ \E kind : UserAction(kind)
           \/ \E kind, ok : Answered(kind, ok)
    PROVE  used.failures > n => used'.failures > n
  <1>1. used'.failures \in {used.failures, used.failures + 1} /\ used.failures \in Nat
    BY DEF ApiOK, ApiFails, UserAction, Answered
  <1> QED BY <1>1

(* A call that fails, or whose response is lost, counts as a failure. *)
LEMMA FailureCounts ==
    ASSUME ApiOK, NEW n \in Int, n <= used.failures,
           \E kind : ApiFails(kind) \/ Answered(kind, FALSE)
    PROVE  used'.failures > n
  <1>1. used'.failures = used.failures + 1 /\ used.failures \in Nat
    BY DEF ApiOK, ApiFails, Answered
  <1> QED BY <1>1

(* A step of the others disturbs no Restore. *)
LEMMA SmoothKept ==
    ASSUME NEW n \in Int, SmoothSince(n), UNCHANGED rs, used.failures > n => used'.failures > n,
           \A c \in Cluster, r \in Rule : Exists(ccs'[c][r]) => Exists(ccs[c][r]),
           rs \in Restoration, rs.pc = "apply" => rs.c \in Cluster
    PROVE  SmoothSince(n)'
  <1>1. Checking' <=> Checking
    BY DEF Checking
  <1> QED BY <1>1 DEF SmoothSince, Troubled, Smooth

(* There is no Restore, or it has just begun. *)
LEMMA SmoothStart ==
    ASSUME NEW n \in Int,
           \/ rs' = IdleRestore
           \/ rs' = [IdleRestore EXCEPT !.pc = "done"]
           \/ \E cfg, todo : rs' = [IdleRestore EXCEPT !.pc = "listCCs", !.cfg = cfg, !.todo = todo]
           \/ rs' = [IdleRestore EXCEPT !.pc = "failed"] /\ used'.failures > n
    PROVE  SmoothSince(n)'
  <1>1. ASSUME NEW cfg, NEW todo,
               rs' = [IdleRestore EXCEPT !.pc = "listCCs", !.cfg = cfg, !.todo = todo]
        PROVE  rs'.pc = "listCCs" /\ rs'.err = FALSE /\ rs'.bad = FALSE
    BY <1>1 DEF IdleRestore
  <1>2. ASSUME NEW pc, rs' = [IdleRestore EXCEPT !.pc = pc]
        PROVE  rs'.pc = pc /\ rs'.err = FALSE /\ rs'.bad = FALSE
    BY <1>2 DEF IdleRestore
  <1>3. CASE rs' = IdleRestore
    BY <1>3 DEF IdleRestore, SmoothSince, Troubled, Smooth, Checking
  <1> QED BY <1>1, <1>2, <1>3 DEF SmoothSince, Troubled, Smooth, Checking

(* Nothing is released from the empty IPAM state. *)
LEMMA EmptyRelease ==
    ASSUME NEW S
    PROVE  ~ReleaseFails(EmptyStore, S)
  <1>1. DOMAIN EmptyStore = {} /\ S \cap DOMAIN EmptyStore = {}
    BY DEF EmptyStore
  <1> DEFINE Q(R) == R = {c \in S \cap DOMAIN EmptyStore : EmptyStore[c] \in DOMAIN EmptyStore \ R}
  <1>2. Q({}) /\ {} \in SUBSET (S \cap DOMAIN EmptyStore)
    BY <1>1
  <1>3. ReleasedInOrder(EmptyStore, S) \in SUBSET (S \cap DOMAIN EmptyStore)
    <2> HIDE DEF Q
    <2>1. (CHOOSE R \in SUBSET (S \cap DOMAIN EmptyStore) : Q(R)) \in SUBSET (S \cap DOMAIN EmptyStore)
      BY <1>2
    <2> QED BY <2>1 DEF ReleasedInOrder, Q
  <1> QED BY <1>1, <1>3 DEF ReleaseFails

(* If every claim lies in a parent, the IPAM state can be rebuilt: below   *)
(* one parent, CIDRs of two rules are disjoint, and of two CIDRs of a rule *)
(* that overlap the inner one does not have the parent of the outer one.   *)
LEMMA RebuildWorks ==
    ASSUME Undisturbed, NEW G \in ClaimMap, DisjointClaims(G), InsideParents(G),
           NEW HC, HC = [k \in Cluster \X Rule |-> CidrsOf(G[k[1]][k[2]])]
    PROVE  ~RebuildFails(AllParents, HC)
  <1> DEFINE P == AllParents
  <1>1. P \in SUBSET CIDR /\ DisjointRanges(P)
    BY AllParentsType DEF Undisturbed
  <1>2. ASSUME NEW k \in DOMAIN HC
        PROVE  \E c \in Cluster, r \in Rule : k = <<c, r>> /\ HC[k] = CidrsOf(G[c][r])
    BY <1>2
  <1>3. ASSUME NEW k \in DOMAIN HC
        PROVE  HC[k] \in SUBSET CIDR
    BY <1>2, <1>3, ClaimCidrs
  <1>4. ASSUME NEW k \in DOMAIN HC, NEW x \in HC[k]
        PROVE  /\ x \in CIDR /\ x \notin P /\ \A p \in P : ~StrictlyContains(x, p)
               /\ ~Parentless(P, x)
    <2>1. PICK a \in P : StrictlyContains(a, x)
      BY <1>2, <1>4 DEF InsideParents
    <2>2. x \in CIDR
      BY <1>3, <1>4
    <2> QED BY <2>1, <2>2, InsideNoParent DEF Parentless, StrictlyContains, Overlaps
  <1>5. ASSUME NEW k \in DOMAIN HC, NEW l \in DOMAIN HC, NEW x \in HC[k], NEW y \in HC[l],
               <<k, x>> # <<l, y>>, Overlaps(x, y)
        PROVE  ParentOf(P, HC[k], x) # ParentOf(P, HC[l], y)
    <2>1. k = l
      BY <1>2, <1>5 DEF DisjointClaims
    <2>2. x \in CIDR /\ y \in CIDR /\ x # y /\ HC[k] \in SUBSET CIDR
      BY <1>3, <1>4, <1>5, <2>1
    <2>3. ASSUME NEW u \in HC[k], NEW v \in HC[k], u # v, Contains(u, v),
                 ParentOf(P, HC[k], u) = ParentOf(P, HC[k], v)
          PROVE  FALSE
      <3>1. u \in Around(P, HC[k], v) /\ u \in CIDR
        BY <1>3, <2>3 DEF Around, StrictlyContains
      <3>2. PICK q : q = ParentOf(P, HC[k], u)
        OBVIOUS
      <3>3. q \in CIDR /\ Contains(q, u) /\ q # u
        BY <1>1, <1>3, <1>4, <3>2, ParentOfAround DEF StrictlyContains
      <3>4. Contains(u, q)
        BY <1>1, <1>3, <1>4, <2>3, <3>1, <3>2, ParentOfAround
      <3> QED BY <3>1, <3>3, <3>4, ContainsAntisymmetric
    <2> QED BY <1>5, <2>1, <2>2, <2>3 DEF Overlaps
  <1> HIDE DEF P
  <1>6. ~\E k \in DOMAIN HC : \E x \in HC[k], p \in P : StrictlyContains(x, p)
    BY <1>4
  <1>7. ~\E k, l \in DOMAIN HC : \E x \in HC[k], y \in HC[l] :
            /\ x # y /\ Overlaps(x, y)
            /\ Parentless(P, x) /\ Parentless(P, y)
    BY <1>4
  <1>8. ~\E k, l \in DOMAIN HC : \E x \in HC[k] \ P, y \in HC[l] \ P :
            /\ <<k, x>> # <<l, y>> /\ Overlaps(x, y)
            /\ ~Parentless(P, x) /\ ~Parentless(P, y)
            /\ ParentOf(P, HC[k], x) = ParentOf(P, HC[l], y)
    BY <1>5
  <1> QED BY <1>1, <1>6, <1>7, <1>8 DEF RebuildFails, P

(* Users and foreign controllers create no ClusterConfig. *)
LEMMA EnvironmentSmooth ==
    ASSUME Undisturbed, IndInv, NEW n \in Int, n <= used.failures, SmoothSince(n),
           Environment, UNCHANGED rs
    PROVE  SmoothSince(n)'
  <1>1. ApiOK /\ rs \in Restoration /\ (rs.pc = "apply" => rs.c \in Cluster)
    BY DEF IndInv, ServiceOK, RestoreOK
  <1>2. ASSUME UNCHANGED ccs, used.failures > n => used'.failures > n
        PROVE  SmoothSince(n)'
    BY <1>1, <1>2, SmoothKept DEF Exists
  <1>3. ASSUME NEW c \in Cluster, NEW p \in Purpose, NEW named \in BOOLEAN, CreateCluster(c, p, named)
        PROVE  SmoothSince(n)'
    <2>1. UNCHANGED ccs /\ used' = [used EXCEPT !.names = @ \cup {c}]
      BY <1>3 DEF CreateCluster
    <2>2. used'.failures = used.failures
      BY <1>1, <2>1 DEF ApiOK
    <2> QED BY <1>2, <2>1, <2>2
  <1>4. ASSUME NEW c \in Cluster, DeleteCluster(c)
        PROVE  SmoothSince(n)'
    BY <1>2, <1>4 DEF DeleteCluster
  <1>5. ASSUME NEW c \in Cluster, NEW r \in Rule, GarbageCollect(c, r)
        PROVE  SmoothSince(n)'
    <2>1. Exists(ccs[c][r]) /\ UNCHANGED used /\ WriteClusterConfig(c, r, Deleted(ccs[c][r]))
      BY <1>5 DEF GarbageCollect
    <2>2. \A d \in Cluster, s \in Rule : Exists(ccs'[d][s]) => Exists(ccs[d][s])
      BY <1>1, <2>1 DEF ApiOK, WriteClusterConfig
    <2> QED BY <1>1, <2>1, <2>2, SmoothKept
  <1>6. ASSUME \/ \E c \in Cluster, op \in Operation : SetOperation(c, op)
               \/ \E cfg \in Configs : StoreConfig(cfg)
               \/ DeleteConfig \/ ChangeConfigMeta
        PROVE  SmoothSince(n)'
    <2>1. UNCHANGED ccs /\ (UNCHANGED used \/ \E kind : UserAction(kind))
      BY <1>6 DEF SetOperation, StoreConfig, DeleteConfig, ChangeConfigMeta
    <2> QED BY <1>1, <1>2, <2>1, FailuresGrow
  <1>7. ASSUME UserAction("edit") \/ UserAction("finalizer")
        PROVE  FALSE
    BY <1>7 DEF UserAction, Undisturbed
  <1> QED
    BY <1>3, <1>4, <1>5, <1>6, <1>7 DEF Environment, ForeignFinalizer, EditClusterConfig

(* The ClusterConfigs are listed. *)
LEMMA RestoreListSmooth ==
    ASSUME IndInv, NEW n \in Int, n <= used.failures, SmoothSince(n), RestoreList
    PROVE  SmoothSince(n)'
  <1>1. rs \in Restoration /\ ApiOK
    BY DEF IndInv, ServiceOK, RestoreOK
  <1>2. CASE rs' = [rs EXCEPT !.pc = "check", !.rest = ccs] /\ UNCHANGED used
    <2>1. rs'.pc = "check" /\ rs'.err = rs.err /\ rs'.bad = rs.bad /\ rs'.rest = ccs
      BY <1>1, <1>2 DEF Restoration
    <2>2. UNCHANGED ccs
      BY DEF RestoreList
    <2> QED BY <1>2, <2>1, <2>2 DEF SmoothSince, Troubled, Smooth
  <1>3. CASE ApiFails("list") /\ RestoreReturns("failed")
    <2>1. used'.failures > n
      BY <1>1, <1>3, FailureCounts
    <2> QED BY <1>3, <2>1, SmoothStart DEF RestoreReturns
  <1> QED BY <1>2, <1>3 DEF RestoreList

(* The integrity check: a ClusterConfig that is to be created was not      *)
(* listed and so does not exist.                                           *)
LEMMA RestoreCheckSmooth ==
    ASSUME IndInv, NEW n \in Int, n <= used.failures, SmoothSince(n),
           NEW c \in Cluster, RestoreCheck(c)
    PROVE  SmoothSince(n)'
  <1> DEFINE ri == CheckClusterConfigs(rs.todo[c].ann, rs.rest[c])
  <1>1. /\ rs \in Restoration /\ rs.pc = "check" /\ Exists(rs.todo[c]) /\ UNCHANGED <<ccs, used>>
    BY DEF IndInv, ServiceOK, RestoreOK, RestoreCheck
  <1>2. /\ rs'.pc \in {"check", "apply"} /\ rs'.c = c /\ rs'.bad = FALSE /\ rs'.err = rs.err
        /\ rs'.create = ri.create
        /\ rs'.todo = [rs.todo EXCEPT ![c] = NoObject]
        /\ rs'.rest = [rs.rest EXCEPT ![c] = NoConfigs]
    BY <1>1 DEF Restoration, RestoreCheck
  <1>3. \A r \in Rule : ri.create[r] # {} => ~Exists(rs.rest[c][r])
    BY DEF CheckClusterConfigs
  <1>4. \A d \in Cluster, r \in Rule : Exists(rs.todo[d]) /\ Exists(ccs[d][r]) => Exists(rs.rest[d][r])
    BY <1>1 DEF SmoothSince, Troubled, Smooth, Checking
  <1>5. \A d \in Cluster : IF d = c THEN rs'.todo[d] = NoObject
                           ELSE rs'.todo[d] = rs.todo[d] /\ rs'.rest[d] = rs.rest[d]
    BY <1>1, <1>2 DEF Restoration
  <1>6. \A d \in Cluster, r \in Rule :
            Exists(rs'.todo[d]) /\ Exists(ccs'[d][r]) => Exists(rs'.rest[d][r])
    BY <1>1, <1>4, <1>5 DEF Exists
  <1>7. \A r \in Rule : rs'.create[r] # {} => ~Exists(ccs'[c][r])
    BY <1>1, <1>2, <1>3, <1>4
  <1>8. rs'.err => used'.failures > n
    BY <1>1, <1>2 DEF SmoothSince, Troubled, Smooth
  <1> HIDE DEF ri
  <1> QED BY <1>2, <1>6, <1>7, <1>8 DEF SmoothSince, Troubled, Smooth

(* A ClusterConfig is created, unless the call fails. *)
LEMMA RestoreCreateSmooth ==
    ASSUME IndInv, NEW G, ClaimsOK(G), NEW n \in Int, n <= used.failures, SmoothSince(n),
           RestoreCreate
    PROVE  SmoothSince(n)'
  <1>1. rs \in Restoration /\ rs.pc = "apply" /\ rs.c \in Cluster /\ ApiOK
    BY DEF RestoreCreate, IndInv, ServiceOK, RestoreOK
  <1>2. PICK c \in Cluster : c = rs.c
    BY <1>1
  <1>3. PICK r \in Rule, ok \in BOOLEAN :
            /\ rs.create[r] # {}
            /\ ApplyCreate(c, r, rs.uid, rs.create[r], ok)
            /\ rs' = [rs EXCEPT !.create[r] = {}, !.bad = @ \/ ~ok]
    BY <1>2 DEF RestoreCreate
  <1>4. /\ rs'.pc = "apply" /\ rs'.todo = rs.todo /\ rs'.rest = rs.rest /\ rs'.c = c
        /\ rs'.err = rs.err /\ (rs'.bad => rs.bad \/ ~ok)
        /\ \A s \in Rule : rs'.create[s] = IF s = r THEN {} ELSE rs.create[s]
    BY <1>1, <1>2, <1>3 DEF Restoration
  <1>5. /\ \A s \in Rule : rs.create[s] # {} => ~Exists(ccs[c][s])
        /\ \A d \in Cluster, s \in Rule :
            Exists(rs.todo[d]) /\ Exists(ccs[d][s]) => Exists(rs.rest[d][s])
        /\ rs.err \/ rs.bad => used.failures > n
    BY <1>1, <1>2 DEF SmoothSince, Troubled, Smooth, Checking
  <1>6. PICK uid \in Nat, patches \in SUBSET Patch : uid = rs.uid /\ patches = rs.create[r]
    BY <1>1 DEF Restoration
  <1>7. UNCHANGED ccs \/ \A d \in Cluster, s \in Rule : (d = c /\ s = r) \/ ccs'[d][s] = ccs[d][s]
    <2>1. \E b \in BOOLEAN : ApplyCreate(c, r, uid, patches, b)
      BY <1>3, <1>6
    <2>2. Created(c, r, uid, patches)
      BY <2>1, ApplyCreateEffect
    <2> QED BY <2>2 DEF Created
  <1>8. ~Exists(rs.todo[c])
    BY <1>1, <1>2 DEF ClaimsOK, RestoreClaims, ApplyOK
  <1>9. used.failures > n => used'.failures > n
    <2>1. UNCHANGED used \/ ApiFails("create") \/ \E b : Answered("create", b)
      BY <1>3 DEF ApplyCreate
    <2> QED BY <1>1, <2>1, FailuresGrow
  <1>10. ~ok => used'.failures > n
    <2> SUFFICES ASSUME ~ok
                 PROVE  used'.failures > n
      OBVIOUS
    <2>1. ApplyCreate(c, r, uid, patches, FALSE)
      BY <1>3, <1>6
    <2>2. ~Exists(ccs[c][r])
      BY <1>3, <1>5
    <2>3. ApiFails("create") \/ Answered("create", FALSE)
      BY <2>1, <2>2 DEF ApplyCreate
    <2> QED BY <1>1, <2>3, FailureCounts
  <1>11. rs'.err \/ rs'.bad => used'.failures > n
    BY <1>4, <1>5, <1>9, <1>10
  <1>12. \A d \in Cluster, s \in Rule :
            Exists(rs'.todo[d]) /\ Exists(ccs'[d][s]) => Exists(rs'.rest[d][s])
    BY <1>4, <1>5, <1>7, <1>8
  <1>13. \A s \in Rule : rs'.create[s] # {} => ~Exists(ccs'[c][s])
    BY <1>4, <1>5, <1>7
  <1> QED BY <1>4, <1>11, <1>12, <1>13 DEF SmoothSince, Troubled, Smooth

(* The ClusterConfigs of the Cluster are listed again. *)
LEMMA RestoreRefetchSmooth ==
    ASSUME IndInv, NEW n \in Int, n <= used.failures, SmoothSince(n), RestoreRefetch
    PROVE  SmoothSince(n)'
  <1>1. rs \in Restoration /\ rs.pc = "apply" /\ UNCHANGED ccs /\ ApiOK
    BY DEF IndInv, ServiceOK, RestoreOK, RestoreRefetch
  <1>2. /\ rs'.pc = "check" /\ rs'.bad = rs.bad /\ rs'.todo = rs.todo /\ rs'.rest = rs.rest
        /\ rs'.err => rs.err \/ rs.bad \/ ApiFails("list")
    BY <1>1 DEF RestoreRefetch, Restoration
  <1>3. UNCHANGED used \/ ApiFails("list")
    BY DEF RestoreRefetch
  <1>4. used.failures > n => used'.failures > n
    BY <1>1, <1>3, FailuresGrow
  <1>5. ApiFails("list") => used'.failures > n
    BY <1>1, FailureCounts
  <1>6. rs'.err \/ rs'.bad => used'.failures > n
    BY <1>2, <1>4, <1>5 DEF SmoothSince, Troubled, Smooth
  <1> QED BY <1>1, <1>2, <1>6 DEF SmoothSince, Troubled, Smooth, Checking

(* The checks, or the orphans, are done. *)
LEMMA RestorePhaseSmooth ==
    ASSUME IndInv, NEW n \in Int, n <= used.failures, SmoothSince(n),
           RestoreChecked \/ RestoreOrphansHandled
    PROVE  SmoothSince(n)'
  <1>1. rs \in Restoration /\ rs.pc \in {"check", "orphans"} /\ UNCHANGED <<ccs, used>>
    BY DEF IndInv, ServiceOK, RestoreOK, RestoreChecked, RestoreOrphansHandled
  <1>2. CASE rs.err /\ RestoreReturns("failed")
    <2>1. used'.failures > n
      BY <1>1, <1>2 DEF SmoothSince, Troubled, Smooth
    <2> QED BY <1>2, <2>1, SmoothStart DEF RestoreReturns
  <1>3. CASE \E pc \in {"orphans", "build"} : rs' = [rs EXCEPT !.pc = pc]
    <2>1. /\ rs'.pc \in {"orphans", "build"} /\ rs'.err = rs.err /\ rs'.bad = rs.bad
          /\ rs'.todo = rs.todo /\ rs'.rest = rs.rest
      BY <1>1, <1>3 DEF Restoration
    <2> QED BY <1>1, <2>1 DEF SmoothSince, Troubled, Smooth, Checking
  <1> QED BY <1>2, <1>3 DEF RestoreChecked, RestoreOrphansHandled

(* While orphans are handled there is no Cluster left to check. *)
LEMMA OrphanSmooth ==
    ASSUME NEW n \in Int, rs.todo = NoClusters, rs'.todo = rs.todo,
           rs'.pc \in {"orphans", "delete", "release"},
           rs'.err \/ rs'.bad => used'.failures > n
    PROVE  SmoothSince(n)'
  <1>1. \A c \in Cluster : ~Exists(rs'.todo[c])
    BY DEF NoClusters, Exists
  <1> QED BY <1>1 DEF SmoothSince, Troubled, Smooth

(* The Cluster of an orphan is looked up. *)
LEMMA OrphanGetClusterSmooth ==
    ASSUME IndInv, NEW G, ClaimsOK(G), NEW n \in Int, n <= used.failures, SmoothSince(n),
           NEW c \in Cluster, NEW r \in Rule, OrphanGetCluster(c, r)
    PROVE  SmoothSince(n)'
  <1>1. rs \in Restoration /\ rs.pc = "orphans" /\ rs.todo = NoClusters /\ ApiOK
    BY DEF IndInv, ServiceOK, RestoreOK, OrphanGetCluster, ClaimsOK, RestoreClaims, OrphanOK
  <1>2. /\ rs'.pc \in {"orphans", "delete"} /\ rs'.bad = rs.bad /\ rs'.todo = rs.todo
        /\ rs'.err => rs.err \/ ApiFails("get")
    BY <1>1 DEF OrphanGetCluster, Restoration
  <1>3. UNCHANGED used \/ ApiFails("get")
    BY DEF OrphanGetCluster
  <1>4. /\ used.failures > n => used'.failures > n
        /\ ApiFails("get") => used'.failures > n
    BY <1>1, <1>3, FailuresGrow, FailureCounts
  <1>5. rs'.err \/ rs'.bad => used'.failures > n
    BY <1>2, <1>4 DEF SmoothSince, Troubled, Smooth
  <1> QED BY <1>1, <1>2, <1>5, OrphanSmooth

(* The orphan is deleted, unless the response is lost. *)
LEMMA OrphanDeleteSmooth ==
    ASSUME Undisturbed, IndInv, NEW G, ClaimsOK(G), NEW n \in Int, n <= used.failures,
           SmoothSince(n), OrphanDelete
    PROVE  SmoothSince(n)'
  <1>1. /\ rs.pc = "delete" /\ rs \in Restoration /\ rs.c \in Cluster /\ rs.r \in Rule /\ ApiOK
        /\ rs.todo = NoClusters
    BY DEF OrphanDelete, IndInv, ServiceOK, RestoreOK, ClaimsOK, RestoreClaims, OrphanOK
  <1>2. rs.err \/ rs.bad => used.failures > n
    BY <1>1 DEF SmoothSince, Troubled, Smooth
  <1>3. ASSUME rs' = OrphanHandled \/ rs' = [rs EXCEPT !.pc = "release"],
               UNCHANGED used
        PROVE  SmoothSince(n)'
    <2>1. /\ rs'.pc \in {"orphans", "release"} /\ rs'.todo = rs.todo
          /\ rs'.err = rs.err /\ rs'.bad = rs.bad
      BY <1>1, <1>3 DEF OrphanHandled, Restoration
    <2> QED BY <1>1, <1>2, <1>3, <2>1, OrphanSmooth
  <1>4. ASSUME rs' = [OrphanHandled EXCEPT !.err = TRUE], DeleteClusterConfig(rs.c, rs.r, FALSE)
        PROVE  SmoothSince(n)'
    <2>1. Answered("delete", FALSE)
      BY <1>4 DEF DeleteClusterConfig, ApiFails, Undisturbed
    <2>2. used'.failures > n
      BY <1>1, <2>1, FailureCounts
    <2>3. rs'.pc = "orphans" /\ rs'.todo = rs.todo
      BY <1>1, <1>4 DEF OrphanHandled, Restoration
    <2> QED BY <1>1, <2>2, <2>3, OrphanSmooth
  <1>5. DeleteClusterConfig(rs.c, rs.r, TRUE) => UNCHANGED used
    BY DEF DeleteClusterConfig, Answered
  <1> QED BY <1>3, <1>4, <1>5 DEF OrphanDelete

(* Its CIDRs are released from the empty IPAM state, and the object is     *)
(* there for the finalizer to be removed.                                  *)
LEMMA OrphanReleaseSmooth ==
    ASSUME IndInv, Steady, NEW G, ClaimsOK(G), NEW n \in Int, n <= used.failures,
           SmoothSince(n), OrphanReleaseCIDRs
    PROVE  SmoothSince(n)'
  <1>1. /\ rs.pc = "release" /\ rs \in Restoration /\ rs.c \in Cluster /\ rs.r \in Rule /\ ApiOK
        /\ rs.todo = NoClusters
    BY DEF OrphanReleaseCIDRs, IndInv, ServiceOK, RestoreOK, ClaimsOK, RestoreClaims, OrphanOK
  <1>2. rs.err \/ rs.bad => used.failures > n
    BY <1>1 DEF SmoothSince, Troubled, Smooth
  <1>3. PICK cc : cc = rs.rest[rs.c][rs.r]
    OBVIOUS
  <1>4. PICK ok \in BOOLEAN :
            ReleaseCIDRs(rs.c, rs.r, cc, ok) /\ rs' = [OrphanHandled EXCEPT !.err = @ \/ ~ok]
    BY <1>3 DEF OrphanReleaseCIDRs
  <1>5. rs'.pc = "orphans" /\ rs'.todo = rs.todo /\ rs'.bad = rs.bad /\ (rs'.err => rs.err \/ ~ok)
    BY <1>1, <1>4 DEF OrphanHandled, Restoration
  <1>6. ~FinalizerPatchFails(ccs[rs.c][rs.r], cc)
    <2>1. Exists(cc) /\ Left(G, rs.c, rs.r, cc, ccs[rs.c][rs.r]) /\ cc.fin
      BY <1>1, <1>3 DEF IndInv, ServiceOK, RestoreOK, ClaimsOK, RestoreClaims, RestOK, OrphanOK
    <2>2. Exists(ccs[rs.c][rs.r]) /\ ~cc.foreign
      BY <2>1 DEF Left, Shape, Live
    <2> QED BY <2>2 DEF FinalizerPatchFails
  <1>7. ~ReleaseFails(ipam, CidrsOf(cc.patches))
    <2>1. ipam = EmptyStore
      BY <1>1, RestoreRuns
    <2> QED BY <2>1, EmptyRelease
  <1>8. ASSUME ~ok
        PROVE  used'.failures > n
    <2>1. ReleaseCIDRs(rs.c, rs.r, cc, FALSE)
      BY <1>4, <1>8
    <2>2. ApiFails("release") \/ Answered("release", FALSE)
      BY <1>6, <1>7, <2>1 DEF ReleaseCIDRs
    <2> QED BY <1>1, <2>2, FailureCounts
  <1>9. used.failures > n => used'.failures > n
    <2>1. UNCHANGED used \/ ApiFails("release") \/ \E b : Answered("release", b)
      BY <1>4 DEF ReleaseCIDRs
    <2> QED BY <1>1, <2>1, FailuresGrow
  <1> QED BY <1>1, <1>2, <1>5, <1>8, <1>9, OrphanSmooth

(* The IPAM state can be rebuilt from what was handled. *)
LEMMA RestoreBuildSmooth ==
    ASSUME Undisturbed, ParentsStay, IndInv, NEW G \in ClaimMap, ClaimsOK(G),
           NEW n \in Int, RestoreBuild
    PROVE  SmoothSince(n)'
  <1>1. rs.pc = "build" /\ rs \in Restoration
    BY DEF RestoreBuild, IndInv, ServiceOK, RestoreOK
  <1>2. Configured /\ HandledOK(G) /\ DisjointClaims(G) /\ InsideParents(G)
    BY DEF ClaimsOK, RestoreClaims
  <1>3. ParentCIDRs(rs.cfg) = AllParents
    <2>1. rs.cfg \in Configs
      BY <1>1, <1>2 DEF Configured
    <2> QED BY <2>1 DEF AllParents, ParentsStay
  <1>4. PICK H : H = [c \in Cluster |-> [r \in Rule |->
                            IF Exists(rs.handled[c][r]) THEN G[c][r] ELSE {}]]
    OBVIOUS
  <1>5. \A c \in Cluster, r \in Rule :
            H[c][r] = IF Exists(rs.handled[c][r]) THEN G[c][r] ELSE {}
    BY <1>4
  <1>6. H \in ClaimMap
    BY <1>4 DEF ClaimMap
  <1>7. CidrsOf({}) = {}
    BY DEF CidrsOf
  <1>8. DisjointClaims(H) /\ InsideParents(H)
    BY <1>2, <1>5, <1>7 DEF DisjointClaims, InsideParents, DisjointRanges
  <1>9. PICK HC : HC = HandledCidrs
    OBVIOUS
  <1>10. HC = [k \in Cluster \X Rule |-> CidrsOf(H[k[1]][k[2]])]
    <2>1. ASSUME NEW k \in Cluster \X Rule
          PROVE  (IF Exists(rs.handled[k[1]][k[2]]) THEN CidrsOf(rs.handled[k[1]][k[2]].patches) ELSE {})
                  = CidrsOf(H[k[1]][k[2]])
      <3>1. PICK c \in Cluster, r \in Rule : k[1] = c /\ k[2] = r
        OBVIOUS
      <3>2. CASE Exists(rs.handled[c][r])
        BY <1>2, <1>5, <3>1, <3>2 DEF HandledOK
      <3>3. CASE ~Exists(rs.handled[c][r])
        BY <1>5, <1>7, <3>1, <3>3
      <3> QED BY <3>2, <3>3
    <2> QED BY <1>9, <2>1 DEF HandledCidrs
  <1>11. ~RebuildFails(AllParents, HC)
    BY <1>6, <1>8, <1>10, RebuildWorks
  <1>12. RestoreReturns("done")
    BY <1>3, <1>9, <1>11 DEF RestoreBuild
  <1> QED BY <1>12, SmoothStart DEF RestoreReturns

(* A step of a Restore. *)
LEMMA RestoreStepSmooth ==
    ASSUME Undisturbed, ParentsStay, IndInv, Steady, NEW G \in ClaimMap, ClaimsOK(G),
           NEW n \in Int, n <= used.failures, SmoothSince(n), RestoreStep
    PROVE  SmoothSince(n)'
  <1>1. CASE RestoreList \/ \E c \in Cluster : RestoreCheck(c)
    BY <1>1, RestoreListSmooth, RestoreCheckSmooth
  <1>2. CASE RestoreCreate \/ RestoreRefetch
    BY <1>2, RestoreCreateSmooth, RestoreRefetchSmooth
  <1>3. CASE RestoreChecked \/ RestoreOrphansHandled
    BY <1>3, RestorePhaseSmooth
  <1>4. CASE \/ \E c \in Cluster, r \in Rule : OrphanGetCluster(c, r)
             \/ OrphanDelete \/ OrphanReleaseCIDRs
    BY <1>4, OrphanGetClusterSmooth, OrphanDeleteSmooth, OrphanReleaseSmooth
  <1>5. CASE RestoreBuild
    BY <1>5, RestoreBuildSmooth
  <1> QED BY <1>1, <1>2, <1>3, <1>4, <1>5, RestoreUpdateImpossible DEF RestoreStep

(* The controllers run when the Restore is over. *)
LEMMA ClusterReconcileSmooth ==
    ASSUME IndInv, Steady, NEW n \in Int, ClusterReconcile, UNCHANGED rs
    PROVE  SmoothSince(n)'
  <1>1. wk.pc # "idle" \/ proc = "running"
    BY DEF ClusterReconcile, FetchCluster, FetchClusterFails, RemoveOperationAnnotation,
           GetConfigAgain, ManageInjections, ManageInjectionsFails, GenerateInjection, GenerateInjectionFails,
           PatchAnnotation, ApplyCreates, ApplyUpdates, FinishCreateOrUpdate,
           ListForDelete, ListForDeleteFails, ReleaseForDelete, DeleteForDelete, FinishDelete
  <1>2. proc = "running"
    BY <1>1, WorkerRuns
  <1>3. rs' = IdleRestore
    BY <1>2 DEF Steady, Phases
  <1> QED BY <1>3, SmoothStart

(* The config controller never refreshes. *)
LEMMA ConfigReconcileSmooth ==
    ASSUME IndInv, Steady, NEW n \in Int, n <= used.failures, SmoothSince(n), ConfigReconcile
    PROVE  SmoothSince(n)'
  <1>1. ApiOK /\ rs \in Restoration /\ (rs.pc = "apply" => rs.c \in Cluster)
    BY DEF IndInv, ServiceOK, RestoreOK
  <1>2. cf.pc \notin {"refresh", "refreshing"}
    BY DEF Steady, Phases
  <1>3. FetchConfig \/ RemoveConfigOperation \/ QueueClusters \/ SetConfig \/ RefreshDue
    BY <1>2 DEF ConfigReconcile, Refresh, RefreshReturns
  <1>4. UNCHANGED <<ccs, rs>>
    BY <1>3 DEF FetchConfig, RemoveConfigOperation, QueueClusters, SetConfig, RefreshDue,
                configUnchanged
  <1>5. \/ UNCHANGED used
        \/ \E kind : ApiFails(kind)
        \/ \E kind : UserAction(kind)
        \/ \E kind, ok : Answered(kind, ok)
    BY <1>3 DEF FetchConfig, RemoveConfigOperation, QueueClusters, SetConfig, RefreshDue
  <1> QED BY <1>1, <1>4, <1>5, SmoothKept, FailuresGrow

(* Every step preserves it. *)
LEMMA NextSmooth ==
    ASSUME Undisturbed, ParentsStay, IndInv, Steady, Claimed,
           NEW n \in Int, n <= used.failures, SmoothSince(n), [Next]_vars
    PROVE  SmoothSince(n)'
  <1>1. PICK G \in ClaimMap : ClaimsOK(G)
    BY DEF Claimed
  <1>2. ApiOK
    BY DEF IndInv, ServiceOK
  <1>3. CASE Environment /\ UNCHANGED <<ipam, lock, wk, rs, cf, standby>>
    BY <1>3, EnvironmentSmooth
  <1>4. CASE ClusterReconcile /\ UNCHANGED <<rs, cf, standby>>
    BY <1>4, ClusterReconcileSmooth
  <1>5. CASE ConfigReconcile
    BY <1>5, ConfigReconcileSmooth
  <1>6. CASE RestoreStep
    BY <1>1, <1>6, RestoreStepSmooth
  <1>7. CASE Start
    <2>1. BeginRestore(stored.spec)
      BY <1>7 DEF Start
    <2>2. \/ \E cfg, todo : rs' = [IdleRestore EXCEPT !.pc = "listCCs", !.cfg = cfg, !.todo = todo]
          \/ ApiFails("list") /\ rs' = [IdleRestore EXCEPT !.pc = "failed"]
      BY <2>1 DEF BeginRestore, RestoreReturns
    <2>3. ApiFails("list") => used'.failures > n
      BY <1>2, FailureCounts
    <2> QED BY <2>2, <2>3, SmoothStart
  <1>8. CASE StartManager \/ BootFails \/ Crash
    <2>1. rs' = IdleRestore
      BY <1>8 DEF StartManager, BootFails, Crash, ProcessExits
    <2> QED BY <2>1, SmoothStart
  <1>9. CASE UNCHANGED vars
    BY <1>9 DEF vars, SmoothSince, Troubled, Smooth, Checking, Exists
  <1> QED
    BY <1>3, <1>4, <1>5, <1>6, <1>7, <1>8, <1>9, TakeOverImpossible DEF Next

(* There is no Restore before the first start. *)
LEMMA InitSmooth ==
    ASSUME Init
    PROVE  Smooth
  <1>1. rs.pc = "idle" /\ rs.err = FALSE /\ rs.bad = FALSE
    BY DEF Init, IdleRestore
  <1> QED BY <1>1 DEF Smooth, Checking

(* A step keeps it, and only a failing call brings a Restore into trouble. *)
LEMMA StepSmooth ==
    ASSUME Undisturbed, ParentsStay, IndInv, Steady, Claimed, Smooth, [Next]_vars
    PROVE  Smooth' /\ (~Troubled /\ Troubled' => used'.failures > used.failures)
  <1>1. used.failures \in Nat
    BY DEF IndInv, ServiceOK, ApiOK
  <1>2. PICK n \in Int : n = IF Troubled THEN used.failures - 1 ELSE used.failures
    BY <1>1
  <1>3. n <= used.failures /\ (Troubled => used.failures > n)
    BY <1>1, <1>2
  <1>4. SmoothSince(n)
    BY <1>3 DEF SmoothSince
  <1>5. SmoothSince(n)'
    BY <1>3, <1>4, NextSmooth
  <1>6. Smooth' /\ (Troubled' => used'.failures > n)
    BY <1>5 DEF SmoothSince
  <1> QED BY <1>2, <1>6

(* A Restore gets into trouble only by a step in which one of its own      *)
(* calls fails or loses its response: whatever the service has written,    *)
(* over crashes, lost responses and failures of earlier calls, the IPAM    *)
(* state can be rebuilt from it, as long as the parents stay.              *)
THEOREM RestoreWorks == Undisturbed /\ ParentsStay => (Spec => RestoreSucceeds)
  <1> SUFFICES ASSUME Undisturbed, ParentsStay PROVE Spec => RestoreSucceeds
    OBVIOUS
  <1>1. Init => Smooth
    BY InitSmooth
  <1>2. IndInv /\ (Steady /\ Claimed) /\ Smooth /\ [Next]_vars => Smooth'
    BY StepSmooth
  <1>3. IndInv /\ (Steady /\ Claimed) /\ Smooth /\ [Next]_vars
            => [~Troubled /\ Troubled' => used'.failures > used.failures]_vars
    BY StepSmooth
  <1> QED BY <1>1, <1>2, <1>3, ClaimsInductive, Inductive, PTL DEF Spec, RestoreSucceeds

-----------------------------------------------------------------------------
(***************************************************************************)
(* The claims can be computed: what anybody has.                           *)
(***************************************************************************)

(* What somebody has of rule r of Cluster c. *)
Parts(c, r) ==
    {IF Exists(clusters[c]) THEN clusters[c].ann[r] ELSE {},
     IF Live(ccs[c][r]) THEN ccs[c][r].patches ELSE {},
     IF wk.pc \in {"config", "list", "generate", "annotate", "apply"} /\ wk.c = c THEN wk.cl.ann[r] ELSE {},
     IF wk.pc \in {"config", "list", "generate", "annotate", "apply"} /\ wk.c = c THEN wk.ann[r] ELSE {},
     IF wk.pc \in {"config", "list", "generate", "annotate", "apply"} /\ wk.c = c THEN wk.create[r] ELSE {},
     IF wk.pc = "generate" /\ wk.c = c /\ wk.rules[CurrentRule].id = r THEN wk.raw ELSE {},
     IF Exists(rs.todo[c]) THEN rs.todo[c].ann[r] ELSE {},
     IF Live(rs.rest[c][r]) THEN rs.rest[c][r].patches ELSE {},
     IF Exists(rs.handled[c][r]) THEN rs.handled[c][r].patches ELSE {},
     IF rs.pc = "apply" /\ rs.c = c THEN rs.create[r] ELSE {}}

(* Together they are the claim that CurrentClaims has. *)
LEMMA CurrentParts ==
    ASSUME NEW c \in Cluster, NEW r \in Rule
    PROVE  CurrentClaims[c][r] = UNION Parts(c, r)
  <1> DEFINE A == IF Exists(clusters[c]) THEN clusters[c].ann[r] ELSE {}
             B == IF Live(ccs[c][r]) THEN ccs[c][r].patches ELSE {}
             w == wk.pc \in {"config", "list", "generate", "annotate", "apply"} /\ wk.c = c
             C == IF w THEN wk.cl.ann[r] ELSE {}
             D == IF w THEN wk.ann[r] ELSE {}
             E == IF w THEN wk.create[r] ELSE {}
             F == IF wk.pc = "generate" /\ wk.c = c /\ wk.rules[CurrentRule].id = r THEN wk.raw ELSE {}
             H == IF Exists(rs.todo[c]) THEN rs.todo[c].ann[r] ELSE {}
             I == IF Live(rs.rest[c][r]) THEN rs.rest[c][r].patches ELSE {}
             J == IF Exists(rs.handled[c][r]) THEN rs.handled[c][r].patches ELSE {}
             K == IF rs.pc = "apply" /\ rs.c = c THEN rs.create[r] ELSE {}
             W == IF w THEN wk.cl.ann[r] \cup wk.ann[r] \cup wk.create[r] ELSE {}
  <1>1. CurrentClaims[c][r] = A \cup B \cup W \cup F \cup H \cup I \cup J \cup K
    BY DEF CurrentClaims
  <1>2. W = C \cup D \cup E
    OBVIOUS
  <1>3. Parts(c, r) = {A, B, C, D, E, F, H, I, J, K}
    BY DEF Parts
  <1> HIDE DEF A, B, C, D, E, F, H, I, J, K, W
  <1>4. UNION {A, B, C, D, E, F, H, I, J, K}
            = A \cup B \cup (C \cup D \cup E) \cup F \cup H \cup I \cup J \cup K
    OBVIOUS
  <1> QED BY <1>1, <1>2, <1>3, <1>4

(* Whoever has anything of a rule has all that is claimed for it. *)
LEMMA PartsCopies ==
    ASSUME IndInv, NEW G, ClaimsOK(G), NEW c \in Cluster, NEW r \in Rule
    PROVE  /\ CurrentClaims[c][r] = {} \/ CurrentClaims[c][r] = G[c][r]
           /\ \A S \in Parts(c, r) : Copy(S, CurrentClaims[c][r])
  <1>1. Exists(clusters[c]) => Copy(clusters[c].ann[r], G[c][r])
    BY DEF ClaimsOK, AnnotationCopies
  <1>2. Live(ccs[c][r]) => ccs[c][r].patches = G[c][r]
    BY DEF ClaimsOK, ClusterConfigCopies, Live
  <1>3. wk.pc \in {"config", "list", "generate", "annotate", "apply"} /\ wk.c = c =>
            /\ Copy(wk.cl.ann[r], G[c][r]) /\ Copy(wk.ann[r], G[c][r])
            /\ Copy(wk.create[r], G[c][r])
    BY DEF ClaimsOK, WorkerClaims, WorkerCopies
  <1>4. wk.pc = "generate" /\ wk.c = c /\ wk.rules[CurrentRule].id = r => Copy(wk.raw, G[c][r])
    BY DEF ClaimsOK, WorkerClaims, Generating
  <1>5. Exists(rs.todo[c]) => Copy(rs.todo[c].ann[r], G[c][r])
    BY DEF ClaimsOK, RestoreClaims, TodoOK
  <1>6. Live(rs.rest[c][r]) => rs.rest[c][r].patches = G[c][r]
    BY DEF ClaimsOK, RestoreClaims, RestOK, Left, Live
  <1>7. Exists(rs.handled[c][r]) => rs.handled[c][r].patches = G[c][r]
    BY DEF ClaimsOK, RestoreClaims, HandledOK
  <1>8. rs.pc = "apply" /\ rs.c = c => Copy(rs.create[r], G[c][r])
    BY DEF ClaimsOK, RestoreClaims, ApplyOK
  <1>9. \A S \in Parts(c, r) : Copy(S, G[c][r])
    BY <1>1, <1>2, <1>3, <1>4, <1>5, <1>6, <1>7, <1>8 DEF Parts, Copy
  <1>10. CurrentClaims[c][r] = UNION Parts(c, r)
    BY CurrentParts
  <1> QED BY <1>9, <1>10 DEF Copy

(* The parts one by one. *)
LEMMA CurrentCopies ==
    ASSUME IndInv, NEW G, ClaimsOK(G), NEW c \in Cluster, NEW r \in Rule,
           NEW K, K = CurrentClaims
    PROVE  /\ K[c][r] = {} \/ K[c][r] = G[c][r]
           /\ Exists(clusters[c]) => Copy(clusters[c].ann[r], K[c][r])
           /\ Live(ccs[c][r]) => G[c][r] = K[c][r]
           /\ wk.pc \in {"config", "list", "generate", "annotate", "apply"} /\ wk.c = c =>
                /\ Copy(wk.cl.ann[r], K[c][r]) /\ Copy(wk.ann[r], K[c][r])
                /\ Copy(wk.create[r], K[c][r])
           /\ wk.pc = "generate" /\ wk.c = c /\ wk.rules[CurrentRule].id = r => Copy(wk.raw, K[c][r])
           /\ Exists(rs.todo[c]) => Copy(rs.todo[c].ann[r], K[c][r])
           /\ Live(rs.rest[c][r]) => G[c][r] = K[c][r]
           /\ Exists(rs.handled[c][r]) => G[c][r] = K[c][r]
           /\ rs.pc = "apply" /\ rs.c = c => Copy(rs.create[r], K[c][r])
  <1>1. K[c][r] = {} \/ K[c][r] = G[c][r]
    BY PartsCopies
  <1>2. \A S \in Parts(c, r) : Copy(S, K[c][r])
    BY PartsCopies
  <1>3. Exists(clusters[c]) => Copy(clusters[c].ann[r], K[c][r])
    BY <1>2 DEF Parts
  <1>4. Live(ccs[c][r]) => G[c][r] = K[c][r]
    <2>1. Live(ccs[c][r]) => Copy(ccs[c][r].patches, K[c][r])
      BY <1>2 DEF Parts
    <2>2. Live(ccs[c][r]) => ccs[c][r].patches = G[c][r]
      BY DEF ClaimsOK, ClusterConfigCopies, Live
    <2> QED BY <1>1, <2>1, <2>2 DEF Copy
  <1>5. wk.pc \in {"config", "list", "generate", "annotate", "apply"} /\ wk.c = c =>
            /\ Copy(wk.cl.ann[r], K[c][r]) /\ Copy(wk.ann[r], K[c][r])
            /\ Copy(wk.create[r], K[c][r])
    BY <1>2 DEF Parts
  <1>6. wk.pc = "generate" /\ wk.c = c /\ wk.rules[CurrentRule].id = r => Copy(wk.raw, K[c][r])
    BY <1>2 DEF Parts
  <1>7. Exists(rs.todo[c]) => Copy(rs.todo[c].ann[r], K[c][r])
    BY <1>2 DEF Parts
  <1>8. Live(rs.rest[c][r]) => G[c][r] = K[c][r]
    <2>1. Live(rs.rest[c][r]) => Copy(rs.rest[c][r].patches, K[c][r])
      BY <1>2 DEF Parts
    <2>2. Live(rs.rest[c][r]) => rs.rest[c][r].patches = G[c][r]
      BY DEF ClaimsOK, RestoreClaims, RestOK, Left, Live
    <2> QED BY <1>1, <2>1, <2>2 DEF Copy
  <1>9. Exists(rs.handled[c][r]) => G[c][r] = K[c][r]
    <2>1. Exists(rs.handled[c][r]) => Copy(rs.handled[c][r].patches, K[c][r])
      BY <1>2 DEF Parts
    <2>2. Exists(rs.handled[c][r]) => rs.handled[c][r].patches = G[c][r]
      BY DEF ClaimsOK, RestoreClaims, HandledOK
    <2> QED BY <1>1, <2>1, <2>2 DEF Copy
  <1>10. rs.pc = "apply" /\ rs.c = c => Copy(rs.create[r], K[c][r])
    BY <1>2 DEF Parts
  <1> QED BY <1>1, <1>3, <1>4, <1>5, <1>6, <1>7, <1>8, <1>9, <1>10

(* So what anybody has accounts for every copy, if any claims do. *)
LEMMA CurrentClaimsOK ==
    ASSUME IndInv, NEW G \in ClaimMap, ClaimsOK(G)
    PROVE  CurrentClaims \in ClaimMap /\ ClaimsOK(CurrentClaims)
  <1>1. PICK K : K = CurrentClaims
    OBVIOUS
  <1>2. ASSUME NEW c \in Cluster, NEW r \in Rule
        PROVE  /\ K[c][r] = {} \/ K[c][r] = G[c][r]
               /\ Exists(clusters[c]) => Copy(clusters[c].ann[r], K[c][r])
               /\ Live(ccs[c][r]) => G[c][r] = K[c][r]
               /\ wk.pc \in {"config", "list", "generate", "annotate", "apply"} /\ wk.c = c =>
                    /\ Copy(wk.cl.ann[r], K[c][r]) /\ Copy(wk.ann[r], K[c][r])
                    /\ Copy(wk.create[r], K[c][r])
               /\ wk.pc = "generate" /\ wk.c = c /\ wk.rules[CurrentRule].id = r =>
                    Copy(wk.raw, K[c][r])
               /\ Exists(rs.todo[c]) => Copy(rs.todo[c].ann[r], K[c][r])
               /\ Live(rs.rest[c][r]) => G[c][r] = K[c][r]
               /\ Exists(rs.handled[c][r]) => G[c][r] = K[c][r]
               /\ rs.pc = "apply" /\ rs.c = c => Copy(rs.create[r], K[c][r])
    BY <1>1, CurrentCopies
  <1>3. \A c \in Cluster, r \in Rule : CidrsOf(K[c][r]) \subseteq CidrsOf(G[c][r])
    BY <1>2 DEF CidrsOf
  <1>4. AnnotationCopies(K)
    BY <1>2 DEF ClaimsOK, AnnotationCopies
  <1>5. ClusterConfigCopies(K)
    BY <1>2 DEF ClaimsOK, ClusterConfigCopies, Live
  <1>6. WorkerClaims(K)
    <2>1. wk.pc # "idle" => wk.c \in Cluster
      BY DEF IndInv, ServiceOK, WorkerOK
    <2>2. WorkerScratch /\ WorkerCopies(G) /\ Generating(G) /\ Deleting(G)
      BY DEF ClaimsOK, WorkerClaims
    <2>3. WorkerCopies(K)
      BY <1>2, <2>1, <2>2 DEF WorkerCopies
    <2>4. Generating(K)
      <3>1. wk.pc = "generate" => wk.rules[CurrentRule].id \in Rule
        BY GeneratingType DEF IndInv, ServiceOK
      <3> QED BY <1>2, <2>1, <2>2, <3>1 DEF Generating
    <2>5. Deleting(K)
      BY <1>2, <2>1, <2>2 DEF Deleting, Listed
    <2> QED BY <2>2, <2>3, <2>4, <2>5 DEF WorkerClaims
  <1>7. RestoreClaims(K)
    <2>1. /\ Configured /\ Listing /\ TodoOK(G) /\ RestOK(G) /\ HandledOK(G)
          /\ ApplyOK(G) /\ OrphanOK /\ Covered
      BY DEF ClaimsOK, RestoreClaims
    <2>2. TodoOK(K)
      BY <1>2, <2>1 DEF TodoOK
    <2>3. RestOK(K)
      BY <1>2, <2>1 DEF RestOK, Left, Live
    <2>4. HandledOK(K)
      BY <1>2, <2>1 DEF HandledOK
    <2>5. ApplyOK(K)
      <3>1. rs.pc = "apply" => rs.c \in Cluster
        BY DEF IndInv, ServiceOK, RestoreOK
      <3> QED BY <1>2, <2>1, <3>1 DEF ApplyOK
    <2> QED BY <2>1, <2>2, <2>3, <2>4, <2>5 DEF RestoreClaims
  <1>8. DisjointClaims(K) /\ InsideParents(K) /\ Blocked(K)
    <2>1. DisjointClaims(G) /\ InsideParents(G) /\ Blocked(G)
      BY DEF ClaimsOK
    <2>2. DisjointClaims(K)
      BY <1>3, <2>1 DEF DisjointClaims, DisjointRanges
    <2>3. InsideParents(K)
      BY <1>3, <2>1 DEF InsideParents
    <2>4. Blocked(K)
      BY <1>3, <2>1 DEF Blocked, BlockedIn
    <2> QED BY <2>2, <2>3, <2>4
  <1>9. ClaimsOK(K)
    BY <1>4, <1>5, <1>6, <1>7, <1>8 DEF ClaimsOK
  <1>10. K \in ClaimMap
    <2>1. /\ K = [c \in Cluster |-> K[c]]
          /\ \A c \in Cluster : K[c] = [r \in Rule |-> K[c][r]]
      BY <1>1 DEF CurrentClaims
    <2>2. \A c \in Cluster, r \in Rule : K[c][r] \in SUBSET Patch
      BY <1>2 DEF ClaimMap
    <2>3. \A c \in Cluster : K[c] \in [Rule -> SUBSET Patch]
      BY <2>1, <2>2
    <2> QED BY <2>1, <2>3 DEF ClaimMap
  <1> QED BY <1>1, <1>9, <1>10

(* In every state the claims can be read off it: what the annotation, the  *)
(* ClusterConfig and the processes have of a rule is the same, all of it   *)
(* is blocked, and the claims of two rules are disjoint.                   *)
THEOREM ClaimsComputed == Spec => []ClaimsHold
  <1>1. CASE ~Undisturbed
    <2>1. ClaimsHold
      BY <1>1 DEF ClaimsHold
    <2> QED BY <2>1, PTL
  <1>2. CASE Undisturbed
    <2>1. ASSUME IndInv, Steady, Claimed, ParentsStay => Smooth
          PROVE  ClaimsHold
      <3>1. CurrentClaims \in ClaimMap /\ ClaimsOK(CurrentClaims)
        BY <2>1, CurrentClaimsOK DEF Claimed
      <3> QED BY <2>1, <3>1 DEF ClaimsHold
    <2>2. Init => (ParentsStay => Smooth)
      BY InitSmooth
    <2>3. IndInv /\ (Steady /\ Claimed) /\ (ParentsStay => Smooth) /\ [Next]_vars
            => (ParentsStay => Smooth)'
      <3>1. ParentsStay' = ParentsStay
        BY DEF ParentsStay
      <3> QED BY <1>2, <3>1, StepSmooth
    <2> QED BY <1>2, <2>1, <2>2, <2>3, ClaimsInductive, Inductive, PTL DEF Spec
  <1> QED BY <1>1, <1>2
=============================================================================
