----------------------------- MODULE ClaimProofs -----------------------------
(***************************************************************************)
(* The users, the config controller and the Cluster controller preserve    *)
(* the invariant of Claims.tla.  RestoreProofs.tla has the steps of a      *)
(* Restore and PromiseProofs.tla the theorems.                             *)
(***************************************************************************)
EXTENDS GardenerIpamProofs, Claims

-----------------------------------------------------------------------------
(* Claims and the IPAM state.                                              *)

(* Parents are CIDRs. *)
LEMMA AllParentsType == AllParents \in SUBSET CIDR
  <1>1. ASSUME NEW cfg \in Configs
        PROVE  ParentCIDRs(cfg) \in SUBSET CIDR
    BY ConfigType, ParentCIDRsType
  <1> QED BY <1>1 DEF AllParents

(* The CIDRs of a claim are CIDRs. *)
LEMMA ClaimCidrs ==
    ASSUME NEW G \in ClaimMap, NEW c \in Cluster, NEW r \in Rule
    PROVE  CidrsOf(G[c][r]) \in SUBSET CIDR
  BY CidrsOfType DEF ClaimMap

(* Overlapping is symmetric. *)
LEMMA OverlapsSymmetric ==
    ASSUME NEW a, NEW b
    PROVE  Overlaps(a, b) <=> Overlaps(b, a)
  BY DEF Overlaps

(* A range around one of two overlapping ranges overlaps the other. *)
LEMMA OverlapsAround ==
    ASSUME NEW z \in CIDR, NEW x \in CIDR, NEW y \in CIDR, Contains(z, x), Overlaps(x, y)
    PROVE  Overlaps(z, y)
  <1>1. CASE Contains(x, y)
    BY <1>1, ContainsTransitive DEF Overlaps
  <1>2. CASE Contains(y, x)
    <2>1. Len(z) \in Nat /\ Len(y) \in Nat
      BY CidrLen
    <2>2. CASE Len(z) <= Len(y)
      BY <1>2, <2>2, AroundComparable DEF Overlaps
    <2>3. CASE Len(y) <= Len(z)
      BY <1>2, <2>3, AroundComparable DEF Overlaps
    <2> QED BY <2>1, <2>2, <2>3
  <1> QED BY <1>1, <1>2 DEF Overlaps

(* What lies strictly inside a parent is no parent and contains none. *)
LEMMA InsideNoParent ==
    ASSUME Undisturbed, NEW x \in CIDR, NEW a \in AllParents, StrictlyContains(a, x)
    PROVE  x \notin AllParents /\ \A p \in AllParents : ~StrictlyContains(x, p)
  <1>1. a \in CIDR /\ AllParents \in SUBSET CIDR
    BY AllParentsType
  <1>2. x \notin AllParents
    BY DEF Undisturbed, DisjointRanges, StrictlyContains, Overlaps
  <1>3. ASSUME NEW p \in AllParents, StrictlyContains(x, p)
        PROVE  FALSE
    <2>1. Contains(a, x) /\ Contains(x, p) /\ p \in CIDR /\ a # x
      BY <1>1, <1>3 DEF StrictlyContains
    <2>2. Contains(a, p)
      BY <1>1, <2>1, ContainsTransitive
    <2>3. a = p
      BY <2>2 DEF Undisturbed, DisjointRanges, Overlaps
    <2> QED BY <1>1, <2>1, <2>3, ContainsAntisymmetric
  <1> QED BY <1>2, <1>3

(* Forgetting the CIDRs of one claim leaves the others blocked. *)
LEMMA ForgetClaim ==
    ASSUME NEW G \in ClaimMap, NEW st, IsStore(st), BlockedIn(st, G),
           DisjointClaims(G), InsideParents(G),
           NEW c \in Cluster, NEW r \in Rule, NEW R, R \subseteq CidrsOf(G[c][r]),
           NEW H, H = [G EXCEPT ![c][r] = {}]
    PROVE  H \in ClaimMap /\ BlockedIn(Forget(st, R), H) /\ DisjointClaims(H) /\ InsideParents(H)
  <1>1. /\ H \in ClaimMap
        /\ \A d \in Cluster, s \in Rule : H[d][s] = IF <<d, s>> = <<c, r>> THEN {} ELSE G[d][s]
    BY DEF ClaimMap
  <1>2. CidrsOf({}) = {}
    BY DEF CidrsOf
  <1>3. DisjointClaims(H) /\ InsideParents(H)
    BY <1>1, <1>2 DEF DisjointClaims, InsideParents, DisjointRanges
  <1> DEFINE new == Forget(st, R)
  <1>4. DOMAIN new = DOMAIN st \ R /\ \A x \in DOMAIN new : new[x] = st[x]
    BY DEF Forget
  <1> HIDE DEF new
  <1>5. TopParents(new)
    BY <1>4 DEF BlockedIn, TopParents
  <1>6. ASSUME NEW d \in Cluster, NEW s \in Rule, NEW x \in CidrsOf(H[d][s])
        PROVE  Anchored(new, x)
    <2>1. <<d, s>> # <<c, r>> /\ H[d][s] = G[d][s]
      BY <1>1, <1>2, <1>6
    <2>2. Anchored(st, x)
      BY <1>6, <2>1 DEF BlockedIn
    <2>3. PICK z \in CIDR : Anchor(st, z) /\ Contains(z, x)
      BY <2>2 DEF Anchored
    <2>4. x \in CIDR /\ \A y \in R : y \in CIDR /\ ~Overlaps(x, y)
      BY <1>6, <2>1, ClaimCidrs DEF DisjointClaims
    <2>5. x \notin R
      BY <2>4, ContainsReflexive DEF Overlaps
    <2>6. z \notin R
      BY <2>3, <2>4, ContainsReflexive DEF Overlaps
    <2> QED BY <1>4, <2>2, <2>3, <2>5, <2>6 DEF Anchored, Anchor
  <1> QED BY <1>1, <1>3, <1>5, <1>6 DEF BlockedIn, new

(* A CIDR that AcquireChildPrefix returns for a parent of a config, or for *)
(* a CIDR of the same claim, overlaps no other claim and lies strictly     *)
(* inside a parent.                                                        *)
LEMMA AcquiredFree ==
    ASSUME Undisturbed, NEW G \in ClaimMap, NEW st, IsStore(st), WellFormed(st), BlockedIn(st, G),
           DisjointClaims(G), InsideParents(G),
           NEW c \in Cluster, NEW r \in Rule,
           NEW p, p \in AllParents \/ p \in CidrsOf(G[c][r]),
           NEW size, NEW cidr \in FreeChildren(st, p, size)
    PROVE  /\ \E a \in AllParents : StrictlyContains(a, cidr)
           /\ \A d \in Cluster, s \in Rule : <<d, s>> # <<c, r>> =>
                \A x \in CidrsOf(G[d][s]) : ~Overlaps(x, cidr)
           /\ p \in AllParents =>
                \A d \in Cluster, s \in Rule : \A x \in CidrsOf(G[d][s]) : ~Overlaps(x, cidr)
           /\ Anchored(Record(st, cidr, p), cidr)
  <1>1. /\ cidr \in CIDR /\ p \in DOMAIN st /\ p \in CIDR
        /\ Contains(p, cidr) /\ p # cidr /\ cidr \notin DOMAIN st
        /\ \A x \in DOMAIN st : st[x] = p => ~Overlaps(x, cidr)
    BY DEF FreeChildren, ChildrenOf, IsStore
  <1> DEFINE new == Record(st, cidr, p)
  <1>2. /\ DOMAIN new = DOMAIN st \cup {cidr} /\ new[cidr] = p
        /\ \A x \in DOMAIN st : new[x] = st[x]
    BY <1>1 DEF Record
  <1> HIDE DEF new
  <1>3. CASE p \in AllParents
    <2>1. StrictlyContains(p, cidr)
      BY <1>1 DEF StrictlyContains
    <2>2. ASSUME NEW d \in Cluster, NEW s \in Rule, NEW x \in CidrsOf(G[d][s]), Overlaps(x, cidr)
          PROVE  FALSE
      <3>1. x \in CIDR
        BY ClaimCidrs
      <3>2. PICK z \in CIDR : Anchor(st, z) /\ Contains(z, x)
        BY DEF BlockedIn, Anchored
      <3>3. Overlaps(z, cidr)
        BY <1>1, <2>2, <3>1, <3>2, OverlapsAround
      <3>4. st[z] # p
        BY <1>1, <3>2, <3>3 DEF Anchor
      <3>5. Overlaps(p, z)
        BY <1>1, <3>3, OverlapsAround, OverlapsSymmetric
      <3>6. CASE st[z] = NoCidr
        <4>1. st[p] = NoCidr /\ z # p /\ z \in DOMAIN st
          BY <1>1, <1>3, <3>2 DEF BlockedIn, TopParents, Anchor
        <4> QED BY <1>1, <3>5, <3>6, <4>1 DEF WellFormed, SiblingsDisjoint
      <3>7. CASE st[z] \in AllParents
        <4>1. st[z] \in CIDR /\ st[z] # NoCidr
          BY <3>7, AllParentsType, GoIpamAssumption
        <4>2. Contains(st[z], z)
          BY <3>2, <4>1 DEF Anchor, WellFormed, ParentAroundChild, StrictlyContains
        <4>3. Overlaps(st[z], p)
          BY <1>1, <3>5, <4>1, <4>2, OverlapsAround, OverlapsSymmetric
        <4> QED BY <1>3, <3>4, <3>7, <4>3 DEF Undisturbed, DisjointRanges
      <3> QED BY <3>2, <3>6, <3>7 DEF Anchor
    <2>3. cidr \notin AllParents
      BY <1>1, <1>3, <2>1, InsideNoParent
    <2>4. Anchored(new, cidr)
      BY <1>1, <1>2, <1>3, <2>3, ContainsReflexive DEF Anchored, Anchor
    <2> QED BY <1>3, <2>1, <2>2, <2>4 DEF new
  <1>4. CASE p \in CidrsOf(G[c][r])
    <2>1. PICK a \in AllParents : StrictlyContains(a, p)
      BY <1>4 DEF InsideParents
    <2>2. a \in CIDR /\ Contains(a, p) /\ a # p
      BY <2>1, AllParentsType DEF StrictlyContains
    <2>3. Contains(a, cidr)
      BY <1>1, <2>2, ContainsTransitive
    <2>4. a # cidr
      BY <1>1, <2>2, ContainsAntisymmetric
    <2>5. ASSUME NEW d \in Cluster, NEW s \in Rule, <<d, s>> # <<c, r>>,
                 NEW x \in CidrsOf(G[d][s]), Overlaps(x, cidr)
          PROVE  FALSE
      <3>1. x \in CIDR
        BY ClaimCidrs
      <3>2. Overlaps(p, x)
        BY <1>1, <2>5, <3>1, OverlapsAround, OverlapsSymmetric
      <3> QED BY <1>4, <2>5, <3>2 DEF DisjointClaims
    <2>6. PICK z \in CIDR : Anchor(st, z) /\ Contains(z, p)
      BY <1>4 DEF BlockedIn, Anchored
    <2>7. Contains(z, cidr)
      BY <1>1, <2>6, ContainsTransitive
    <2>8. Anchored(new, cidr)
      BY <1>2, <2>6, <2>7 DEF Anchored, Anchor
    <2>9. p \notin AllParents
      BY <1>1, <2>1, InsideNoParent
    <2> QED BY <2>1, <2>3, <2>4, <2>5, <2>8, <2>9 DEF new, StrictlyContains
  <1> QED BY <1>3, <1>4

(* Recording a new CIDR keeps what is blocked blocked. *)
LEMMA RecordBlocked ==
    ASSUME NEW st, NEW p, NEW cidr, cidr \notin DOMAIN st
    PROVE  /\ \A x \in CIDR : Anchored(st, x) => Anchored(Record(st, cidr, p), x)
           /\ cidr \notin AllParents /\ TopParents(st) => TopParents(Record(st, cidr, p))
  <1> DEFINE new == Record(st, cidr, p)
  <1>1. DOMAIN new = DOMAIN st \cup {cidr} /\ \A x \in DOMAIN st : new[x] = st[x]
    BY DEF Record
  <1> HIDE DEF new
  <1>2. \A x \in CIDR : Anchored(st, x) => Anchored(new, x)
    BY <1>1 DEF Anchored, Anchor
  <1>3. cidr \notin AllParents /\ TopParents(st) => TopParents(new)
    BY <1>1 DEF TopParents
  <1> QED BY <1>2, <1>3 DEF new

(* A solution of the equation of ReleasedInOrder for the CIDRs of T up to  *)
(* size n.                                                                 *)
ReleasedUpTo(st, T, n, R) ==
    /\ \A c \in R : c \in T /\ Len(c) < n
    /\ \A c \in T : Len(c) < n => (c \in R <=> st[c] \in DOMAIN st \ R)

(* A solution up to one size extends to the next: a parent is larger than  *)
(* its child.                                                              *)
LEMMA ReleasedExtends ==
    ASSUME NEW st, IsStore(st), ParentAroundChild(st), NEW T \in SUBSET (DOMAIN st),
           NEW n \in Nat, NEW R, ReleasedUpTo(st, T, n, R)
    PROVE  \E Q : ReleasedUpTo(st, T, n + 1, Q)
  <1> DEFINE Q == {c \in T : c \in R \/ (Len(c) = n /\ st[c] \in DOMAIN st \ R)}
  <1>1. ASSUME NEW c \in T
        PROVE  Len(c) \in Nat /\ (st[c] \in DOMAIN st => Len(st[c]) \in Nat /\ Len(st[c]) < Len(c))
    <2>1. c \in CIDR
      BY DEF IsStore
    <2>2. ASSUME st[c] \in DOMAIN st
          PROVE  Len(st[c]) \in Nat /\ Len(st[c]) < Len(c)
      <3>1. st[c] \in CIDR /\ st[c] # NoCidr
        BY <2>2, GoIpamAssumption DEF IsStore
      <3>2. Contains(st[c], c) /\ st[c] # c
        BY <3>1 DEF ParentAroundChild, StrictlyContains
      <3>3. Len(st[c]) <= Len(c) /\ Len(st[c]) \in Nat /\ Len(c) \in Nat
        BY <2>1, <3>1, <3>2, CidrLen DEF Contains
      <3>4. Len(st[c]) # Len(c)
        <4>1. SUFFICES ASSUME Len(st[c]) = Len(c) PROVE FALSE
          OBVIOUS
        <4>2. Contains(c, st[c])
          BY <2>1, <3>1, <3>2, <3>3, <4>1, CidrLen DEF Contains
        <4> QED BY <2>1, <3>1, <3>2, <4>2, ContainsAntisymmetric
      <3> QED BY <3>3, <3>4
    <2> QED BY <2>1, <2>2, CidrLen
  <1>2. \A c \in R : c \in T /\ Len(c) < n
    BY DEF ReleasedUpTo
  <1>3. \A c \in Q : c \in T /\ Len(c) < n + 1
    BY <1>1, <1>2
  <1>4. ASSUME NEW c \in T, Len(c) < n + 1
        PROVE  c \in Q <=> st[c] \in DOMAIN st \ Q
    <2>1. Len(c) \in Nat /\ (Len(c) < n \/ Len(c) = n)
      BY <1>1, <1>4
    <2>2. st[c] \in DOMAIN st => (st[c] \in Q <=> st[c] \in R)
      <3>1. SUFFICES ASSUME st[c] \in DOMAIN st PROVE st[c] \in Q <=> st[c] \in R
        OBVIOUS
      <3>2. Len(st[c]) \in Nat /\ Len(st[c]) < n
        BY <1>1, <2>1, <3>1
      <3> QED BY <1>2, <3>2
    <2>3. CASE Len(c) < n
      <3>1. c \in R <=> st[c] \in DOMAIN st \ R
        BY <2>3 DEF ReleasedUpTo
      <3>2. c \in Q <=> c \in R
        BY <2>1, <2>3
      <3> QED BY <2>2, <3>1, <3>2
    <2>4. CASE Len(c) = n
      <3>1. c \notin R
        BY <1>2, <2>1, <2>4
      <3> QED BY <2>2, <2>4, <3>1
    <2> QED BY <2>1, <2>3, <2>4
  <1> QED BY <1>3, <1>4 DEF ReleasedUpTo

(* ReleaseChildPrefix in order is well-defined: it drops a set of the      *)
(* given CIDRs, and the rest have no parent left.                          *)
LEMMA ReleasedSubset ==
    ASSUME NEW st, IsStore(st), WellFormed(st), NEW S
    PROVE  /\ ReleasedInOrder(st, S) \subseteq S \cap DOMAIN st
           /\ \A c \in S \cap DOMAIN st :
                c \in ReleasedInOrder(st, S) <=> st[c] \in DOMAIN st \ ReleasedInOrder(st, S)
  <1> DEFINE T   == S \cap DOMAIN st
             Bad == {n \in Nat : ~\E R : ReleasedUpTo(st, T, n, R)}
  <1>1. ParentAroundChild(st) /\ T \in SUBSET (DOMAIN st)
    BY DEF WellFormed
  <1>2. \A c \in T : Len(c) \in Nat /\ Len(c) < Width + 1
    BY CidrLen, WidthAssumption DEF IsStore
  <1> HIDE DEF T
  <1>3. 0 \notin Bad
    <2>1. ReleasedUpTo(st, T, 0, {})
      BY <1>2 DEF ReleasedUpTo
    <2> QED BY <2>1
  <1>4. ASSUME NEW n \in Nat, n \notin Bad
        PROVE  n + 1 \notin Bad
    BY <1>1, <1>4, ReleasedExtends
  <1> HIDE DEF Bad
  <1>5. Bad = {}
    <2>1. SUFFICES ASSUME Bad # {} PROVE FALSE
      OBVIOUS
    <2>2. Bad \in SUBSET Nat
      BY DEF Bad
    <2>3. PICK n \in Bad : \A k \in Bad : n <= k
      BY <2>1, <2>2, LeastNatural
    <2>4. n \in Nat /\ n # 0
      BY <1>3, <2>2, <2>3
    <2>5. n - 1 \in Nat /\ n - 1 \notin Bad /\ (n - 1) + 1 = n
      BY <2>3, <2>4
    <2> QED BY <1>4, <2>3, <2>5
  <1>6. Width + 1 \in Nat
    BY WidthAssumption
  <1>7. PICK R : ReleasedUpTo(st, T, Width + 1, R)
    BY <1>5, <1>6 DEF Bad
  <1>8. R \in SUBSET T /\ R = {c \in T : st[c] \in DOMAIN st \ R}
    BY <1>2, <1>7 DEF ReleasedUpTo
  <1>9. \E Q \in SUBSET T : Q = {c \in T : st[c] \in DOMAIN st \ Q}
    BY <1>8
  <1>10. PICK Q : Q = ReleasedInOrder(st, S)
    OBVIOUS
  <1>11. Q \in SUBSET T /\ Q = {c \in T : st[c] \in DOMAIN st \ Q}
    BY <1>9, <1>10 DEF ReleasedInOrder, T
  <1> QED BY <1>10, <1>11 DEF T

-----------------------------------------------------------------------------
(* Objects.                                                                *)

(* The webhook changes nothing but the references of a Cluster. *)
LEMMA DefaultFields ==
    ASSUME NEW cl \in ClusterObject, NEW named
    PROVE  LET d == Default(cl, named)
           IN  d.uid = cl.uid /\ d.purpose = cl.purpose /\ d.op = cl.op /\ d.ann = cl.ann
  BY DEF Default, ClusterObject

(* What a deletion, by the garbage collector or the service, may make of a *)
(* ClusterConfig.                                                          *)
Aged(old, new) ==
    \/ new = old
    \/ ~Live(old) /\ new = NoObject
    \/ /\ Live(old) /\ Live(new) /\ new.patches = old.patches
       /\ ~new.foreign /\ new.deleting

(* A deletion removes a ClusterConfig without finalizers at once. *)
LEMMA DeletedAged ==
    ASSUME NEW cc \in ClusterConfig, Shape(cc)
    PROVE  /\ Aged(cc, Deleted(cc))
           /\ Exists(Deleted(cc)) => Live(Deleted(cc)) /\ Deleted(cc).deleting
  <1> DEFINE d == [cc EXCEPT !.deleting = TRUE]
  <1>1. /\ d \in ClusterConfig /\ d.deleting /\ ~d.foreign
        /\ d.fin = cc.fin /\ d.patches = cc.patches
    BY DEF ClusterConfig, Shape
  <1>2. Exists(d) /\ Exists(cc)
    BY <1>1, NoObjectType DEF Exists
  <1>3. CASE cc.fin
    <2>1. Deleted(cc) = d /\ d.fin
      BY <1>1, <1>3 DEF Deleted, Persisted
    <2> HIDE DEF d
    <2> QED BY <1>1, <1>2, <1>3, <2>1 DEF Aged, Live
  <1>4. CASE ~cc.fin
    <2>1. Deleted(cc) = NoObject
      BY <1>1, <1>4 DEF Deleted, Persisted
    <2> QED BY <1>4, <2>1 DEF Aged, Live, Exists
  <1> QED BY <1>3, <1>4

(* Clusters come under new names and never change what they were given;    *)
(* ClusterConfigs are at most deleted.                                     *)
ClustersTame ==
    \A c \in Cluster : Exists(clusters'[c]) =>
        IF Exists(clusters[c])
        THEN clusters'[c].ann = clusters[c].ann /\ clusters'[c].purpose = clusters[c].purpose
        ELSE c \notin used.names /\ clusters'[c].ann = NoInjections

Tame ==
    /\ ClustersTame
    /\ \A c \in Cluster, r \in Rule : Aged(ccs[c][r], ccs'[c][r])
    /\ used.names \subseteq used'.names

(* A tame step entitles nobody and withdraws no entitlement. *)
LEMMA EntitledTame ==
    ASSUME ClustersTame, NEW c \in Cluster, Entitled(c), c \in used.names
    PROVE  Entitled(c)'
  <1>1. CASE Exists(clusters[c])
    BY <1>1 DEF ClustersTame, Entitled
  <1>2. CASE ~Exists(clusters[c])
    BY <1>2 DEF ClustersTame, Entitled
  <1> QED BY <1>1, <1>2

(* A Cluster that is gone stays gone. *)
LEMMA GoneTame ==
    ASSUME ClustersTame, NEW c \in Cluster, c \in used.names, ~Exists(clusters[c])
    PROVE  ~Exists(clusters'[c])
  BY DEF ClustersTame

(* A tame step keeps every copy in an annotation or a ClusterConfig. *)
LEMMA ObjectsTame ==
    ASSUME Named, Tame, NEW G, AnnotationCopies(G), ClusterConfigCopies(G)
    PROVE  AnnotationCopies(G)' /\ ClusterConfigCopies(G)'
  <1>1. ASSUME NEW c \in Cluster, NEW r \in Rule, Exists(clusters'[c])
        PROVE  /\ Copy(clusters'[c].ann[r], G[c][r])
               /\ clusters'[c].ann[r] # {} => Entitled(c)'
    <2>1. CASE Exists(clusters[c])
      <3>1. /\ clusters'[c].ann = clusters[c].ann
            /\ Copy(clusters[c].ann[r], G[c][r])
            /\ clusters[c].ann[r] # {} => Entitled(c)
            /\ c \in used.names
        BY <1>1, <2>1 DEF Tame, ClustersTame, AnnotationCopies, Named
      <3> QED BY <3>1, EntitledTame DEF Tame
    <2>2. CASE ~Exists(clusters[c])
      BY <1>1, <2>2 DEF Tame, ClustersTame, NoInjections, Copy
    <2> QED BY <2>1, <2>2
  <1>2. ASSUME NEW c \in Cluster, NEW r \in Rule, Exists(ccs'[c][r])
        PROVE  /\ Shape(ccs'[c][r])
               /\ ccs'[c][r].fin => ccs'[c][r].patches = G[c][r]
               /\ ~ccs'[c][r].fin => ~Exists(clusters'[c])
               /\ Entitled(c)'
    <2>1. Aged(ccs[c][r], ccs'[c][r]) /\ Exists(ccs[c][r])
      BY <1>2 DEF Tame, Aged, Live, Exists
    <2>2. /\ Shape(ccs[c][r])
          /\ ccs[c][r].fin => ccs[c][r].patches = G[c][r]
          /\ ~ccs[c][r].fin => ~Exists(clusters[c])
          /\ Entitled(c) /\ c \in used.names
      BY <2>1 DEF ClusterConfigCopies, Named
    <2>3. /\ Shape(ccs'[c][r])
          /\ ccs'[c][r].fin => ccs'[c][r].patches = G[c][r]
          /\ ~ccs'[c][r].fin => ~ccs[c][r].fin
      BY <1>2, <2>1, <2>2 DEF Aged, Live, Shape, Exists
    <2> QED BY <2>2, <2>3, EntitledTame, GoneTame DEF Tame
  <1> QED BY <1>1, <1>2 DEF AnnotationCopies, ClusterConfigCopies

(* So it does in the memory of the Cluster controller. *)
LEMMA WorkerTame ==
    ASSUME Named, Tame, UNCHANGED wk, WorkerOK, NEW G, WorkerClaims(G)
    PROVE  WorkerClaims(G)'
  <1>1. WorkerScratch'
    BY DEF WorkerClaims, WorkerScratch
  <1>2. wk.pc # "idle" => wk.c \in Cluster /\ wk.c \in used.names
    BY DEF WorkerOK, Named
  <1>3. WorkerCopies(G)'
    BY <1>2, EntitledTame DEF WorkerClaims, WorkerCopies, Tame
  <1>4. ASSUME NEW r \in Rule, wk.c \in Cluster
        PROVE  /\ Live(ccs[wk.c][r]) => Live(ccs'[wk.c][r])
               /\ ~Exists(ccs[wk.c][r]) => ~Exists(ccs'[wk.c][r])
    BY <1>4 DEF Tame, Aged, Live, Exists
  <1>5. Generating(G)'
    <2>1. CurrentRule' = CurrentRule
      BY DEF CurrentRule
    <2>2. wk.pc = "generate" => \A i \in wk.todo : wk.rules[i].id \in Rule
      BY RulesType DEF WorkerOK
    <2> QED BY <1>2, <1>4, <2>1, <2>2 DEF WorkerClaims, Generating, Untouched
  <1>6. Deleting(G)'
    BY <1>2, <1>4, GoneTame DEF WorkerClaims, Deleting, Listed, Tame
  <1> QED BY <1>1, <1>3, <1>5, <1>6 DEF WorkerClaims

(* And in that of a Restore. *)
LEMMA RestoreTame ==
    ASSUME Named, Tame, UNCHANGED rs, RestoreOK, NEW G, RestoreClaims(G)
    PROVE  RestoreClaims(G)'
  <1>1. ASSUME NEW c \in Cluster, NEW r \in Rule
        PROVE  /\ Live(ccs[c][r]) <=> Live(ccs'[c][r])
               /\ Exists(ccs'[c][r]) => Exists(ccs[c][r])
               /\ Exists(ccs'[c][r]) /\ ~ccs'[c][r].fin => Exists(ccs[c][r]) /\ ~ccs[c][r].fin
               /\ Exists(ccs'[c][r]) => ccs'[c][r].deleting \/ ccs'[c][r] = ccs[c][r]
               /\ Exists(ccs'[c][r]) => Live(ccs'[c][r]) \/ ccs'[c][r] = ccs[c][r]
    BY DEF Tame, Aged, Live, Exists
  <1>2. ASSUME NEW c \in Cluster, NEW r \in Rule, Exists(clusters'[c])
        PROVE  /\ clusters'[c].ann[r] # {} => Exists(clusters[c]) /\ clusters'[c].ann = clusters[c].ann
               /\ c \in used.names => Exists(clusters[c]) /\ clusters'[c].ann = clusters[c].ann
    BY <1>2 DEF Tame, ClustersTame, NoInjections
  <1>3. Listing'
    <2> SUFFICES ASSUME rs.pc = "listCCs", NEW c \in Cluster, NEW r \in Rule
                 PROVE  /\ Exists(clusters'[c]) /\ clusters'[c].ann[r] # {} => Exists(rs.todo[c])
                        /\ Exists(clusters'[c]) /\ Exists(ccs'[c][r]) => Exists(rs.todo[c])
                        /\ Exists(ccs'[c][r]) /\ ~ccs'[c][r].fin => ~Exists(rs.todo[c])
      BY DEF Listing, Exists
    <2>1. /\ Exists(clusters[c]) /\ clusters[c].ann[r] # {} => Exists(rs.todo[c])
          /\ Exists(clusters[c]) /\ Exists(ccs[c][r]) => Exists(rs.todo[c])
          /\ Exists(ccs[c][r]) /\ ~ccs[c][r].fin => ~Exists(rs.todo[c])
      BY DEF RestoreClaims, Listing
    <2>2. Exists(ccs[c][r]) => c \in used.names
      BY DEF Named
    <2> QED BY <1>1, <1>2, <2>1, <2>2
  <1>4. TodoOK(G)'
    <2> SUFFICES ASSUME NEW c \in Cluster, Exists(rs.todo[c])
                 PROVE  /\ c \in used'.names
                        /\ Entitled(c)'
                        /\ \A r \in Rule : Copy(rs.todo[c].ann[r], G[c][r])
                        /\ Exists(clusters'[c]) => clusters'[c].ann = rs.todo[c].ann
      BY DEF TodoOK, Exists
    <2>1. /\ c \in used.names /\ Entitled(c)
          /\ \A r \in Rule : Copy(rs.todo[c].ann[r], G[c][r])
          /\ Exists(clusters[c]) => clusters[c].ann = rs.todo[c].ann
      BY DEF RestoreClaims, TodoOK
    <2>2. Exists(clusters'[c]) => Exists(clusters[c]) /\ clusters'[c].ann = clusters[c].ann
      BY <2>1 DEF Tame, ClustersTame
    <2> QED BY <2>1, <2>2, EntitledTame DEF Tame
  <1>5. RestOK(G)'
    <2> SUFFICES ASSUME NEW c \in Cluster, NEW r \in Rule, Exists(rs.rest[c][r])
                 PROVE  Left(G, c, r, rs.rest[c][r], ccs[c][r])'
      BY DEF RestOK, Exists
    <2>1. Left(G, c, r, rs.rest[c][r], ccs[c][r])
      BY DEF RestoreClaims, RestOK
    <2>2. ~Exists(clusters[c]) => ~Exists(clusters'[c])
      BY <2>1, GoneTame DEF Left, Tame
    <2>3. /\ rs.rest[c][r].fin => Live(ccs'[c][r])
          /\ Exists(ccs'[c][r]) /\ rs.rest[c][r].deleting => ccs'[c][r].deleting
          /\ Exists(ccs'[c][r]) /\ ccs'[c][r].fin => rs.rest[c][r].fin
      BY <1>1, <2>1 DEF Left, Live
    <2> QED BY <2>1, <2>2, <2>3 DEF Left, Tame, Exists
  <1>6. HandledOK(G)'
    BY DEF RestoreClaims, HandledOK, Exists
  <1>7. ApplyOK(G)'
    <2>1. rs.pc = "apply" => rs.c \in Cluster
      BY DEF RestoreOK
    <2> QED BY <2>1, EntitledTame DEF RestoreClaims, ApplyOK, Tame, Exists
  <1>8. OrphanOK'
    <2>1. rs.pc = "release" => rs.c \in Cluster /\ rs.r \in Rule
      BY DEF RestoreOK
    <2> QED BY <1>1, <2>1 DEF RestoreClaims, OrphanOK, Exists
  <1>9. Covered'
    <2> SUFFICES ASSUME Checking, NEW c \in Cluster, NEW r \in Rule
                 PROVE  /\ Exists(ccs'[c][r]) /\ ~ccs'[c][r].fin => Exists(rs.rest[c][r])
                        /\ ~rs.err /\ Exists(clusters'[c]) /\ clusters'[c].ann[r] # {} =>
                            \/ Exists(rs.todo[c])
                            \/ /\ rs.pc = "apply" /\ c = rs.c
                               /\ rs.bad \/ rs.create[r] # {} \/ Exists(ccs'[c][r])
                            \/ Exists(rs.handled[c][r])
                        /\ ~rs.err /\ Live(ccs'[c][r]) =>
                            \/ Exists(rs.rest[c][r])
                            \/ rs.pc = "apply" /\ c = rs.c
                            \/ Exists(rs.handled[c][r])
      BY DEF Covered, Checking, Live, Exists
    <2>1. /\ Exists(ccs[c][r]) /\ ~ccs[c][r].fin => Exists(rs.rest[c][r])
          /\ ~rs.err /\ Exists(clusters[c]) /\ clusters[c].ann[r] # {} =>
                \/ Exists(rs.todo[c])
                \/ rs.pc = "apply" /\ c = rs.c /\ (rs.bad \/ rs.create[r] # {} \/ Exists(ccs[c][r]))
                \/ Exists(rs.handled[c][r])
          /\ ~rs.err /\ Live(ccs[c][r]) =>
                \/ Exists(rs.rest[c][r])
                \/ rs.pc = "apply" /\ c = rs.c
                \/ Exists(rs.handled[c][r])
      BY DEF RestoreClaims, Covered
    <2>2. rs.pc = "apply" /\ c = rs.c => ~Exists(rs.rest[c][r])
      BY DEF RestoreClaims, ApplyOK
    <2>3. rs.pc = "apply" /\ c = rs.c /\ Exists(ccs[c][r]) => Exists(ccs'[c][r])
      BY <1>1, <2>1, <2>2 DEF Live
    <2> QED BY <1>1, <1>2, <2>1, <2>3
  <1>10. Configured'
    BY DEF RestoreClaims, Configured
  <1> QED BY <1>3, <1>4, <1>5, <1>6, <1>7, <1>8, <1>9, <1>10 DEF RestoreClaims

(* And a ClusterConfig keeps its finalizer. *)
LEMMA FinalizedTame ==
    ASSUME Finalized, Tame, UNCHANGED <<wk, rs, proc>>
    PROVE  Finalized'
  <1>1. Ready' = Ready
    BY DEF Ready
  <1> QED BY <1>1 DEF Finalized, Tame, Aged, Live, Exists

(* The names in use only grow. *)
LEMMA NamedStep ==
    ASSUME Named, used.names \subseteq used'.names, queue' \subseteq used'.names,
           wk'.pc # "idle" => wk'.c \in used'.names,
           \A c \in Cluster : Exists(clusters'[c]) => Exists(clusters[c]) \/ c \in used'.names,
           \A c \in Cluster, r \in Rule :
                Exists(ccs'[c][r]) => Exists(ccs[c][r]) \/ c \in used'.names
    PROVE  Named'
  BY DEF Named

(* A tame step of anybody but the Cluster controller and the Restore. *)
LEMMA TameStep ==
    ASSUME IndInv, Steady, Tame, queue' \subseteq used'.names,
           \A c \in Cluster : Exists(clusters'[c]) => Exists(clusters[c]) \/ c \in used'.names,
           cf'.pc \notin {"refresh", "refreshing"},
           UNCHANGED <<wk, rs, ipam, proc, standby>>,
           NEW G, ClaimsOK(G)
    PROVE  Steady' /\ ClaimsOK(G)'
  <1>1. Ready' = Ready
    BY DEF Ready
  <1>2. Phases'
    BY <1>1 DEF Steady, Phases
  <1>3. Named'
    <2>1. \A c \in Cluster, r \in Rule : Exists(ccs'[c][r]) => Exists(ccs[c][r])
      BY DEF Tame, Aged, Live, Exists
    <2>2. wk'.pc # "idle" => wk'.c \in used'.names
      BY DEF Steady, Named, Tame
    <2> QED BY <2>1, <2>2, NamedStep DEF Steady, Tame
  <1>4. Finalized'
    BY FinalizedTame DEF Steady
  <1>5. AnnotationCopies(G)' /\ ClusterConfigCopies(G)'
    BY ObjectsTame DEF Steady, ClaimsOK
  <1>6. WorkerClaims(G)' /\ RestoreClaims(G)'
    BY WorkerTame, RestoreTame DEF Steady, ClaimsOK, IndInv, ServiceOK
  <1>7. Blocked(G)'
    BY <1>1 DEF ClaimsOK, Blocked
  <1> QED BY <1>2, <1>3, <1>4, <1>5, <1>6, <1>7 DEF Steady, ClaimsOK

-----------------------------------------------------------------------------
(* Users, foreign controllers and the config controller.                   *)

(* An idle Cluster controller has no copies. *)
LEMMA IdleWorkerClaims ==
    ASSUME wk' = IdleWorker, NEW G
    PROVE  WorkerClaims(G)'
  <1>1. /\ wk'.pc = "idle" /\ wk'.update = NoUpdates /\ wk'.rules = <<>>
        /\ wk'.tmp = NoTmpParents /\ wk'.raw = {}
    BY DEF IdleWorker
  <1>2. RulesOK(<<>>)
    BY DEF RulesOK, Unnamed
  <1>3. \A id \in Id : wk'.tmp[id] = NoCidr
    BY <1>1 DEF NoTmpParents
  <1> QED BY <1>1, <1>2, <1>3 DEF WorkerClaims, WorkerScratch, WorkerCopies, Generating, Deleting

(* Nor has a Restore that is over. *)
LEMMA IdleRestoreClaims ==
    ASSUME rs' = IdleRestore \/ \E pc \in {"done", "failed"} : rs' = [IdleRestore EXCEPT !.pc = pc],
           NEW G
    PROVE  RestoreClaims(G)'
  <1>1. /\ rs'.pc \in {"idle", "done", "failed"} /\ rs'.todo = NoClusters /\ rs'.rest = NoClusterConfigs
        /\ rs'.handled = NoClusterConfigs /\ rs'.update = NoUpdates
    BY DEF IdleRestore
  <1>2. \A c \in Cluster : ~Exists(rs'.todo[c])
    BY <1>1 DEF NoClusters, Exists
  <1>3. \A c \in Cluster, r \in Rule : ~Exists(rs'.rest[c][r]) /\ ~Exists(rs'.handled[c][r])
    BY <1>1 DEF NoClusterConfigs, NoConfigs, Exists
  <1>4. rs'.pc \notin {"listCCs", "check", "apply", "orphans", "delete", "release", "build"}
    BY <1>1
  <1>5. Listing' /\ ApplyOK(G)' /\ OrphanOK' /\ Covered'
    BY <1>1, <1>4 DEF Listing, ApplyOK, OrphanOK, Covered, Checking
  <1>6. TodoOK(G)' /\ RestOK(G)' /\ HandledOK(G)'
    BY <1>2, <1>3 DEF TodoOK, RestOK, HandledOK, Exists
  <1> QED BY <1>1, <1>5, <1>6 DEF RestoreClaims, Configured

(* Steps that touch no Cluster and no ClusterConfig are tame. *)
LEMMA UnchangedTame ==
    ASSUME UNCHANGED <<clusters, ccs>>, used.names \subseteq used'.names
    PROVE  Tame /\ \A c \in Cluster : Exists(clusters'[c]) => Exists(clusters[c])
  BY DEF Tame, ClustersTame, Aged, Exists

(* Using up a bound uses up no name. *)
LEMMA NamesKept ==
    ASSUME IndInv,
           \/ UNCHANGED used
           \/ \E kind : ApiFails(kind)
           \/ \E kind : UserAction(kind)
           \/ \E kind, ok : Answered(kind, ok)
    PROVE  used'.names = used.names
  BY DEF IndInv, ServiceOK, ApiOK, ApiFails, UserAction, Answered

(* The watches queue names in use. *)
LEMMA EventNamed ==
    ASSUME NEW names, queue \subseteq names, NEW c \in names, NEW x, NEW relevant,
           ClusterEvent(c, x, relevant) \/ \E r : WriteClusterConfig(c, r, x)
    PROVE  queue' \subseteq names
  BY DEF ClusterEvent, WriteClusterConfig

(* Users and foreign controllers keep the claims. *)
LEMMA EnvironmentClaims ==
    ASSUME Undisturbed, IndInv, Steady, NEW G, ClaimsOK(G),
           Environment, UNCHANGED <<ipam, lock, wk, rs, cf, standby>>
    PROVE  Steady' /\ ClaimsOK(G)'
  <1>1. /\ ApiOK /\ ScalarsOK /\ Named
        /\ cf'.pc \notin {"refresh", "refreshing"} /\ queue \subseteq used.names
    BY DEF IndInv, ServiceOK, Steady, Phases, Named
  <1>2. ASSUME NEW c \in Cluster, NEW p \in Purpose, NEW named \in BOOLEAN, CreateCluster(c, p, named)
        PROVE  Steady' /\ ClaimsOK(G)'
    <2> DEFINE new == [uid |-> nextUid, purpose |-> p, op |-> "none",
                       ann |-> NoInjections, refs |-> {}]
               cl  == Default(new, named)
    <2>1. /\ ~Exists(clusters[c]) /\ c \notin used.names
          /\ used' = [used EXCEPT !.names = @ \cup {c}]
          /\ clusters' = [clusters EXCEPT ![c] = cl] /\ ClusterEvent(c, cl, TRUE)
          /\ UNCHANGED <<ccs, proc>>
      BY <1>2 DEF CreateCluster, Undisturbed
    <2>2. new \in ClusterObject
      BY <1>1, NothingType DEF ScalarsOK, ClusterObject, Operation
    <2>3. cl.ann = NoInjections
      BY <2>2, DefaultFields
    <2>4. used'.names = used.names \cup {c}
      BY <1>1, <2>1 DEF ApiOK
    <2> HIDE DEF cl
    <2>5. \A d \in Cluster : clusters'[d] = IF d = c THEN cl ELSE clusters[d]
      BY <1>1, <2>1 DEF ApiOK
    <2>6. Tame
      BY <2>1, <2>3, <2>4, <2>5 DEF Tame, ClustersTame, Aged
    <2>7. queue' \subseteq used'.names
      BY <1>1, <2>1, <2>4, EventNamed
    <2>8. \A d \in Cluster : Exists(clusters'[d]) => Exists(clusters[d]) \/ d \in used'.names
      BY <2>4, <2>5
    <2> QED BY <1>1, <2>1, <2>6, <2>7, <2>8, TameStep
  <1>3. ASSUME NEW c \in Cluster, DeleteCluster(c)
        PROVE  Steady' /\ ClaimsOK(G)'
    <2>1. /\ Exists(clusters[c]) /\ UNCHANGED <<ccs, proc, used>>
          /\ clusters' = [clusters EXCEPT ![c] = NoObject]
          /\ ClusterEvent(c, clusters[c], TRUE)
      BY <1>3 DEF DeleteCluster
    <2>2. \A d \in Cluster : clusters'[d] = IF d = c THEN NoObject ELSE clusters[d]
      BY <1>1, <2>1 DEF ApiOK
    <2>3. Tame
      BY <2>1, <2>2 DEF Tame, ClustersTame, Aged, Exists
    <2>4. c \in used.names
      BY <1>1, <2>1 DEF Named
    <2>5. queue' \subseteq used'.names
      BY <1>1, <2>1, <2>4, EventNamed
    <2>6. \A d \in Cluster : Exists(clusters'[d]) => Exists(clusters[d])
      BY <2>2 DEF Exists
    <2> QED BY <1>1, <2>1, <2>3, <2>5, <2>6, TameStep
  <1>4. ASSUME NEW c \in Cluster, NEW r \in Rule, GarbageCollect(c, r)
        PROVE  Steady' /\ ClaimsOK(G)'
    <2>1. /\ Exists(ccs[c][r]) /\ UNCHANGED <<clusters, proc, used>>
          /\ WriteClusterConfig(c, r, Deleted(ccs[c][r]))
      BY <1>4 DEF GarbageCollect
    <2>2. ccs[c][r] \in ClusterConfig /\ Shape(ccs[c][r])
      BY <1>1, <2>1 DEF ApiOK, Exists, ClaimsOK, ClusterConfigCopies
    <2>3. Aged(ccs[c][r], Deleted(ccs[c][r]))
      BY <2>2, DeletedAged
    <2>4. \A d \in Cluster, s \in Rule :
            ccs'[d][s] = IF d = c /\ s = r THEN Deleted(ccs[c][r]) ELSE ccs[d][s]
      BY <1>1, <2>1 DEF ApiOK, WriteClusterConfig
    <2>5. Tame
      BY <2>1, <2>3, <2>4 DEF Tame, ClustersTame, Aged, Exists
    <2>6. queue' \subseteq used'.names
      BY <1>1, <2>1, EventNamed DEF Named
    <2> QED BY <1>1, <2>1, <2>5, <2>6, TameStep DEF Exists
  <1>5. ASSUME NEW c \in Cluster, NEW op \in Operation, SetOperation(c, op)
        PROVE  Steady' /\ ClaimsOK(G)'
    <2> DEFINE old == clusters[c]
               new == [old EXCEPT !.op = op]
               cl  == Default(new, TRUE)
    <2>1. /\ Exists(old) /\ UNCHANGED <<ccs, proc>> /\ UserAction("operation")
          /\ clusters' = [clusters EXCEPT ![c] = cl]
          /\ \E relevant : ClusterEvent(c, cl, relevant)
      BY <1>5 DEF SetOperation
    <2>2. old \in ClusterObject
      BY <1>1, <2>1 DEF ApiOK, Exists
    <2>3. new \in ClusterObject /\ new.ann = old.ann /\ new.purpose = old.purpose
      BY <2>2 DEF ClusterObject
    <2>4. cl.ann = old.ann /\ cl.purpose = old.purpose
      BY <2>3, DefaultFields
    <2> HIDE DEF cl
    <2>5. \A d \in Cluster : clusters'[d] = IF d = c THEN cl ELSE clusters[d]
      BY <1>1, <2>1 DEF ApiOK
    <2>6. used'.names = used.names
      BY <2>1, NamesKept
    <2>7. Tame
      BY <2>1, <2>4, <2>5, <2>6 DEF Tame, ClustersTame, Aged
    <2>8. c \in used.names
      BY <1>1, <2>1 DEF Named
    <2>9. queue' \subseteq used'.names
      BY <1>1, <2>1, <2>6, <2>8, EventNamed
    <2>10. \A d \in Cluster : Exists(clusters'[d]) => Exists(clusters[d]) \/ d \in used'.names
      BY <2>5, <2>6, <2>8
    <2> QED BY <1>1, <2>1, <2>7, <2>9, <2>10, TameStep
  <1>6. ASSUME UserAction("edit") \/ UserAction("finalizer")
        PROVE  FALSE
    BY <1>6 DEF UserAction, Undisturbed
  <1>7. ASSUME (\E cfg \in Configs : StoreConfig(cfg)) \/ DeleteConfig \/ ChangeConfigMeta
        PROVE  Steady' /\ ClaimsOK(G)'
    <2>1. UNCHANGED <<clusters, ccs, proc, queue>> /\ (UNCHANGED used \/ \E kind : UserAction(kind))
      BY <1>7 DEF StoreConfig, DeleteConfig, ChangeConfigMeta
    <2>2. used'.names = used.names
      BY <2>1, NamesKept
    <2> QED BY <1>1, <2>1, <2>2, UnchangedTame, TameStep
  <1> QED
    BY <1>2, <1>3, <1>4, <1>5, <1>6, <1>7 DEF Environment, ForeignFinalizer, EditClusterConfig

(* So does the config controller; it never refreshes. *)
LEMMA ConfigClaims ==
    ASSUME Undisturbed, IndInv, Steady, NEW G, ClaimsOK(G),
           ConfigReconcile, UNCHANGED <<wk, standby>>
    PROVE  Steady' /\ ClaimsOK(G)'
  <1>1. /\ cf.pc \notin {"refresh", "refreshing"} /\ queue \subseteq used.names
        /\ cf \in ConfigWorker /\ ApiOK
    BY DEF IndInv, ServiceOK, ConfigOK, Steady, Phases, Named
  <1>2. ASSUME UNCHANGED <<rs, configUnchanged>>, queue' \subseteq used.names,
               cf'.pc \notin {"refresh", "refreshing"},
               \/ UNCHANGED used
               \/ \E kind : ApiFails(kind)
               \/ \E kind : UserAction(kind)
               \/ \E kind, ok : Answered(kind, ok)
        PROVE  Steady' /\ ClaimsOK(G)'
    <2>1. UNCHANGED <<clusters, ccs, proc, ipam>>
      BY <1>2 DEF configUnchanged
    <2>2. used'.names = used.names
      BY <1>2, NamesKept
    <2> QED BY <1>2, <2>1, <2>2, UnchangedTame, TameStep
  <1>3. ASSUME NEW again, ConfigReturn(again)
        PROVE  cf'.pc = "idle"
    BY <1>3 DEF ConfigReturn, IdleConfigWorker
  <1>4. ASSUME NEW obj, HandleConfig(obj)
        PROVE  cf'.pc \notin {"refresh", "refreshing"}
    BY <1>1, <1>4 DEF HandleConfig, ConfigWorker
  <1>5. CASE FetchConfig
    <2>1. /\ UNCHANGED <<rs, queue, configUnchanged>>
          /\ UNCHANGED used \/ ApiFails("get")
          /\ UNCHANGED cf \/ cf' = [cf EXCEPT !.pc = "operation"] \/ HandleConfig(stored)
      BY <1>5 DEF FetchConfig
    <2>2. cf'.pc \notin {"refresh", "refreshing"}
      BY <1>1, <1>4, <2>1 DEF ConfigWorker
    <2> QED BY <1>1, <1>2, <2>1, <2>2
  <1>6. CASE RemoveConfigOperation
    <2>1. /\ UNCHANGED <<rs, queue, configUnchanged>>
          /\ UNCHANGED used \/ ApiFails("patch") \/ \E ok : Answered("patch", ok)
          /\ ConfigReturn(FALSE) \/ HandleConfig(stored')
      BY <1>6 DEF RemoveConfigOperation
    <2>2. cf'.pc \notin {"refresh", "refreshing"}
      BY <1>3, <1>4, <2>1
    <2> QED BY <1>1, <1>2, <2>1, <2>2
  <1>7. CASE QueueClusters
    <2>1. /\ UNCHANGED <<rs, configUnchanged>>
          /\ UNCHANGED used \/ ApiFails("list")
          /\ cf' = [cf EXCEPT !.pc = "set"] \/ ConfigReturn(FALSE)
          /\ queue' = queue \cup RelevantClusters(cf.cfg) \/ UNCHANGED queue
      BY <1>7 DEF QueueClusters
    <2>2. cf'.pc \notin {"refresh", "refreshing"}
      BY <1>1, <1>3, <2>1 DEF ConfigWorker
    <2>3. RelevantClusters(cf.cfg) \subseteq used.names
      BY DEF RelevantClusters, Steady, Named
    <2> QED BY <1>1, <1>2, <2>1, <2>2, <2>3
  <1>8. CASE SetConfig
    <2>1. /\ UNCHANGED <<rs, queue, used, configUnchanged>>
          /\ cf.cfg.refresh \/ \E again : ConfigReturn(again)
          /\ cf.pc = "set"
      BY <1>8 DEF SetConfig
    <2>2. cf.cfg \in Configs
      BY <1>1, <2>1 DEF IndInv, ServiceOK, ConfigOK, ConfigWorker, Exists
    <2>3. ~cf.cfg.refresh
      BY <2>2 DEF Undisturbed
    <2>4. cf'.pc \notin {"refresh", "refreshing"}
      BY <1>3, <2>1, <2>3
    <2> QED BY <1>1, <1>2, <2>1, <2>4
  <1>9. CASE RefreshDue
    <2>1. /\ UNCHANGED <<rs, queue, configUnchanged>> /\ UserAction("refresh")
          /\ cf' = [cf EXCEPT !.timer = FALSE]
      BY <1>9 DEF RefreshDue
    <2>2. cf'.pc \notin {"refresh", "refreshing"}
      BY <1>1, <2>1 DEF ConfigWorker
    <2> QED BY <1>1, <1>2, <2>1, <2>2
  <1> QED
    BY <1>1, <1>5, <1>6, <1>7, <1>8, <1>9 DEF ConfigReconcile, Refresh, RefreshReturns

-----------------------------------------------------------------------------
(* The Cluster controller.                                                 *)

(* While the Cluster controller runs, there is no Restore. *)
LEMMA WorkerFrame ==
    ASSUME IndInv, Steady, proc = "running", UNCHANGED <<proc, rs, cf, standby>>,
           Named', Finalized', NEW G,
           AnnotationCopies(G)', ClusterConfigCopies(G)', WorkerClaims(G)',
           DisjointClaims(G), InsideParents(G), BlockedIn(ipam', G)
    PROVE  Steady' /\ ClaimsOK(G)'
  <1>1. rs = IdleRestore /\ rs' = IdleRestore
    BY DEF Steady, Phases
  <1>3. RestoreClaims(G)'
    BY <1>1, IdleRestoreClaims
  <1>4. Phases'
    BY <1>1 DEF Steady, Phases, Ready
  <1> QED BY <1>3, <1>4 DEF Steady, ClaimsOK, Blocked

(* The Cluster controller only works while the process runs. *)
LEMMA WorkerRuns ==
    ASSUME IndInv, Steady
    PROVE  /\ wk.pc # "idle" => proc = "running" /\ wk.c \in Cluster /\ wk.c \in used.names
           /\ proc = "running" => Ready
           /\ queue \subseteq used.names
  BY IdleWorkerType DEF Steady, Phases, Named, IndInv, ServiceOK, WorkerOK, Ready

(* A tame step of the Cluster controller that leaves the IPAM state alone. *)
LEMMA WorkerTameStep ==
    ASSUME IndInv, Steady, proc = "running", wk.pc # "delDelete",
           Tame, queue' \subseteq used'.names,
           \A c \in Cluster : Exists(clusters'[c]) => Exists(clusters[c]),
           UNCHANGED <<ipam, proc, rs, cf, standby>>,
           NEW G, ClaimsOK(G), WorkerClaims(G)', wk'.pc # "idle" => wk'.c \in used'.names
    PROVE  Steady' /\ ClaimsOK(G)'
  <1>1. \A c \in Cluster, r \in Rule : Exists(ccs'[c][r]) => Exists(ccs[c][r])
    BY DEF Tame, Aged, Live, Exists
  <1>2. Named'
    BY <1>1, NamedStep DEF Steady, Tame
  <1>3. Finalized'
    <2>1. \A c \in Cluster, r \in Rule : Exists(ccs[c][r]) => Live(ccs[c][r])
      BY WorkerRuns DEF Steady, Finalized, Live
    <2> QED BY <2>1 DEF Finalized, Tame, Aged, Live, Exists
  <1>4. AnnotationCopies(G)' /\ ClusterConfigCopies(G)'
    BY ObjectsTame DEF Steady, ClaimsOK
  <1>5. DisjointClaims(G) /\ InsideParents(G) /\ BlockedIn(ipam', G)
    BY WorkerRuns DEF ClaimsOK, Blocked
  <1> QED BY <1>2, <1>3, <1>4, <1>5, WorkerFrame

(* The end of a reconciliation. *)
LEMMA ReturnClaims ==
    ASSUME IndInv, Steady, wk.pc \notin {"idle", "delDelete"},
           \E failed : Return(wk.c, failed),
           UNCHANGED <<clusters, ccs, ipam, proc, rs, cf, standby>>,
           used'.names = used.names, NEW G, ClaimsOK(G)
    PROVE  Steady' /\ ClaimsOK(G)'
  <1>1. proc = "running" /\ wk.c \in used.names /\ queue \subseteq used.names
    BY WorkerRuns
  <1>2. queue' \subseteq used'.names /\ wk' = IdleWorker
    BY <1>1 DEF Return
  <1>3. WorkerClaims(G)'
    BY <1>2, IdleWorkerClaims
  <1>4. wk'.pc = "idle"
    BY <1>2, IdleWorkerType
  <1>5. Tame /\ \A c \in Cluster : Exists(clusters'[c]) => Exists(clusters[c])
    BY UnchangedTame
  <1> QED BY <1>1, <1>2, <1>3, <1>4, <1>5, WorkerTameStep

(* The webhook makes sure of these two. *)
LEMMA ConfigRules ==
    ASSUME NEW cfg \in Configs
    PROVE  RulesOK(cfg.rules)
  <1>1. ValidConfig(cfg)
    BY PlatformAssumption
  <1> QED BY <1>1 DEF ValidConfig, ValidInjections, RulesOK, Flat

(* reconcile: the applicable rules are selected. *)
LEMMA SelectRulesClaims ==
    ASSUME IndInv, NEW c \in Cluster, NEW cl, SelectRules(c, cl), clusters'[c] = cl,
           NEW G, \A r \in Rule : Copy(cl.ann[r], G[c][r])
    PROVE  WorkerClaims(G)' /\ (wk'.pc # "idle" => wk'.c = c)
  <1>1. CASE wk' = IdleWorker
    BY <1>1, IdleWorkerClaims, IdleWorkerType
  <1>2. CASE /\ Exists(config) /\ Matches(config, cl.purpose)
             /\ wk' = [IdleWorker EXCEPT !.pc = "config", !.c = c, !.cl = cl, !.rules = config.rules]
    <2>1. config \in Configs
      BY <1>2 DEF IndInv, ServiceOK, ScalarsOK, Exists
    <2>2. /\ wk'.pc = "config" /\ wk'.c = c /\ wk'.cl = cl /\ wk'.rules = config.rules
          /\ wk'.update = NoUpdates /\ wk'.tmp = NoTmpParents /\ wk'.raw = {}
          /\ wk'.ann = NoInjections /\ wk'.create = NoInjections
      BY <1>2 DEF IdleWorker
    <2>3. WorkerScratch'
      <3>1. \A id \in Id : wk'.tmp[id] = NoCidr
        BY <2>2 DEF NoTmpParents
      <3> QED BY <2>1, <2>2, <3>1, ConfigRules DEF WorkerScratch
    <2>4. Entitled(wk.c)'
      BY <1>2, <2>1, <2>2 DEF Entitled
    <2>5. WorkerCopies(G)'
      BY <2>2, <2>4 DEF WorkerCopies, Copy, NoInjections
    <2> QED BY <2>2, <2>3, <2>5 DEF WorkerClaims, Generating, Deleting
  <1> QED BY <1>1, <1>2 DEF SelectRules

(* reconcile: the Cluster is fetched. *)
LEMMA FetchClusterClaims ==
    ASSUME IndInv, Steady, NEW G, ClaimsOK(G), NEW c \in Cluster, FetchCluster(c),
           UNCHANGED <<rs, cf, standby>>
    PROVE  Steady' /\ ClaimsOK(G)'
  <1> DEFINE cl == clusters[c]
  <1>1. /\ proc = "running" /\ wk.pc = "idle" /\ c \in queue /\ queue' = queue \ {c}
        /\ UNCHANGED <<clusters, ccs, ipam, used, proc>>
    BY DEF FetchCluster, workerUnchanged
  <1>2. c \in used.names /\ queue' \subseteq used'.names
    BY <1>1, WorkerRuns
  <1>3. ASSUME WorkerClaims(G)', wk'.pc # "idle" => wk'.c = c
        PROVE  Steady' /\ ClaimsOK(G)'
    <2>1. Tame /\ \A d \in Cluster : Exists(clusters'[d]) => Exists(clusters[d])
      BY <1>1, UnchangedTame
    <2> QED BY <1>1, <1>2, <1>3, <2>1, WorkerTameStep
  <1>4. CASE wk' = IdleWorker
    BY <1>3, <1>4, IdleWorkerClaims, IdleWorkerType
  <1>5. CASE \/ ~Exists(cl) /\ wk' = [IdleWorker EXCEPT !.pc = "delList", !.c = c]
             \/ Exists(cl) /\ wk' = [IdleWorker EXCEPT !.pc = "operation", !.c = c, !.cl = cl]
    <2>1. /\ wk'.pc = "operation" \/ (wk'.pc = "delList" /\ ~Exists(cl))
          /\ wk'.c = c /\ wk'.rules = <<>>
          /\ wk'.update = NoUpdates /\ wk'.tmp = NoTmpParents /\ wk'.raw = {}
      BY <1>5 DEF IdleWorker
    <2>2. WorkerScratch'
      <3>1. \A id \in Id : wk'.tmp[id] = NoCidr
        BY <2>1 DEF NoTmpParents
      <3> QED BY <2>1, <3>1 DEF WorkerScratch, RulesOK, Unnamed
    <2>3. WorkerClaims(G)'
      BY <1>1, <2>1, <2>2 DEF WorkerClaims, WorkerCopies, Generating, Deleting
    <2> QED BY <1>3, <2>1, <2>3
  <1>7. CASE Exists(cl) /\ SelectRules(c, cl)
    <2>1. \A r \in Rule : Copy(cl.ann[r], G[c][r])
      BY <1>7 DEF ClaimsOK, AnnotationCopies
    <2> QED BY <1>1, <1>3, <1>7, <2>1, SelectRulesClaims
  <1> QED
    BY <1>4, <1>5, <1>7 DEF FetchCluster

(* reconcile: the Cluster cannot be fetched. *)
LEMMA FetchClusterFailsClaims ==
    ASSUME IndInv, Steady, NEW G, ClaimsOK(G), NEW c \in Cluster, FetchClusterFails(c),
           UNCHANGED <<rs, cf, standby>>
    PROVE  Steady' /\ ClaimsOK(G)'
  <1>1. /\ proc = "running" /\ wk.pc = "idle" /\ ApiFails("get")
        /\ UNCHANGED <<clusters, ccs, ipam, queue, wk, proc>>
    BY DEF FetchClusterFails, workerUnchanged
  <1>2. used'.names = used.names
    BY <1>1, NamesKept
  <1>3. Tame /\ \A d \in Cluster : Exists(clusters'[d]) => Exists(clusters[d])
    BY <1>1, <1>2, UnchangedTame
  <1>4. queue' \subseteq used'.names /\ cf'.pc \notin {"refresh", "refreshing"}
    BY <1>1, <1>2 DEF Steady, Phases, Named
  <1> QED BY <1>1, <1>3, <1>4, TameStep

(* reconcile: the operation annotation is removed. *)
LEMMA RemoveOperationAnnotationClaims ==
    ASSUME IndInv, Steady, NEW G, ClaimsOK(G), RemoveOperationAnnotation,
           UNCHANGED <<rs, cf, standby>>
    PROVE  Steady' /\ ClaimsOK(G)'
  <1>1. /\ wk.pc = "operation" /\ UNCHANGED <<ccs, ipam, proc>>
        /\ proc = "running" /\ wk.c \in Cluster /\ wk.c \in used.names /\ queue \subseteq used.names
    BY WorkerRuns DEF RemoveOperationAnnotation, workerUnchanged
  <1>2. CASE Return(wk.c, TRUE) /\ UNCHANGED clusters /\ (UNCHANGED used \/ ApiFails("patch"))
    <2>1. used'.names = used.names
      BY <1>2, NamesKept
    <2> QED BY <1>1, <1>2, <2>1, ReturnClaims
  <1> DEFINE old == clusters[wk.c]
             new == [old EXCEPT !.op = "none"]
             cl  == Default(new, TRUE)
  <1>3. CASE /\ Exists(old) /\ clusters' = [clusters EXCEPT ![wk.c] = cl]
             /\ \E ok : Answered("patch", ok)
             /\ \/ /\ SelectRules(wk.c, cl)
                   /\ \E relevant : ClusterEvent(wk.c, cl, relevant)
                \/ Return(wk.c, TRUE)
    <2>1. old \in ClusterObject
      BY <1>1, <1>3 DEF IndInv, ServiceOK, ApiOK, Exists
    <2>2. new \in ClusterObject /\ new.ann = old.ann /\ new.purpose = old.purpose
      BY <2>1 DEF ClusterObject, Operation
    <2>3. cl.ann = old.ann /\ cl.purpose = old.purpose
      BY <2>2, DefaultFields
    <2> HIDE DEF cl
    <2>4. \A d \in Cluster : clusters'[d] = IF d = wk.c THEN cl ELSE clusters[d]
      BY <1>1, <1>3 DEF IndInv, ServiceOK, ApiOK
    <2>5. used'.names = used.names
      BY <1>3, NamesKept
    <2>6. Tame /\ \A d \in Cluster : Exists(clusters'[d]) => Exists(clusters[d])
      BY <1>1, <1>3, <2>3, <2>4, <2>5 DEF Tame, ClustersTame, Aged
    <2>7. queue' \subseteq used'.names
      BY <1>1, <1>3, <2>5, EventNamed DEF Return
    <2>8. WorkerClaims(G)' /\ (wk'.pc # "idle" => wk'.c = wk.c)
      <3>1. CASE Return(wk.c, TRUE)
        BY <3>1, IdleWorkerClaims, IdleWorkerType DEF Return
      <3>2. CASE SelectRules(wk.c, cl)
        <4>1. \A r \in Rule : Copy(cl.ann[r], G[wk.c][r])
          BY <1>1, <1>3, <2>3 DEF ClaimsOK, AnnotationCopies
        <4> QED BY <1>1, <2>4, <3>2, <4>1, SelectRulesClaims
      <3> QED BY <1>3, <3>1, <3>2
    <2> QED BY <1>1, <2>5, <2>6, <2>7, <2>8, WorkerTameStep
  <1> QED
    BY <1>2, <1>3 DEF RemoveOperationAnnotation

(* A ClusterConfig that has the finalizer and all injections needs no repair. *)
LEMMA RepairedSame ==
    ASSUME NEW cc \in ClusterConfig, cc.fin, NEW applied, applied \subseteq cc.patches
    PROVE  Repaired(applied, cc) = cc
  <1>1. MissingInjections(applied, cc) = {}
    BY DEF MissingInjections, PathsOf
  <1>2. cc.patches \cup MissingInjections(applied, cc) = cc.patches
    BY <1>1
  <1>3. (cc.fin \/ ~cc.deleting) = cc.fin
    BY DEF ClusterConfig
  <1>4. Repaired(applied, cc) = [cc EXCEPT !.patches = cc.patches, !.fin = cc.fin]
    BY <1>2, <1>3 DEF Repaired
  <1>5. [cc EXCEPT !.patches = cc.patches, !.fin = cc.fin] = cc
    BY DEF ClusterConfig
  <1> QED BY <1>4, <1>5

(* What follows keeps the memory of the worker. *)
LEMMA ProceedFields ==
    ASSUME NEW w \in Worker, wk' = Proceed(w)
    PROVE  /\ wk'.pc \in {"generate", "annotate", "apply"}
           /\ wk'.pc = "generate" <=> w.todo # {}
           /\ wk'.c = w.c /\ wk'.cl = w.cl /\ wk'.rules = w.rules /\ wk'.cfg = w.cfg
           /\ wk'.todo = w.todo /\ wk'.raw = w.raw /\ wk'.tmp = w.tmp /\ wk'.ann = w.ann
           /\ wk'.create = w.create /\ wk'.update = w.update
  BY DEF Proceed, Worker

(* CheckClusterConfigsForCluster plans nothing but what is claimed, and    *)
(* repairs nothing.                                                        *)
LEMMA CheckClaims ==
    ASSUME NEW applied, NEW listed \in [Rule -> ClusterConfig \cup {NoObject}],
           NEW g, \A r \in Rule : Copy(applied[r], g[r]),
           \A r \in Rule : Exists(listed[r]) => listed[r].fin /\ listed[r].patches = g[r]
    PROVE  LET ri == CheckClusterConfigs(applied, listed)
           IN  /\ \A r \in Rule : ri.create[r] = IF Exists(listed[r]) THEN {} ELSE applied[r]
               /\ ri.update = NoUpdates
  <1> DEFINE ri == CheckClusterConfigs(applied, listed)
  <1>1. ASSUME NEW r \in Rule, Exists(listed[r])
        PROVE  Repaired(applied[r], listed[r]) = listed[r]
    <2>1. listed[r] \in ClusterConfig /\ listed[r].fin /\ listed[r].patches = g[r]
      BY <1>1 DEF Exists
    <2>2. applied[r] \subseteq listed[r].patches
      BY <2>1 DEF Copy
    <2> QED BY <2>1, <2>2, RepairedSame
  <1>2. ri.create = [r \in Rule |-> IF Exists(listed[r]) THEN {} ELSE applied[r]]
    BY DEF CheckClusterConfigs
  <1>3. ri.update = NoUpdates
    BY <1>1 DEF CheckClusterConfigs, NoUpdates
  <1> QED BY <1>2, <1>3

(* So does ManageInjections. *)
LEMMA InstructionClaims ==
    ASSUME NEW ann \in [Rule -> SUBSET Patch],
           NEW listed \in [Rule -> ClusterConfig \cup {NoObject}],
           NEW g, \A r \in Rule : Copy(ann[r], g[r]),
           \A r \in Rule : Exists(listed[r]) => listed[r].fin /\ listed[r].patches = g[r]
    PROVE  LET applied == AppliedRules(ann, listed)
               ri == CheckClusterConfigs(applied, listed)
           IN  /\ \A r \in Rule : Copy(applied[r], g[r])
               /\ \A r \in Rule : ann[r] \subseteq applied[r]
               /\ \A r \in Rule : ri.create[r] = IF Exists(listed[r]) THEN {} ELSE applied[r]
               /\ ri.update = NoUpdates
  <1> DEFINE applied == AppliedRules(ann, listed)
             ri == CheckClusterConfigs(applied, listed)
  <1>1. \A r \in Rule : applied[r] = IF Exists(listed[r])
                                     THEN ann[r] \cup {p \in g[r] : p.path \notin PathsOf(ann[r])}
                                     ELSE ann[r]
    BY DEF AppliedRules
  <1> HIDE DEF applied
  <1>2. ASSUME NEW r \in Rule
        PROVE  Copy(applied[r], g[r]) /\ ann[r] \subseteq applied[r]
    BY <1>1 DEF Copy, PathsOf
  <1>3. /\ \A r \in Rule : ri.create[r] = IF Exists(listed[r]) THEN {} ELSE applied[r]
        /\ ri.update = NoUpdates
    BY <1>2, CheckClaims
  <1> QED BY <1>2, <1>3 DEF applied

(* handleCreateOrUpdate: the config is read again. *)
LEMMA GetConfigAgainClaims ==
    ASSUME IndInv, Steady, NEW G, ClaimsOK(G), GetConfigAgain, UNCHANGED <<rs, cf, standby>>
    PROVE  Steady' /\ ClaimsOK(G)'
  <1>1. /\ wk.pc = "config" /\ wk' = [wk EXCEPT !.pc = "list", !.cfg = config]
        /\ wk \in Worker /\ wk.c \in Cluster
        /\ wk.c \in used.names /\ proc = "running" /\ Ready /\ queue \subseteq used.names
        /\ UNCHANGED <<clusters, ccs, ipam, used, queue, proc>>
    BY WorkerRuns DEF GetConfigAgain, workerUnchanged, IndInv, ServiceOK, WorkerOK
  <1>2. /\ wk'.pc = "list" /\ wk'.c = wk.c /\ wk'.cl = wk.cl /\ wk'.rules = wk.rules
        /\ wk'.raw = wk.raw /\ wk'.tmp = wk.tmp /\ wk'.ann = wk.ann
        /\ wk'.create = wk.create /\ wk'.update = wk.update
    BY <1>1 DEF Worker
  <1>3. WorkerScratch /\ WorkerCopies(G)
    BY DEF ClaimsOK, WorkerClaims
  <1>4. WorkerScratch'
    BY <1>1, <1>2, <1>3 DEF WorkerScratch
  <1>5. WorkerCopies(G)'
    BY <1>1, <1>2, <1>3 DEF WorkerCopies, Entitled
  <1>6. WorkerClaims(G)'
    BY <1>2, <1>4, <1>5 DEF WorkerClaims, Generating, Deleting
  <1>7. Tame /\ \A d \in Cluster : Exists(clusters'[d]) => Exists(clusters[d])
    BY <1>1, UnchangedTame
  <1> QED BY <1>1, <1>2, <1>6, <1>7, WorkerTameStep

(* handleCreateOrUpdate: the ClusterConfigs are listed and compared. *)
LEMMA ManageInjectionsClaims ==
    ASSUME IndInv, IndInv', Steady, NEW G, ClaimsOK(G), ManageInjections,
           UNCHANGED <<rs, cf, standby>>
    PROVE  Steady' /\ ClaimsOK(G)'
  <1> DEFINE listed  == ccs[wk.c]
             applied == AppliedRules(wk.cl.ann, listed)
             new     == NewRules(applied, listed)
             todo    == {i \in new : ~HasIssue(wk.rules[i], applied)}
             ri      == CheckClusterConfigs(applied, listed)
             odd     == \E i \in new : RulePaths(wk.rules[i]) \cap OddPath # {}
             w       == [wk EXCEPT !.todo = todo, !.ann = applied,
                                   !.create = ri.create, !.update = ri.update,
                                   !.err = (todo # new \/ odd)]
  <1>1. /\ wk.pc = "list" /\ wk \in Worker /\ Exists(wk.cl) /\ wk.c \in Cluster
        /\ wk.c \in used.names /\ proc = "running" /\ Ready /\ queue \subseteq used.names
        /\ UNCHANGED <<clusters, ccs, ipam, used, proc>>
    BY WorkerRuns DEF ManageInjections, workerUnchanged, IndInv, ServiceOK, WorkerOK
  <1>2. CASE Return(wk.c, TRUE)
    BY <1>1, <1>2, ReturnClaims
  <1>3. CASE /\ Exists(wk.cfg) \/ todo = {}
             /\ wk' = Proceed(w) /\ UNCHANGED queue
    <2>1. listed \in [Rule -> ClusterConfig \cup {NoObject}]
      BY <1>1 DEF IndInv, ServiceOK, ApiOK
    <2>2. wk.cl.ann \in [Rule -> SUBSET Patch]
      BY <1>1 DEF Worker, ClusterObject, Exists
    <2>3. \A r \in Rule : Copy(wk.cl.ann[r], G[wk.c][r])
      BY <1>1 DEF ClaimsOK, WorkerClaims, WorkerCopies
    <2>4. \A r \in Rule : Exists(listed[r]) => listed[r].fin /\ listed[r].patches = G[wk.c][r]
      BY <1>1 DEF Steady, Finalized, ClaimsOK, ClusterConfigCopies
    <2>5. /\ \A r \in Rule : Copy(applied[r], G[wk.c][r])
          /\ \A r \in Rule : wk.cl.ann[r] \subseteq applied[r]
          /\ \A r \in Rule : ri.create[r] = IF Exists(listed[r]) THEN {} ELSE applied[r]
          /\ ri.update = NoUpdates
      BY <2>1, <2>2, <2>3, <2>4, InstructionClaims
    <2>6. applied \in [Rule -> SUBSET Patch]
      BY <2>1, <2>2, AppliedRulesType
    <2>7. ri.create \in [Rule -> SUBSET Patch]
      BY <2>1, <2>6, CheckClusterConfigsType DEF Instruction
    <2>8. /\ todo \in SUBSET DOMAIN wk.rules
          /\ \A i \in todo : applied[wk.rules[i].id] = {} /\ ~Exists(listed[wk.rules[i].id])
      BY DEF NewRules, AlreadyApplied
    <2>9. \A i \in DOMAIN wk.rules : wk.rules[i].id \in Rule
      BY RulesType DEF IndInv, ServiceOK
    <2>10. DOMAIN wk.rules \in SUBSET Nat
      <3>1. wk.rules \in Seq(CIDRInjection)
        BY <1>1 DEF Worker
      <3> QED BY <3>1
    <2>11. wk.cfg \in Configs \cup {NoObject}
      BY <1>1 DEF Worker
    <2>12. todo \in SUBSET Nat /\ (todo # new \/ odd) \in BOOLEAN
      BY <2>8, <2>10
    <2>13. ri.update \in [Rule -> Update \cup {NoObject}]
      BY <2>5, NothingType
    <2> HIDE DEF listed, applied, new, todo, ri, odd
    <2>14. /\ w \in Worker /\ w.c = wk.c /\ w.cl = wk.cl /\ w.rules = wk.rules
           /\ w.cfg = wk.cfg /\ w.todo = todo /\ w.raw = wk.raw /\ w.tmp = wk.tmp
           /\ w.ann = applied /\ w.create = ri.create /\ w.update = ri.update
      BY <1>1, <2>6, <2>7, <2>12, <2>13 DEF Worker
    <2> HIDE DEF w
    <2>15. /\ wk'.pc \in {"generate", "annotate", "apply"}
           /\ wk'.pc = "generate" <=> todo # {}
           /\ wk'.c = wk.c /\ wk'.cl = wk.cl /\ wk'.rules = wk.rules /\ wk'.cfg = wk.cfg
           /\ wk'.todo = todo /\ wk'.raw = wk.raw /\ wk'.tmp = wk.tmp /\ wk'.ann = applied
           /\ wk'.create = ri.create /\ wk'.update = NoUpdates
      BY <1>3, <2>5, <2>14, ProceedFields
    <2>16. wk.raw = {} /\ WorkerScratch
      BY <1>1 DEF ClaimsOK, WorkerClaims, WorkerScratch
    <2>17. WorkerScratch'
      BY <2>15, <2>16 DEF WorkerScratch
    <2>18. WorkerCopies(G)'
      <3>1. Entitled(wk.c)'
        BY <1>1, <2>15 DEF ClaimsOK, WorkerClaims, WorkerCopies, Entitled, Exists
      <3> QED BY <2>3, <2>5, <2>15, <3>1 DEF WorkerCopies, Copy
    <2>19. Generating(G)'
      <3>1. ASSUME NEW i \in todo
            PROVE  Untouched(wk.rules[i].id)'
        <4>1. wk.rules[i].id \in Rule
          BY <2>8, <2>9
        <4>2. UNCHANGED ccs /\ listed = ccs[wk.c]
          BY <1>1 DEF listed
        <4> QED BY <2>5, <2>8, <2>15, <4>1, <4>2 DEF Untouched
      <3>2. \A i \in wk'.todo : Untouched(wk.rules[i].id)'
        BY <2>15, <3>1
      <3>3. wk'.pc = "generate" => wk.cfg \in Configs
        BY <1>3, <2>11, <2>15 DEF Exists
      <3> QED BY <2>15, <2>16, <3>2, <3>3 DEF Generating, Copy
    <2>20. WorkerClaims(G)'
      BY <2>15, <2>17, <2>18, <2>19 DEF WorkerClaims, Deleting
    <2>21. Tame /\ \A d \in Cluster : Exists(clusters'[d]) => Exists(clusters[d])
      BY <1>1, UnchangedTame
    <2> QED BY <1>1, <1>3, <2>15, <2>20, <2>21, WorkerTameStep
  <1> QED BY <1>2, <1>3 DEF ManageInjections

(* A list call of the worker fails. *)
LEMMA ListFailsClaims ==
    ASSUME IndInv, Steady, NEW G, ClaimsOK(G), ManageInjectionsFails \/ ListForDeleteFails,
           UNCHANGED <<rs, cf, standby>>
    PROVE  Steady' /\ ClaimsOK(G)'
  <1>1. /\ wk.pc \in {"list", "delList"} /\ ApiFails("list") /\ Return(wk.c, TRUE)
        /\ UNCHANGED <<clusters, ccs, ipam, proc>>
    BY DEF ManageInjectionsFails, ListForDeleteFails, workerUnchanged
  <1> QED BY <1>1, NamesKept, ReturnClaims

(* While a rule is generated, its claim may change: nobody else has a copy. *)
LEMMA ClaimReplaced ==
    ASSUME IndInv, Steady, NEW G \in ClaimMap, ClaimsOK(G), wk.pc = "generate",
           UNCHANGED <<clusters, ccs>>,
           NEW S \in SUBSET Patch, NEW H, H = [G EXCEPT ![wk.c][wk.rules[CurrentRule].id] = S]
    PROVE  LET rid == wk.rules[CurrentRule].id
           IN  /\ H \in ClaimMap
               /\ \A d \in Cluster, s \in Rule :
                    H[d][s] = IF <<d, s>> = <<wk.c, rid>> THEN S ELSE G[d][s]
               /\ AnnotationCopies(H)' /\ ClusterConfigCopies(H)'
               /\ Entitled(wk.c)
               /\ \A r \in Rule : /\ Copy(wk.cl.ann[r], H[wk.c][r])
                                  /\ Copy(wk.ann[r], H[wk.c][r])
                                  /\ Copy(wk.create[r], H[wk.c][r])
               /\ \A i \in wk.todo : Untouched(wk.rules[i].id) /\ wk.rules[i].id \in Rule
               /\ \A i \in wk.todo : i # CurrentRule => wk.rules[i].id # rid
  <1> DEFINE rid == wk.rules[CurrentRule].id
  <1>1. /\ wk.c \in Cluster /\ CurrentRule \in wk.todo /\ rid \in Rule
        /\ wk.todo \subseteq DOMAIN wk.rules
    BY GeneratingType DEF IndInv, ServiceOK
  <1>2. /\ H \in ClaimMap
        /\ \A d \in Cluster, s \in Rule :
             H[d][s] = IF <<d, s>> = <<wk.c, rid>> THEN S ELSE G[d][s]
    BY <1>1 DEF ClaimMap
  <1>3. \A i \in wk.todo : Untouched(wk.rules[i].id) /\ wk.rules[i].id \in Rule
    BY <1>1, RulesType DEF ClaimsOK, WorkerClaims, Generating, IndInv, ServiceOK
  <1>4. \A i \in wk.todo : i # CurrentRule => wk.rules[i].id # rid
    BY <1>1 DEF ClaimsOK, WorkerClaims, WorkerScratch, RulesOK
  <1> HIDE DEF rid
  <1>5. wk.cl.ann[rid] = {} /\ wk.ann[rid] = {} /\ wk.create[rid] = {} /\ ~Exists(ccs[wk.c][rid])
    BY <1>1, <1>3 DEF Untouched, rid
  <1>6. Exists(clusters[wk.c]) => clusters[wk.c].ann[rid] = {}
    BY <1>1, <1>5 DEF IndInv, ServiceOK, AnnotationOK, rid
  <1>7. \A d \in Cluster : Entitled(d)' = Entitled(d)
    BY DEF Entitled
  <1>8. AnnotationCopies(H)'
    <2> SUFFICES ASSUME NEW d \in Cluster, NEW s \in Rule, Exists(clusters[d])
                 PROVE  /\ Copy(clusters[d].ann[s], H[d][s])
                        /\ clusters[d].ann[s] # {} => Entitled(d)
      BY <1>7 DEF AnnotationCopies, Exists
    <2>1. /\ Copy(clusters[d].ann[s], G[d][s])
          /\ clusters[d].ann[s] # {} => Entitled(d)
      BY DEF ClaimsOK, AnnotationCopies
    <2> QED BY <1>2, <1>6, <2>1 DEF Copy
  <1>9. ClusterConfigCopies(H)'
    <2> SUFFICES ASSUME NEW d \in Cluster, NEW s \in Rule, Exists(ccs[d][s])
                 PROVE  /\ Shape(ccs[d][s])
                        /\ ccs[d][s].fin => ccs[d][s].patches = H[d][s]
                        /\ ~ccs[d][s].fin => ~Exists(clusters[d])
                        /\ Entitled(d)
      BY <1>7 DEF ClusterConfigCopies, Exists
    <2>1. /\ Shape(ccs[d][s])
          /\ ccs[d][s].fin => ccs[d][s].patches = G[d][s]
          /\ ~ccs[d][s].fin => ~Exists(clusters[d])
          /\ Entitled(d)
      BY DEF ClaimsOK, ClusterConfigCopies
    <2> QED BY <1>2, <1>5, <2>1
  <1>10. /\ Entitled(wk.c)
         /\ \A r \in Rule : /\ Copy(wk.cl.ann[r], G[wk.c][r])
                            /\ Copy(wk.ann[r], G[wk.c][r])
                            /\ Copy(wk.create[r], G[wk.c][r])
    BY DEF ClaimsOK, WorkerClaims, WorkerCopies
  <1>11. \A r \in Rule : /\ Copy(wk.cl.ann[r], H[wk.c][r])
                         /\ Copy(wk.ann[r], H[wk.c][r])
                         /\ Copy(wk.create[r], H[wk.c][r])
    BY <1>1, <1>2, <1>5, <1>10 DEF Copy
  <1> QED BY <1>2, <1>3, <1>4, <1>7, <1>8, <1>9, <1>10, <1>11, <1>1 DEF rid

(* The prefixes an injection may be served from: parents of the config, or *)
(* CIDRs acquired for the rule.                                            *)
LEMMA CandidateOrigin ==
    ASSUME IndInv, NEW G, ClaimsOK(G), wk.pc = "generate",
           NEW inj \in SingleCIDRInjection, NEW p \in Candidates(inj)
    PROVE  p \in AllParents \/ (~Flat /\ p \in CidrsOf(wk.raw))
  <1>1. wk.cfg \in Configs /\ WorkerScratch
    BY DEF ClaimsOK, WorkerClaims, Generating
  <1>2. ASSUME NEW id \in Id, NEW size, NEW q \in Serving(PrefixesOf(id), size)
        PROVE  q \in AllParents \/ (~Flat /\ q \in CidrsOf(wk.raw))
    <2>1. PICK j \in DOMAIN PrefixesOf(id) : q = PrefixesOf(id)[j]
      BY <1>2 DEF Serving
    <2>2. CASE wk.tmp[id] # NoCidr
      <3>1. PrefixesOf(id) = <<wk.tmp[id]>>
        BY <2>2 DEF PrefixesOf
      <3>2. j = 1
        BY <2>1, <3>1
      <3>3. q = wk.tmp[id]
        BY <2>1, <3>1, <3>2
      <3> QED BY <1>1, <2>2, <3>3 DEF WorkerScratch
    <2>3. CASE wk.tmp[id] = NoCidr
      <3>1. PrefixesOf(id) = wk.cfg.parents[id]
        BY <2>3 DEF PrefixesOf
      <3>2. q \in ParentCIDRs(wk.cfg)
        BY <2>1, <3>1 DEF ParentCIDRs
      <3> QED BY <1>1, <3>2 DEF AllParents
    <2> QED BY <2>2, <2>3
  <1>3. CASE inj.parents = <<>>
    BY <1>2, <1>3 DEF Candidates
  <1>4. CASE inj.parents # <<>>
    <2>1. inj.parents \in Seq(Id)
      BY DEF SingleCIDRInjection
    <2>2. PICK n \in DOMAIN inj.parents : p \in Serving(PrefixesOf(inj.parents[n]), inj.size)
      BY <1>4 DEF Candidates
    <2>3. inj.parents[n] \in Id
      BY <2>1, <2>2, SeqElement
    <2> QED BY <1>2, <2>2, <2>3
  <1> QED BY <1>3, <1>4

(* A step of the generation: the claim of the current rule is replaced. *)
LEMMA GenerateFrame ==
    ASSUME IndInv, Steady, NEW G \in ClaimMap, ClaimsOK(G), wk.pc = "generate",
           UNCHANGED <<clusters, ccs, queue, used, proc, rs, cf, standby>>,
           wk'.pc # "delDelete", wk'.c = wk.c,
           NEW H \in ClaimMap,
           AnnotationCopies(H)', ClusterConfigCopies(H)', WorkerClaims(H)',
           DisjointClaims(H), InsideParents(H), BlockedIn(ipam', H)
    PROVE  Steady' /\ Claimed'
  <1>1. proc = "running" /\ Ready /\ wk.c \in used.names /\ queue \subseteq used.names
    BY WorkerRuns
  <1>2. Named'
    BY <1>1, NamedStep DEF Steady
  <1>3. Finalized'
    BY <1>1 DEF Steady, Finalized, Exists
  <1>4. Steady' /\ ClaimsOK(H)'
    BY <1>1, <1>2, <1>3, WorkerFrame
  <1> QED BY <1>4 DEF Claimed

(* generateCIDRsForInjectionRule: a CIDR is acquired. *)
LEMMA GenerateInjectionClaims ==
    ASSUME Undisturbed, IndInv, Steady, NEW G \in ClaimMap, ClaimsOK(G), GenerateInjection,
           UNCHANGED <<rs, cf, standby>>
    PROVE  Steady' /\ Claimed'
  <1> DEFINE i    == CurrentRule
             rule == wk.rules[i]
             inj  == rule.injections[wk.inj]
  <1>1. wk.pc = "generate" /\ UNCHANGED <<clusters, ccs, queue, used, proc>>
    BY DEF GenerateInjection, workerUnchanged
  <1>2. /\ wk \in Worker /\ wk.c \in Cluster /\ wk.todo \in SUBSET Nat
        /\ wk.todo \subseteq DOMAIN wk.rules /\ i \in wk.todo /\ rule.id \in Rule
        /\ rule.injections \in Seq(SingleCIDRInjection) /\ wk.inj \in DOMAIN rule.injections
        /\ proc = "running" /\ Ready
    BY <1>1, GeneratingType, WorkerRuns DEF IndInv, ServiceOK
  <1>3. inj \in SingleCIDRInjection /\ inj.paths \in SUBSET Path /\ inj.paths # {}
    <2>1. inj \in SingleCIDRInjection
      BY <1>2, SeqElement
    <2>2. inj.paths # {}
      BY <1>2 DEF ClaimsOK, WorkerClaims, WorkerScratch, RulesOK
    <2> QED BY <2>1, <2>2 DEF SingleCIDRInjection
  <1>4. PICK p \in Candidates(inj) : \E cidr \in FreeChildren(ipam, p, inj.size) :
            LET raw == wk.raw \cup [path: inj.paths, cidr: {cidr}]
            IN  /\ ipam' = Record(ipam, cidr, p)
                /\ wk' = IF wk.inj < Len(rule.injections)
                         THEN [wk EXCEPT !.inj = @ + 1, !.raw = raw,
                                         !.tmp = [id \in Id |-> IF id = inj.id THEN cidr ELSE @[id]]]
                         ELSE Proceed([wk EXCEPT !.todo = @ \ {i}, !.inj = 1, !.raw = {},
                                                 !.tmp = NoTmpParents,
                                                 !.ann[rule.id] = raw, !.create[rule.id] = raw])
    BY DEF GenerateInjection
  <1>5. PICK cidr \in FreeChildren(ipam, p, inj.size) :
            LET raw == wk.raw \cup [path: inj.paths, cidr: {cidr}]
            IN  /\ ipam' = Record(ipam, cidr, p)
                /\ wk' = IF wk.inj < Len(rule.injections)
                         THEN [wk EXCEPT !.inj = @ + 1, !.raw = raw,
                                         !.tmp = [id \in Id |-> IF id = inj.id THEN cidr ELSE @[id]]]
                         ELSE Proceed([wk EXCEPT !.todo = @ \ {i}, !.inj = 1, !.raw = {},
                                                 !.tmp = NoTmpParents,
                                                 !.ann[rule.id] = raw, !.create[rule.id] = raw])
    BY <1>4
  <1> DEFINE raw == wk.raw \cup [path: inj.paths, cidr: {cidr}]
             tmp == [id \in Id |-> IF id = inj.id THEN cidr ELSE wk.tmp[id]]
             w1  == [wk EXCEPT !.inj = @ + 1, !.raw = raw, !.tmp = tmp]
             w2  == [wk EXCEPT !.todo = @ \ {i}, !.inj = 1, !.raw = {}, !.tmp = NoTmpParents,
                               !.ann[rule.id] = raw, !.create[rule.id] = raw]
             rid == rule.id
  <1>5a. PICK H : H = [G EXCEPT ![wk.c][rid] = raw]
    OBVIOUS
  <1>6. cidr \in CIDR /\ cidr \notin DOMAIN ipam
    BY DEF FreeChildren
  <1>7. raw \in SUBSET Patch
    BY <1>2, <1>3, <1>6 DEF Patch, Worker
  <1>8. CidrsOf(raw) = CidrsOf(wk.raw) \cup {cidr}
    <2>1. \A x \in [path: inj.paths, cidr: {cidr}] : x.cidr = cidr
      OBVIOUS
    <2>2. PICK q \in inj.paths : TRUE
      BY <1>3
    <2>3. [path |-> q, cidr |-> cidr] \in [path: inj.paths, cidr: {cidr}]
      OBVIOUS
    <2> QED BY <2>1, <2>3 DEF CidrsOf
  <1> HIDE DEF raw
  <1>9. Copy(wk.raw, G[wk.c][rid])
    BY <1>1 DEF ClaimsOK, WorkerClaims, Generating
  <1>10. CidrsOf(wk.raw) \subseteq CidrsOf(G[wk.c][rid])
    BY <1>9 DEF Copy, CidrsOf
  <1>11. p \in AllParents \/ (~Flat /\ p \in CidrsOf(G[wk.c][rid]))
    BY <1>1, <1>3, <1>10, CandidateOrigin
  <1>12a. /\ H \in ClaimMap
          /\ \A d \in Cluster, s \in Rule :
               H[d][s] = IF <<d, s>> = <<wk.c, rid>> THEN raw ELSE G[d][s]
    BY <1>2, <1>5a, <1>7 DEF ClaimMap
  <1>12b. AnnotationCopies(H)' /\ ClusterConfigCopies(H)' /\ Entitled(wk.c)
    BY <1>1, <1>5a, <1>7, ClaimReplaced
  <1>12c. \A r \in Rule : /\ Copy(wk.cl.ann[r], H[wk.c][r])
                           /\ Copy(wk.ann[r], H[wk.c][r])
                           /\ Copy(wk.create[r], H[wk.c][r])
    BY <1>1, <1>5a, <1>7, ClaimReplaced
  <1>12d. /\ \A k \in wk.todo : Untouched(wk.rules[k].id) /\ wk.rules[k].id \in Rule
          /\ \A k \in wk.todo : k # i => wk.rules[k].id # rid
    BY <1>1, <1>5a, <1>7, ClaimReplaced
  <1>12. /\ H \in ClaimMap
         /\ \A d \in Cluster, s \in Rule :
              H[d][s] = IF <<d, s>> = <<wk.c, rid>> THEN raw ELSE G[d][s]
         /\ AnnotationCopies(H)' /\ ClusterConfigCopies(H)' /\ Entitled(wk.c)
         /\ \A r \in Rule : /\ Copy(wk.cl.ann[r], H[wk.c][r])
                            /\ Copy(wk.ann[r], H[wk.c][r])
                            /\ Copy(wk.create[r], H[wk.c][r])
         /\ \A k \in wk.todo : Untouched(wk.rules[k].id) /\ wk.rules[k].id \in Rule
         /\ \A k \in wk.todo : k # i => wk.rules[k].id # rid
    BY <1>12a, <1>12b, <1>12c, <1>12d
  <1>13. /\ DisjointClaims(G) /\ InsideParents(G) /\ BlockedIn(ipam, G)
         /\ IsStore(ipam) /\ WellFormed(ipam)
    BY <1>2 DEF ClaimsOK, Blocked, IndInv, ServiceOK, StoreOK
  <1>14. /\ \E a \in AllParents : StrictlyContains(a, cidr)
         /\ \A d \in Cluster, s \in Rule : <<d, s>> # <<wk.c, rid>> =>
              \A x \in CidrsOf(G[d][s]) : ~Overlaps(x, cidr)
         /\ Flat => \A x \in CidrsOf(G[wk.c][rid]) : ~Overlaps(x, cidr)
         /\ Anchored(Record(ipam, cidr, p), cidr)
    <2>1. /\ \E a \in AllParents : StrictlyContains(a, cidr)
          /\ \A d \in Cluster, s \in Rule : <<d, s>> # <<wk.c, rid>> =>
               \A x \in CidrsOf(G[d][s]) : ~Overlaps(x, cidr)
          /\ p \in AllParents =>
               \A d \in Cluster, s \in Rule : \A x \in CidrsOf(G[d][s]) : ~Overlaps(x, cidr)
          /\ Anchored(Record(ipam, cidr, p), cidr)
      BY <1>2, <1>11, <1>13, AcquiredFree
    <2> QED BY <1>2, <1>11, <2>1
  <1>15. \A x \in CidrsOf(H[wk.c][rid]) : x = cidr \/ x \in CidrsOf(G[wk.c][rid])
    BY <1>2, <1>8, <1>10, <1>12
  <1>16a. ASSUME Flat, NEW d \in Cluster, NEW s \in Rule
          PROVE  DisjointRanges(CidrsOf(H[d][s]))
    <2>1. DisjointRanges(CidrsOf(G[d][s]))
      BY <1>13, <1>16a DEF DisjointClaims
    <2>2. CASE <<d, s>> = <<wk.c, rid>>
      <3>1. \A x \in CidrsOf(H[d][s]) : x = cidr \/ x \in CidrsOf(G[d][s])
        BY <1>15, <2>2
      <3>2. \A x \in CidrsOf(G[d][s]) : ~Overlaps(x, cidr) /\ ~Overlaps(cidr, x)
        BY <1>14, <1>16a, <2>2, OverlapsSymmetric
      <3> QED BY <2>1, <3>1, <3>2 DEF DisjointRanges
    <2>3. CASE <<d, s>> # <<wk.c, rid>>
      BY <1>12, <2>1, <2>3
    <2> QED BY <2>2, <2>3
  <1>16. DisjointClaims(H)
    <2> SUFFICES ASSUME NEW c1 \in Cluster, NEW c2 \in Cluster, NEW r1 \in Rule, NEW r2 \in Rule,
                        <<c1, r1>> # <<c2, r2>>,
                        NEW x \in CidrsOf(H[c1][r1]), NEW y \in CidrsOf(H[c2][r2])
                 PROVE  ~Overlaps(x, y)
      BY <1>16a DEF DisjointClaims
    <2>1. <<c1, r1>> # <<wk.c, rid>> => H[c1][r1] = G[c1][r1]
      BY <1>12
    <2>2. <<c2, r2>> # <<wk.c, rid>> => H[c2][r2] = G[c2][r2]
      BY <1>12
    <2>3. CASE <<c1, r1>> = <<wk.c, rid>>
      <3>1. x = cidr \/ x \in CidrsOf(G[c1][r1])
        BY <1>15, <2>3
      <3> QED BY <1>13, <1>14, <2>2, <2>3, <3>1, OverlapsSymmetric DEF DisjointClaims
    <2>4. CASE <<c2, r2>> = <<wk.c, rid>>
      <3>1. y = cidr \/ y \in CidrsOf(G[c2][r2])
        BY <1>15, <2>4
      <3> QED BY <1>13, <1>14, <2>1, <2>4, <3>1 DEF DisjointClaims
    <2>5. CASE <<c1, r1>> # <<wk.c, rid>> /\ <<c2, r2>> # <<wk.c, rid>>
      BY <1>13, <2>1, <2>2, <2>5 DEF DisjointClaims
    <2> QED BY <2>3, <2>4, <2>5
  <1>17. InsideParents(H)
    <2> SUFFICES ASSUME NEW d \in Cluster, NEW s \in Rule, NEW x \in CidrsOf(H[d][s])
                 PROVE  \E a \in AllParents : StrictlyContains(a, x)
      BY DEF InsideParents
    <2>1. x = cidr \/ x \in CidrsOf(G[d][s])
      BY <1>12, <1>15
    <2> QED BY <1>13, <1>14, <2>1 DEF InsideParents
  <1>18. BlockedIn(ipam', H)
    <2>1. cidr \notin AllParents
      BY <1>6, <1>14, InsideNoParent
    <2>2. TopParents(ipam')
      BY <1>5, <1>6, <1>13, <2>1, RecordBlocked DEF BlockedIn
    <2>3. ASSUME NEW d \in Cluster, NEW s \in Rule, NEW x \in CidrsOf(H[d][s])
          PROVE  Anchored(ipam', x)
      <3>1. CASE x = cidr
        BY <1>5, <1>14, <3>1
      <3>2. CASE x \in CidrsOf(G[d][s])
        <4>1. x \in CIDR /\ Anchored(ipam, x)
          BY <1>13, <3>2, ClaimCidrs DEF BlockedIn
        <4> QED BY <1>5, <1>6, <4>1, RecordBlocked
      <3> QED BY <1>12, <1>15, <2>3, <3>1, <3>2
    <2> QED BY <2>2, <2>3 DEF BlockedIn
  <1>19. WorkerScratch /\ wk.cfg \in Configs
    BY <1>1 DEF ClaimsOK, WorkerClaims, Generating
  <1>20. H[wk.c][rid] = raw /\ \A r \in Rule : r # rid => H[wk.c][r] = G[wk.c][r]
    BY <1>2, <1>12
  <1>21. CASE wk.inj < Len(rule.injections)
    <2>1. tmp \in [Id -> CIDR \cup {NoCidr}]
      BY <1>2, <1>6 DEF Worker
    <2>2. wk' = w1
      BY <1>5, <1>21 DEF raw
    <2>3. \A id \in Id : tmp[id] = IF id = inj.id THEN cidr ELSE wk.tmp[id]
      OBVIOUS
    <2> HIDE DEF tmp
    <2>4. /\ wk'.pc = wk.pc /\ wk'.c = wk.c /\ wk'.cl = wk.cl /\ wk'.rules = wk.rules
          /\ wk'.cfg = wk.cfg /\ wk'.todo = wk.todo /\ wk'.raw = raw /\ wk'.tmp = tmp
          /\ wk'.ann = wk.ann /\ wk'.create = wk.create /\ wk'.update = wk.update
      BY <1>2, <2>2 DEF Worker
    <2>5. CurrentRule' = i
      BY <2>4 DEF CurrentRule
    <2>6. WorkerScratch'
      <3>1. Flat => inj.id = NoId
        BY <1>2, <1>19 DEF WorkerScratch, RulesOK, Unnamed
      <3>2. Flat => \A id \in Id : tmp[id] = wk.tmp[id]
        BY <2>3, <3>1, IpamConfigAssumption
      <3> QED BY <1>1, <1>8, <1>19, <2>3, <2>4, <3>2 DEF WorkerScratch
    <2>7. WorkerCopies(H)'
      <3>1. Entitled(wk.c)'
        BY <1>1, <1>12, <2>4 DEF Entitled
      <3> QED BY <1>12, <2>4, <3>1 DEF WorkerCopies
    <2>8. Generating(H)'
      <3>1. \A k \in wk.todo : Untouched(wk.rules[k].id)'
        BY <1>1, <1>12, <2>4 DEF Untouched
      <3> QED BY <1>19, <1>20, <2>4, <2>5, <3>1 DEF Generating, Copy
    <2>9. WorkerClaims(H)'
      BY <1>1, <2>4, <2>6, <2>7, <2>8 DEF WorkerClaims, Deleting
    <2> QED BY <1>1, <1>12, <1>16, <1>17, <1>18, <2>4, <2>9, GenerateFrame
  <1>22. CASE ~(wk.inj < Len(rule.injections))
    <2>1. wk' = Proceed(w2)
      BY <1>5, <1>22 DEF raw
    <2>2. /\ w2 \in Worker /\ w2.c = wk.c /\ w2.cl = wk.cl /\ w2.rules = wk.rules
          /\ w2.cfg = wk.cfg /\ w2.todo = wk.todo \ {i} /\ w2.raw = {} /\ w2.tmp = NoTmpParents
          /\ w2.ann = [wk.ann EXCEPT ![rid] = raw] /\ w2.create = [wk.create EXCEPT ![rid] = raw]
          /\ w2.update = wk.update
      BY <1>2, <1>7, NothingType DEF Worker
    <2> HIDE DEF w2
    <2>3. /\ wk'.pc \in {"generate", "annotate", "apply"}
          /\ wk'.c = wk.c /\ wk'.cl = wk.cl /\ wk'.rules = wk.rules /\ wk'.cfg = wk.cfg
          /\ wk'.todo = wk.todo \ {i} /\ wk'.raw = {} /\ wk'.tmp = NoTmpParents
          /\ wk'.ann = [wk.ann EXCEPT ![rid] = raw]
          /\ wk'.create = [wk.create EXCEPT ![rid] = raw] /\ wk'.update = wk.update
      BY <2>1, <2>2, ProceedFields
    <2>4. \A r \in Rule : /\ wk'.ann[r] = IF r = rid THEN raw ELSE wk.ann[r]
                          /\ wk'.create[r] = IF r = rid THEN raw ELSE wk.create[r]
      <3>1. wk.ann \in [Rule -> SUBSET Patch] /\ wk.create \in [Rule -> SUBSET Patch]
        BY <1>2 DEF Worker
      <3> QED BY <2>3, <3>1
    <2>5. WorkerScratch'
      <3>1. \A id \in Id : wk'.tmp[id] = NoCidr
        BY <2>3 DEF NoTmpParents
      <3> QED BY <1>19, <2>3, <3>1 DEF WorkerScratch
    <2>6. WorkerCopies(H)'
      <3>1. Entitled(wk.c)'
        BY <1>1, <1>12, <2>3 DEF Entitled
      <3>2. \A r \in Rule : /\ Copy(wk.cl.ann[r], H[wk.c][r])
                            /\ Copy(wk'.ann[r], H[wk.c][r])
                            /\ Copy(wk'.create[r], H[wk.c][r])
        BY <1>12, <1>20, <2>4 DEF Copy
      <3> QED BY <2>3, <3>1, <3>2 DEF WorkerCopies
    <2>7. Generating(H)'
      <3>1. \A k \in wk.todo \ {i} : Untouched(wk.rules[k].id)'
        <4> SUFFICES ASSUME NEW k \in wk.todo \ {i}
                     PROVE  Untouched(wk.rules[k].id)'
          OBVIOUS
        <4>1. wk.rules[k].id \in Rule /\ wk.rules[k].id # rid /\ Untouched(wk.rules[k].id)
          BY <1>12
        <4> QED BY <1>1, <2>3, <2>4, <4>1 DEF Untouched
      <3> QED BY <1>19, <2>3, <3>1 DEF Generating, Copy
    <2>8. WorkerClaims(H)'
      BY <2>3, <2>5, <2>6, <2>7 DEF WorkerClaims, Deleting
    <2> QED BY <1>1, <1>12, <1>16, <1>17, <1>18, <2>3, <2>8, GenerateFrame
  <1> QED BY <1>21, <1>22

(* generateCIDRsForInjectionRule: no parent has room, and what the rule    *)
(* acquired so far is released.                                            *)
LEMMA GenerateInjectionFailsClaims ==
    ASSUME Undisturbed, IndInv, Steady, NEW G \in ClaimMap, ClaimsOK(G), GenerateInjectionFails,
           UNCHANGED <<rs, cf, standby>>
    PROVE  Steady' /\ Claimed'
  <1> DEFINE i   == CurrentRule
             rid == wk.rules[i].id
             w   == [wk EXCEPT !.todo = @ \ {i}, !.inj = 1, !.raw = {},
                               !.tmp = NoTmpParents, !.err = TRUE]
  <1>0. PICK H : H = [G EXCEPT ![wk.c][rid] = {}]
    OBVIOUS
  <1>1. wk.pc = "generate" /\ UNCHANGED <<clusters, ccs, queue, used, proc>> /\ wk' = Proceed(w)
    BY DEF GenerateInjectionFails, workerUnchanged
  <1>2. PICK R \in ReleasedInAnyOrder(ipam, CidrsOf(wk.raw)) : ipam' = Forget(ipam, R)
    BY DEF GenerateInjectionFails
  <1>3. /\ wk \in Worker /\ wk.c \in Cluster /\ wk.todo \in SUBSET Nat
        /\ i \in wk.todo /\ rid \in Rule /\ proc = "running" /\ Ready
    BY <1>1, GeneratingType, WorkerRuns DEF IndInv, ServiceOK
  <1>4. R \subseteq CidrsOf(G[wk.c][rid])
    <2>1. R \subseteq CidrsOf(wk.raw)
      BY <1>2 DEF ReleasedInAnyOrder
    <2>2. Copy(wk.raw, G[wk.c][rid])
      BY <1>1 DEF ClaimsOK, WorkerClaims, Generating
    <2> QED BY <2>1, <2>2 DEF Copy, CidrsOf
  <1>5. BlockedIn(ipam', H) /\ DisjointClaims(H) /\ InsideParents(H)
    <2>1. DisjointClaims(G) /\ InsideParents(G) /\ BlockedIn(ipam, G) /\ IsStore(ipam)
      BY <1>3 DEF ClaimsOK, Blocked, IndInv, ServiceOK, StoreOK
    <2> QED BY <1>0, <1>2, <1>3, <1>4, <2>1, ForgetClaim
  <1>6. /\ H \in ClaimMap
        /\ AnnotationCopies(H)' /\ ClusterConfigCopies(H)' /\ Entitled(wk.c)
        /\ \A r \in Rule : /\ Copy(wk.cl.ann[r], H[wk.c][r])
                           /\ Copy(wk.ann[r], H[wk.c][r])
                           /\ Copy(wk.create[r], H[wk.c][r])
        /\ \A k \in wk.todo : Untouched(wk.rules[k].id) /\ wk.rules[k].id \in Rule
    BY <1>0, <1>1, ClaimReplaced
  <1>7. /\ w \in Worker /\ w.c = wk.c /\ w.cl = wk.cl /\ w.rules = wk.rules
        /\ w.cfg = wk.cfg /\ w.todo = wk.todo \ {i} /\ w.raw = {} /\ w.tmp = NoTmpParents
        /\ w.ann = wk.ann /\ w.create = wk.create /\ w.update = wk.update
    BY <1>3, NothingType DEF Worker
  <1> HIDE DEF w
  <1>8. /\ wk'.pc \in {"generate", "annotate", "apply"}
        /\ wk'.c = wk.c /\ wk'.cl = wk.cl /\ wk'.rules = wk.rules /\ wk'.cfg = wk.cfg
        /\ wk'.todo = wk.todo \ {i} /\ wk'.raw = {} /\ wk'.tmp = NoTmpParents
        /\ wk'.ann = wk.ann /\ wk'.create = wk.create /\ wk'.update = wk.update
    BY <1>1, <1>7, ProceedFields
  <1>9. WorkerScratch /\ wk.cfg \in Configs
    BY <1>1 DEF ClaimsOK, WorkerClaims, Generating
  <1>10. WorkerScratch'
    <2>1. \A id \in Id : wk'.tmp[id] = NoCidr
      BY <1>8 DEF NoTmpParents
    <2> QED BY <1>8, <1>9, <2>1 DEF WorkerScratch
  <1>11. WorkerCopies(H)'
    <2>1. Entitled(wk.c)'
      BY <1>1, <1>6, <1>8 DEF Entitled
    <2> QED BY <1>6, <1>8, <2>1 DEF WorkerCopies
  <1>12. Generating(H)'
    <2>1. \A k \in wk.todo : Untouched(wk.rules[k].id)'
      BY <1>1, <1>6, <1>8 DEF Untouched
    <2> QED BY <1>8, <1>9, <2>1 DEF Generating, Copy
  <1>13. WorkerClaims(H)'
    BY <1>8, <1>10, <1>11, <1>12 DEF WorkerClaims, Deleting
  <1> QED BY <1>1, <1>5, <1>6, <1>8, <1>13, GenerateFrame

(* handleCreateOrUpdate: the annotation is patched. *)
LEMMA PatchAnnotationClaims ==
    ASSUME IndInv, Steady, NEW G, ClaimsOK(G), PatchAnnotation, UNCHANGED <<rs, cf, standby>>
    PROVE  Steady' /\ ClaimsOK(G)'
  <1>1. /\ wk.pc = "annotate" /\ UNCHANGED <<ccs, ipam, queue, proc>> /\ wk \in Worker
        /\ proc = "running" /\ Ready /\ wk.c \in Cluster /\ wk.c \in used.names
        /\ queue \subseteq used.names
    BY WorkerRuns DEF PatchAnnotation, workerUnchanged, IndInv, ServiceOK, WorkerOK
  <1> DEFINE old == clusters[wk.c]
             new == [old EXCEPT !.ann = wk.ann]
             cl  == Default(new, TRUE)
  <1>2. /\ \E err : wk' = [wk EXCEPT !.pc = "apply", !.err = err]
        /\ UNCHANGED used \/ ApiFails("patch") \/ \E ok : Answered("patch", ok)
        /\ \/ UNCHANGED clusters
           \/ Exists(old) /\ Admitted /\ clusters' = [clusters EXCEPT ![wk.c] = cl]
    BY DEF PatchAnnotation
  <1>3. used'.names = used.names
    BY <1>2, NamesKept
  <1>4. /\ wk'.pc = "apply" /\ wk'.c = wk.c /\ wk'.cl = wk.cl /\ wk'.rules = wk.rules
        /\ wk'.raw = wk.raw /\ wk'.tmp = wk.tmp /\ wk'.ann = wk.ann
        /\ wk'.create = wk.create /\ wk'.update = wk.update
    BY <1>1, <1>2 DEF Worker
  <1>5. WorkerScratch /\ WorkerCopies(G)
    BY DEF ClaimsOK, WorkerClaims
  <1>6. \A d \in Cluster :
            /\ Exists(clusters'[d]) <=> Exists(clusters[d])
            /\ Exists(clusters[d]) => clusters'[d].purpose = clusters[d].purpose
            /\ Exists(clusters[d]) => \/ clusters'[d].ann = clusters[d].ann
                                      \/ d = wk.c /\ clusters'[d].ann = wk.ann
    <2>1. CASE UNCHANGED clusters
      BY <2>1 DEF Exists
    <2>2. CASE Exists(old) /\ Admitted /\ clusters' = [clusters EXCEPT ![wk.c] = cl]
      <3>1. old \in ClusterObject /\ wk.ann \in [Rule -> SUBSET Patch]
        BY <1>1, <2>2 DEF IndInv, ServiceOK, ApiOK, Exists, Worker
      <3>2. new \in ClusterObject /\ new.ann = wk.ann /\ new.purpose = old.purpose
        BY <3>1 DEF ClusterObject
      <3>3. cl.ann = wk.ann /\ cl.purpose = old.purpose
        BY <3>2, DefaultFields
      <3>4. Exists(cl)
        BY <2>2, <3>2, DefaultType, NoObjectType DEF Exists, IndInv, ServiceOK
      <3> HIDE DEF cl
      <3>5. \A d \in Cluster : clusters'[d] = IF d = wk.c THEN cl ELSE clusters[d]
        BY <1>1, <2>2 DEF IndInv, ServiceOK, ApiOK
      <3> QED BY <2>2, <3>3, <3>4, <3>5
    <2> QED BY <1>2, <2>1, <2>2
  <1>7. ASSUME NEW d \in Cluster, Entitled(d)
        PROVE  Entitled(d)'
    BY <1>6, <1>7 DEF Entitled
  <1>8. AnnotationCopies(G)'
    <2> SUFFICES ASSUME NEW d \in Cluster, NEW r \in Rule, Exists(clusters'[d])
                 PROVE  /\ Copy(clusters'[d].ann[r], G[d][r])
                        /\ clusters'[d].ann[r] # {} => Entitled(d)'
      BY DEF AnnotationCopies
    <2>1. CASE clusters'[d].ann = clusters[d].ann
      BY <1>6, <1>7, <2>1 DEF ClaimsOK, AnnotationCopies
    <2>2. CASE d = wk.c /\ clusters'[d].ann = wk.ann
      BY <1>1, <1>5, <1>7, <2>2 DEF WorkerCopies
    <2> QED BY <1>6, <2>1, <2>2
  <1>9. ClusterConfigCopies(G)'
    <2> SUFFICES ASSUME NEW d \in Cluster, NEW r \in Rule, Exists(ccs[d][r])
                 PROVE  /\ Shape(ccs[d][r])
                        /\ ccs[d][r].fin => ccs[d][r].patches = G[d][r]
                        /\ ~ccs[d][r].fin => ~Exists(clusters'[d])
                        /\ Entitled(d)'
      BY <1>1 DEF ClusterConfigCopies, Exists
    <2> QED BY <1>6, <1>7 DEF ClaimsOK, ClusterConfigCopies
  <1>10. WorkerClaims(G)'
    <2>1. WorkerScratch'
      BY <1>1, <1>4, <1>5 DEF WorkerScratch
    <2>2. Entitled(wk.c)
      BY <1>1, <1>5 DEF WorkerCopies
    <2>3. WorkerCopies(G)'
      <3>1. Entitled(wk.c)'
        BY <1>1, <1>4, <1>6, <2>2 DEF Entitled
      <3> QED BY <1>1, <1>4, <1>5, <3>1 DEF WorkerCopies
    <2> QED BY <1>4, <2>1, <2>3 DEF WorkerClaims, Generating, Deleting
  <1>11. Named'
    BY <1>1, <1>3, <1>4, <1>6, NamedStep DEF Steady
  <1>12. Finalized'
    BY <1>1 DEF Steady, Finalized, Exists
  <1>13. DisjointClaims(G) /\ InsideParents(G) /\ BlockedIn(ipam', G)
    BY <1>1 DEF ClaimsOK, Blocked
  <1> QED BY <1>1, <1>8, <1>9, <1>10, <1>11, <1>12, <1>13, WorkerFrame

(* The ClusterConfig is created where there was none, or nothing changes. *)
Created(c, r, uid, patches) ==
    \/ UNCHANGED ccs
    \/ /\ ~Exists(ccs[c][r])
       /\ \A d \in Cluster, s \in Rule :
            ccs'[d][s] = IF d = c /\ s = r THEN NewClusterConfig(uid, patches) ELSE ccs[d][s]

(* What Apply may make of a ClusterConfig that it creates. *)
LEMMA ApplyCreateEffect ==
    ASSUME IndInv, NEW c \in Cluster, NEW r \in Rule, NEW uid \in Nat, NEW patches \in SUBSET Patch,
           \E ok \in BOOLEAN : ApplyCreate(c, r, uid, patches, ok)
    PROVE  /\ UNCHANGED <<clusters, queue>> /\ used'.names = used.names
           /\ Created(c, r, uid, patches)
  <1>1. /\ UNCHANGED <<clusters, queue>>
        /\ UNCHANGED used \/ ApiFails("create") \/ \E ok : Answered("create", ok)
        /\ \/ UNCHANGED ccs
           \/ ~Exists(ccs[c][r]) /\ ccs' = [ccs EXCEPT ![c][r] = NewClusterConfig(uid, patches)]
    BY DEF ApplyCreate, CreateClusterConfig
  <1>2. used'.names = used.names
    BY <1>1, NamesKept
  <1> QED BY <1>1, <1>2 DEF IndInv, ServiceOK, ApiOK, Created

(* If Apply succeeds, the ClusterConfig is there. *)
LEMMA ApplyCreateSucceeds ==
    ASSUME IndInv, NEW c \in Cluster, NEW r \in Rule, NEW uid \in Nat, NEW patches \in SUBSET Patch,
           ApplyCreate(c, r, uid, patches, TRUE)
    PROVE  Exists(ccs'[c][r])
  <1>1. ccs' = [ccs EXCEPT ![c][r] = NewClusterConfig(uid, patches)]
    BY DEF ApplyCreate, CreateClusterConfig
  <1>2. NewClusterConfig(uid, patches) \in ClusterConfig
    BY DEF NewClusterConfig, ClusterConfig
  <1>3. ccs'[c][r] = NewClusterConfig(uid, patches)
    BY <1>1 DEF IndInv, ServiceOK, ApiOK
  <1> QED BY <1>2, <1>3, NoObjectType DEF Exists

(* The created ClusterConfig is a copy of the claim. *)
LEMMA CreatedCopies ==
    ASSUME NEW G, ClusterConfigCopies(G), UNCHANGED clusters,
           NEW c \in Cluster, NEW r \in Rule, NEW uid \in Nat, Entitled(c),
           NEW patches \in SUBSET Patch, patches = G[c][r],
           \A d \in Cluster, s \in Rule :
                ccs'[d][s] = IF d = c /\ s = r THEN NewClusterConfig(uid, patches) ELSE ccs[d][s]
    PROVE  ClusterConfigCopies(G)' /\ Live(ccs'[c][r])
  <1> DEFINE cc == NewClusterConfig(uid, patches)
  <1>1. cc \in ClusterConfig /\ cc.fin /\ ~cc.foreign /\ ~cc.deleting /\ cc.patches = G[c][r]
    BY DEF NewClusterConfig, ClusterConfig
  <1>2. Live(cc) /\ Shape(cc)
    BY <1>1, NoObjectType DEF Live, Exists, Shape
  <1> HIDE DEF cc
  <1>3. \A d \in Cluster, s \in Rule : ccs'[d][s] = IF d = c /\ s = r THEN cc ELSE ccs[d][s]
    BY DEF cc
  <1>4. \A d \in Cluster : Entitled(d)' = Entitled(d)
    BY DEF Entitled
  <1>5. ASSUME NEW d \in Cluster, NEW s \in Rule, Exists(ccs'[d][s])
        PROVE  /\ Shape(ccs'[d][s])
               /\ ccs'[d][s].fin => ccs'[d][s].patches = G[d][s]
               /\ ~ccs'[d][s].fin => ~Exists(clusters[d])
               /\ Entitled(d)
    BY <1>1, <1>2, <1>3, <1>5 DEF ClusterConfigCopies
  <1>6. ClusterConfigCopies(G)'
    BY <1>4, <1>5 DEF ClusterConfigCopies
  <1> QED BY <1>2, <1>3, <1>6

(* RestorationInstruction.Apply: a ClusterConfig is created. *)
LEMMA ApplyCreatesClaims ==
    ASSUME IndInv, Steady, NEW G, ClaimsOK(G), ApplyCreates, UNCHANGED <<rs, cf, standby>>
    PROVE  Steady' /\ ClaimsOK(G)'
  <1>1. /\ wk.pc = "apply" /\ UNCHANGED <<ipam, proc>> /\ wk \in Worker /\ Exists(wk.cl)
        /\ proc = "running" /\ Ready /\ wk.c \in Cluster /\ wk.c \in used.names
        /\ queue \subseteq used.names
    BY WorkerRuns DEF ApplyCreates, IndInv, ServiceOK, WorkerOK
  <1>2. PICK r \in Rule, ok \in BOOLEAN :
            /\ wk.create[r] # {}
            /\ ApplyCreate(wk.c, r, wk.cl.uid, wk.create[r], ok)
            /\ wk' = [wk EXCEPT !.create[r] = {}, !.err = @ \/ ~ok]
    BY DEF ApplyCreates
  <1>3. /\ wk'.pc = "apply" /\ wk'.c = wk.c /\ wk'.cl = wk.cl /\ wk'.rules = wk.rules
        /\ wk'.raw = wk.raw /\ wk'.tmp = wk.tmp /\ wk'.ann = wk.ann /\ wk'.update = wk.update
        /\ \A s \in Rule : wk'.create[s] = {} \/ wk'.create[s] = wk.create[s]
    BY <1>1, <1>2 DEF Worker
  <1>4. WorkerScratch /\ WorkerCopies(G) /\ ClusterConfigCopies(G) /\ AnnotationCopies(G)
    BY DEF ClaimsOK, WorkerClaims
  <1>5. Entitled(wk.c) /\ wk.create[r] = G[wk.c][r]
    BY <1>1, <1>2, <1>4 DEF WorkerCopies, Copy
  <1>6a. wk.cl.uid \in Nat /\ wk.create[r] \in SUBSET Patch
    BY <1>1 DEF Worker, ClusterObject, Exists
  <1>6. /\ UNCHANGED <<clusters, queue>> /\ used'.names = used.names
        /\ \/ UNCHANGED ccs
           \/ \A d \in Cluster, s \in Rule :
                ccs'[d][s] = IF d = wk.c /\ s = r THEN NewClusterConfig(wk.cl.uid, wk.create[r])
                             ELSE ccs[d][s]
    <2>1. ApplyCreate(wk.c, r, wk.cl.uid, wk.create[r], ok)
      BY <1>2
    <2>2. PICK c \in Cluster, uid \in Nat, patches \in SUBSET Patch :
            c = wk.c /\ uid = wk.cl.uid /\ patches = wk.create[r]
      BY <1>1, <1>6a
    <2>3. \E b \in BOOLEAN : ApplyCreate(c, r, uid, patches, b)
      BY <2>1, <2>2
    <2>4. /\ UNCHANGED <<clusters, queue>> /\ used'.names = used.names
          /\ Created(c, r, uid, patches)
      BY <2>3, ApplyCreateEffect
    <2> QED BY <2>2, <2>4 DEF Created
  <1>8. ClusterConfigCopies(G)' /\ Finalized' /\ Named'
    <2>1. CASE UNCHANGED ccs
      <3>1. ClusterConfigCopies(G)'
        BY <1>4, <1>6, <2>1 DEF ClusterConfigCopies, Exists, Entitled
      <3>2. Finalized'
        BY <1>1, <2>1 DEF Steady, Finalized, Exists
      <3>3. Named'
        BY <1>1, <1>3, <1>6, <2>1, NamedStep DEF Steady
      <3> QED BY <3>1, <3>2, <3>3
    <2>2. CASE \A d \in Cluster, s \in Rule :
                ccs'[d][s] = IF d = wk.c /\ s = r THEN NewClusterConfig(wk.cl.uid, wk.create[r])
                             ELSE ccs[d][s]
      <3>1. ClusterConfigCopies(G)' /\ Live(ccs'[wk.c][r])
        BY <1>1, <1>4, <1>5, <1>6, <1>6a, <2>2, CreatedCopies
      <3>2. Finalized'
        <4>1. \A d \in Cluster, s \in Rule : Exists(ccs[d][s]) => ccs[d][s].fin
          BY <1>1 DEF Steady, Finalized
        <4>2. \A d \in Cluster, s \in Rule : Exists(ccs'[d][s]) => ccs'[d][s].fin
          BY <2>2, <3>1, <4>1 DEF Live
        <4> QED BY <4>2 DEF Finalized
      <3>3. Named'
        <4>1. \A d \in Cluster, s \in Rule :
                Exists(ccs'[d][s]) => Exists(ccs[d][s]) \/ d \in used'.names
          BY <1>1, <1>6, <2>2
        <4> QED BY <1>1, <1>3, <1>6, <4>1, NamedStep DEF Steady
      <3> QED BY <3>1, <3>2, <3>3
    <2> QED BY <1>6, <2>1, <2>2
  <1>9. AnnotationCopies(G)'
    BY <1>4, <1>6 DEF AnnotationCopies, Exists, Entitled
  <1>10. WorkerClaims(G)'
    <2>1. WorkerScratch'
      BY <1>1, <1>3, <1>4 DEF WorkerScratch
    <2>2. Entitled(wk.c)'
      BY <1>3, <1>5, <1>6 DEF Entitled
    <2>3. WorkerCopies(G)'
      BY <1>1, <1>3, <1>4, <2>2 DEF WorkerCopies, Copy
    <2> QED BY <1>3, <2>1, <2>3 DEF WorkerClaims, Generating, Deleting
  <1>11. DisjointClaims(G) /\ InsideParents(G) /\ BlockedIn(ipam', G)
    BY <1>1 DEF ClaimsOK, Blocked
  <1> QED BY <1>1, <1>8, <1>9, <1>10, <1>11, WorkerFrame

(* Nothing is ever missing from a ClusterConfig. *)
LEMMA ApplyUpdatesImpossible ==
    ASSUME NEW G, ClaimsOK(G)
    PROVE  ~ApplyUpdates
  <1>1. wk.update = NoUpdates
    BY DEF ClaimsOK, WorkerClaims, WorkerScratch
  <1> QED BY <1>1 DEF ApplyUpdates, NoUpdates, Exists

(* The ends of handleCreateOrUpdate and handleDelete. *)
LEMMA FinishClaims ==
    ASSUME IndInv, Steady, NEW G, ClaimsOK(G), FinishCreateOrUpdate \/ FinishDelete,
           UNCHANGED <<rs, cf, standby>>
    PROVE  Steady' /\ ClaimsOK(G)'
  <1>1. /\ wk.pc \in {"apply", "delRelease"} /\ Return(wk.c, wk.err)
        /\ UNCHANGED <<clusters, ccs, ipam, used, proc>>
    BY DEF FinishCreateOrUpdate, FinishDelete, workerUnchanged
  <1> QED BY <1>1, ReturnClaims

(* handleDelete: the ClusterConfigs are listed. *)
LEMMA ListForDeleteClaims ==
    ASSUME IndInv, Steady, NEW G, ClaimsOK(G), ListForDelete, UNCHANGED <<rs, cf, standby>>
    PROVE  Steady' /\ ClaimsOK(G)'
  <1>1. /\ wk.pc = "delList" /\ wk \in Worker
        /\ wk' = [wk EXCEPT !.pc = "delRelease", !.del = ccs[wk.c]]
        /\ UNCHANGED <<clusters, ccs, ipam, queue, used, proc>>
        /\ proc = "running" /\ Ready /\ wk.c \in Cluster /\ wk.c \in used.names
        /\ queue \subseteq used.names
    BY WorkerRuns DEF ListForDelete, workerUnchanged, IndInv, ServiceOK, WorkerOK
  <1>2. /\ wk'.pc = "delRelease" /\ wk'.c = wk.c /\ wk'.rules = wk.rules /\ wk'.raw = wk.raw
        /\ wk'.tmp = wk.tmp /\ wk'.update = wk.update /\ wk'.del = ccs[wk.c]
    BY <1>1 DEF Worker
  <1>3. WorkerScratch' /\ ~Exists(clusters[wk.c])
    BY <1>1, <1>2 DEF ClaimsOK, WorkerClaims, WorkerScratch, Deleting
  <1>4. \A r \in Rule : Exists(ccs[wk.c][r]) =>
            /\ Live(ccs[wk.c][r]) /\ ~ccs[wk.c][r].foreign
            /\ ccs[wk.c][r].patches = G[wk.c][r]
    BY <1>1 DEF Steady, Finalized, ClaimsOK, ClusterConfigCopies, Shape, Live
  <1>5. Deleting(G)'
    BY <1>1, <1>2, <1>3, <1>4 DEF Deleting, Listed, Exists, Live
  <1>6. WorkerClaims(G)'
    BY <1>2, <1>3, <1>5 DEF WorkerClaims, WorkerCopies, Generating
  <1>7. Tame /\ \A d \in Cluster : Exists(clusters'[d]) => Exists(clusters[d])
    BY <1>1, UnchangedTame
  <1> QED BY <1>1, <1>2, <1>6, <1>7, WorkerTameStep

(* What releaseCIDRsForClusterConfig_internal does to a ClusterConfig that *)
(* was listed with the finalizer and without a foreign one.                *)
LEMMA ReleaseEffect ==
    ASSUME IndInv, NEW c \in Cluster, NEW r \in Rule, NEW cc \in ClusterConfig, cc.fin, ~cc.foreign,
           Exists(ccs[c][r]) => Shape(ccs[c][r]),
           NEW ok \in BOOLEAN, ReleaseCIDRs(c, r, cc, ok)
    PROVE  /\ UNCHANGED clusters /\ used'.names = used.names
           /\ queue' \subseteq queue \cup {c}
           /\ \/ UNCHANGED <<ccs, ipam>> /\ ~ok
              \/ /\ Exists(ccs[c][r])
                 /\ \A d \in Cluster, s \in Rule : <<d, s>> # <<c, r>> => ccs'[d][s] = ccs[d][s]
                 /\ Exists(ccs'[c][r]) =>
                        /\ Shape(ccs'[c][r]) /\ ~ccs'[c][r].fin
                        /\ ~ccs[c][r].deleting
                 /\ ccs'[c][r] \in ClusterConfig \cup {NoObject}
                 /\ \/ UNCHANGED ipam
                    \/ \E R : R \subseteq CidrsOf(cc.patches) /\ ipam' = Forget(ipam, R)
  <1> DEFINE S   == CidrsOf(cc.patches)
             R   == ReleasedInOrder(ipam, S)
             now == ccs[c][r]
             new == [now EXCEPT !.fin = FALSE, !.foreign = cc.foreign]
  <1>1. UNCHANGED clusters /\ used'.names = used.names
    <2>1. UNCHANGED used \/ ApiFails("release") \/ Answered("release", ok)
      BY DEF ReleaseCIDRs
    <2> QED BY <2>1, NamesKept DEF ReleaseCIDRs
  <1>2. CASE UNCHANGED <<ccs, ipam, queue>> /\ ~ok
    BY <1>1, <1>2
  <1>3. CASE /\ ~ReleaseFails(ipam, S) /\ ~FinalizerPatchFails(now, cc)
             /\ WriteClusterConfig(c, r, Persisted(new))
             /\ ipam' = IF ok THEN Forget(ipam, R) ELSE ipam
    <2>1. Exists(now)
      BY <1>3 DEF FinalizerPatchFails
    <2>2. now \in ClusterConfig /\ Shape(now)
      BY <2>1 DEF IndInv, ServiceOK, ApiOK, Exists
    <2>3. /\ new \in ClusterConfig /\ ~new.fin /\ ~new.foreign
          /\ new.deleting <=> now.deleting
      BY <2>2 DEF ClusterConfig
    <2>4. \A d \in Cluster, s \in Rule :
            ccs'[d][s] = IF d = c /\ s = r THEN Persisted(new) ELSE ccs[d][s]
      BY <1>3 DEF WriteClusterConfig, IndInv, ServiceOK, ApiOK
    <2>5. queue' \subseteq queue \cup {c}
      BY <1>3 DEF WriteClusterConfig
    <2> HIDE DEF new
    <2>6. /\ Persisted(new) \in ClusterConfig \cup {NoObject}
          /\ Exists(Persisted(new)) => Persisted(new) = new /\ ~new.deleting
      BY <2>3 DEF Persisted, Exists
    <2>7. Exists(ccs'[c][r]) => /\ Shape(ccs'[c][r]) /\ ~ccs'[c][r].fin
                                /\ ~now.deleting
      BY <2>3, <2>4, <2>6 DEF Shape
    <2>8. UNCHANGED ipam \/ \E Q : Q \subseteq S /\ ipam' = Forget(ipam, Q)
      <3>1. CASE ~ok
        BY <1>3, <3>1
      <3>2. CASE ok
        <4>1. R \subseteq S
          BY ReleasedSubset DEF IndInv, ServiceOK, StoreOK
        <4> QED BY <1>3, <3>2, <4>1
      <3> QED BY <3>1, <3>2
    <2>9. \A d \in Cluster, s \in Rule : <<d, s>> # <<c, r>> => ccs'[d][s] = ccs[d][s]
      BY <2>4
    <2>10. ccs'[c][r] \in ClusterConfig \cup {NoObject}
      BY <2>4, <2>6
    <2> QED BY <1>1, <2>1, <2>5, <2>7, <2>8, <2>9, <2>10
  <1> QED BY <1>2, <1>3 DEF ReleaseCIDRs

(* handleDelete: the CIDRs of a ClusterConfig are released, and it loses   *)
(* its finalizer.                                                          *)
LEMMA ReleaseForDeleteClaims ==
    ASSUME IndInv, Steady, NEW G \in ClaimMap, ClaimsOK(G), ReleaseForDelete,
           UNCHANGED <<rs, cf, standby>>
    PROVE  Steady' /\ Claimed'
  <1>1. /\ wk.pc = "delRelease" /\ UNCHANGED proc /\ wk \in Worker
        /\ proc = "running" /\ Ready /\ wk.c \in Cluster /\ wk.c \in used.names
        /\ queue \subseteq used.names
    BY WorkerRuns DEF ReleaseForDelete, IndInv, ServiceOK, WorkerOK
  <1>2. PICK r \in Rule, ok \in BOOLEAN :
            /\ Exists(wk.del[r])
            /\ ReleaseCIDRs(wk.c, r, wk.del[r], ok)
            /\ wk' = [wk EXCEPT !.pc = "delDelete", !.r = r, !.err = @ \/ ~ok]
    BY DEF ReleaseForDelete
  <1>3. /\ wk'.pc = "delDelete" /\ wk'.c = wk.c /\ wk'.r = r /\ wk'.rules = wk.rules
        /\ wk'.raw = wk.raw /\ wk'.tmp = wk.tmp /\ wk'.update = wk.update /\ wk'.del = wk.del
    BY <1>1, <1>2 DEF Worker
  <1>4. /\ ~Exists(clusters[wk.c])
        /\ \A s \in Rule : Exists(wk.del[s]) => Listed(G, s)
    BY <1>1 DEF ClaimsOK, WorkerClaims, Deleting
  <1>5. /\ wk.del[r] \in ClusterConfig /\ wk.del[r].fin /\ ~wk.del[r].foreign
        /\ wk.del[r].patches = G[wk.c][r] /\ Live(ccs[wk.c][r])
    BY <1>1, <1>2, <1>4 DEF Listed, Live, Worker, Exists
  <1>6. AnnotationCopies(G) /\ ClusterConfigCopies(G) /\ WorkerScratch
    BY DEF ClaimsOK, WorkerClaims
  <1>7. Shape(ccs[wk.c][r])
    BY <1>1, <1>5, <1>6 DEF ClusterConfigCopies, Live
  <1>8. /\ UNCHANGED clusters /\ used'.names = used.names
        /\ queue' \subseteq queue \cup {wk.c}
        /\ \/ UNCHANGED <<ccs, ipam>> /\ ~ok
           \/ /\ \A d \in Cluster, s \in Rule : <<d, s>> # <<wk.c, r>> => ccs'[d][s] = ccs[d][s]
              /\ Exists(ccs'[wk.c][r]) => Shape(ccs'[wk.c][r]) /\ ~ccs'[wk.c][r].fin
              /\ \/ UNCHANGED ipam
                 \/ \E R : R \subseteq CidrsOf(wk.del[r].patches) /\ ipam' = Forget(ipam, R)
    BY <1>1, <1>2, <1>5, <1>7, ReleaseEffect
  <1>9. /\ \A d \in Cluster, s \in Rule : <<d, s>> # <<wk.c, r>> => ccs'[d][s] = ccs[d][s]
        /\ Exists(ccs'[wk.c][r]) =>
             /\ Exists(ccs[wk.c][r]) /\ Shape(ccs'[wk.c][r])
             /\ ccs'[wk.c][r].fin => ccs'[wk.c][r] = ccs[wk.c][r]
        /\ ccs'[wk.c][r] = ccs[wk.c][r] => UNCHANGED ipam
    <2>1. CASE UNCHANGED <<ccs, ipam>>
      BY <1>7, <2>1
    <2>2. CASE ~UNCHANGED <<ccs, ipam>>
      <3>1. ccs'[wk.c][r] # ccs[wk.c][r]
        BY <1>5, <1>8, <2>2 DEF Live
      <3> QED BY <1>5, <1>8, <2>2, <3>1 DEF Live
    <2> QED BY <2>1, <2>2
  <1>10. \E R : R \subseteq CidrsOf(G[wk.c][r]) /\ (ipam' = Forget(ipam, R) \/ UNCHANGED ipam)
    BY <1>5, <1>8
  <1>11. PICK H \in ClaimMap :
            /\ \A d \in Cluster, s \in Rule : <<d, s>> # <<wk.c, r>> => H[d][s] = G[d][s]
            /\ DisjointClaims(H) /\ InsideParents(H) /\ BlockedIn(ipam', H)
            /\ H = G \/ ccs'[wk.c][r] # ccs[wk.c][r]
    <2>1. DisjointClaims(G) /\ InsideParents(G) /\ BlockedIn(ipam, G) /\ IsStore(ipam)
      BY <1>1 DEF ClaimsOK, Blocked, IndInv, ServiceOK, StoreOK
    <2>2. CASE UNCHANGED ipam
      BY <2>1, <2>2
    <2>3. CASE ~UNCHANGED ipam
      <3>1. PICK R : R \subseteq CidrsOf(G[wk.c][r]) /\ ipam' = Forget(ipam, R)
        BY <1>10, <2>3
      <3>2. PICK H : H = [G EXCEPT ![wk.c][r] = {}]
        OBVIOUS
      <3>3. H \in ClaimMap /\ BlockedIn(ipam', H) /\ DisjointClaims(H) /\ InsideParents(H)
        BY <1>1, <2>1, <3>1, <3>2, ForgetClaim
      <3>4. \A d \in Cluster, s \in Rule : <<d, s>> # <<wk.c, r>> => H[d][s] = G[d][s]
        BY <1>1, <3>2 DEF ClaimMap
      <3> QED BY <1>9, <2>3, <3>3, <3>4
    <2> QED BY <2>2, <2>3
  <1>12. AnnotationCopies(H)'
    <2>1. \A d \in Cluster, s \in Rule : Exists(clusters[d]) => H[d][s] = G[d][s]
      BY <1>4, <1>11
    <2> QED BY <1>6, <1>8, <2>1 DEF AnnotationCopies, Entitled, Exists
  <1>13. ClusterConfigCopies(H)'
    <2> SUFFICES ASSUME NEW d \in Cluster, NEW s \in Rule, Exists(ccs'[d][s])
                 PROVE  /\ Shape(ccs'[d][s])
                        /\ ccs'[d][s].fin => ccs'[d][s].patches = H[d][s]
                        /\ ~ccs'[d][s].fin => ~Exists(clusters[d])
                        /\ Entitled(d)
      BY <1>8 DEF ClusterConfigCopies, Entitled, Exists
    <2>1. CASE <<d, s>> # <<wk.c, r>>
      BY <1>6, <1>9, <1>11, <2>1 DEF ClusterConfigCopies
    <2>2. CASE d = wk.c /\ s = r
      <3>1. Entitled(d)
        BY <1>4, <2>2 DEF Entitled
      <3>2. ccs'[d][s].fin => ccs'[d][s].patches = H[d][s]
        <4>1. ccs'[d][s].fin => ccs'[d][s] = ccs[d][s] /\ H = G
          BY <1>9, <1>11, <2>2
        <4>2. Exists(ccs[d][s]) /\ ccs[d][s].fin => ccs[d][s].patches = G[d][s]
          BY <1>6 DEF ClusterConfigCopies
        <4> QED BY <1>9, <2>2, <4>1, <4>2
      <3> QED BY <1>4, <1>9, <2>2, <3>1, <3>2
    <2> QED BY <2>1, <2>2
  <1>14. WorkerClaims(H)'
    <2>1. WorkerScratch'
      BY <1>1, <1>3, <1>6 DEF WorkerScratch
    <2>2. \A s \in Rule : Exists(wk.del[s]) /\ s # r => Listed(H, s)'
      <3> SUFFICES ASSUME NEW s \in Rule, Exists(wk.del[s]), s # r
                   PROVE  Listed(H, s)'
        OBVIOUS
      <3>1. Listed(G, s)
        BY <1>4
      <3>2. ccs'[wk.c][s] = ccs[wk.c][s] /\ H[wk.c][s] = G[wk.c][s]
        BY <1>1, <1>9, <1>11
      <3> QED BY <1>3, <3>1, <3>2 DEF Listed, Live, Exists
    <2>3. Deleting(H)'
      BY <1>3, <1>4, <1>8, <2>2 DEF Deleting, Exists
    <2> QED BY <1>3, <2>1, <2>3 DEF WorkerClaims, WorkerCopies, Generating
  <1>15. Named'
    <2>1. \A d \in Cluster, s \in Rule :
            Exists(ccs'[d][s]) => Exists(ccs[d][s]) \/ d \in used'.names
      BY <1>9
    <2> QED BY <1>1, <1>3, <1>8, <2>1, NamedStep DEF Steady
  <1>16. Finalized'
    BY <1>1, <1>3, <1>9 DEF Steady, Finalized
  <1>17. Steady' /\ ClaimsOK(H)'
    BY <1>1, <1>11, <1>12, <1>13, <1>14, <1>15, <1>16, WorkerFrame
  <1> QED BY <1>17 DEF Claimed

(* Deleting a ClusterConfig ages it, and it is not left behind without the *)
(* finalizer.                                                              *)
LEMMA DeleteEffect ==
    ASSUME Undisturbed, IndInv, NEW c \in Cluster, NEW r \in Rule,
           Exists(ccs[c][r]) => Shape(ccs[c][r]),
           NEW ok, DeleteClusterConfig(c, r, ok)
    PROVE  /\ UNCHANGED clusters /\ used'.names = used.names
           /\ queue' \subseteq queue \cup {c}
           /\ \A d \in Cluster, s \in Rule : Aged(ccs[d][s], ccs'[d][s])
           /\ \A d \in Cluster, s \in Rule : <<d, s>> # <<c, r>> => ccs'[d][s] = ccs[d][s]
           /\ Exists(ccs'[c][r]) => Live(ccs'[c][r]) /\ ccs'[c][r].deleting
  <1>1. UNCHANGED clusters /\ Answered("delete", ok)
    BY DEF DeleteClusterConfig, ApiFails, Undisturbed
  <1>2. used'.names = used.names
    BY <1>1, NamesKept
  <1>3. CASE /\ Exists(ccs[c][r]) /\ ~ccs[c][r].deleting
             /\ WriteClusterConfig(c, r, Deleted(ccs[c][r]))
    <2>1. ccs[c][r] \in ClusterConfig /\ Shape(ccs[c][r])
      BY <1>3 DEF IndInv, ServiceOK, ApiOK, Exists
    <2>2. /\ Aged(ccs[c][r], Deleted(ccs[c][r]))
          /\ Exists(Deleted(ccs[c][r])) =>
                Live(Deleted(ccs[c][r])) /\ Deleted(ccs[c][r]).deleting
      BY <2>1, DeletedAged
    <2>3. \A d \in Cluster, s \in Rule :
            ccs'[d][s] = IF d = c /\ s = r THEN Deleted(ccs[c][r]) ELSE ccs[d][s]
      BY <1>3 DEF WriteClusterConfig, IndInv, ServiceOK, ApiOK
    <2>4. queue' \subseteq queue \cup {c}
      BY <1>3 DEF WriteClusterConfig
    <2>5. \A d \in Cluster, s \in Rule : Aged(ccs[d][s], ccs'[d][s])
      BY <2>2, <2>3 DEF Aged
    <2> QED BY <1>1, <1>2, <2>2, <2>3, <2>4, <2>5
  <1>4. CASE /\ ~(Exists(ccs[c][r]) /\ ~ccs[c][r].deleting) /\ UNCHANGED <<ccs, queue>>
    <2>1. Exists(ccs[c][r]) => Live(ccs[c][r]) /\ ccs[c][r].deleting
      BY <1>4 DEF Shape, Live
    <2> QED BY <1>1, <1>2, <1>4, <2>1 DEF Aged, Exists, Live
  <1> QED BY <1>3, <1>4 DEF DeleteClusterConfig, ApiFails, Undisturbed

(* handleDelete: the ClusterConfig is deleted. *)
LEMMA DeleteForDeleteClaims ==
    ASSUME Undisturbed, IndInv, Steady, NEW G, ClaimsOK(G), DeleteForDelete,
           UNCHANGED <<rs, cf, standby>>
    PROVE  Steady' /\ ClaimsOK(G)'
  <1>1. /\ wk.pc = "delDelete" /\ UNCHANGED <<ipam, proc>> /\ wk \in Worker
        /\ proc = "running" /\ Ready /\ wk.c \in Cluster /\ wk.c \in used.names
        /\ wk.r \in Rule /\ queue \subseteq used.names
    BY WorkerRuns DEF DeleteForDelete, IndInv, ServiceOK, WorkerOK
  <1>2. PICK ok \in BOOLEAN :
            /\ DeleteClusterConfig(wk.c, wk.r, ok)
            /\ wk' = [wk EXCEPT !.pc = "delRelease", !.del[wk.r] = NoObject, !.err = @ \/ ~ok]
    BY DEF DeleteForDelete
  <1>3. /\ wk'.pc = "delRelease" /\ wk'.c = wk.c /\ wk'.rules = wk.rules
        /\ wk'.raw = wk.raw /\ wk'.tmp = wk.tmp /\ wk'.update = wk.update
        /\ \A s \in Rule : wk'.del[s] = IF s = wk.r THEN NoObject ELSE wk.del[s]
    BY <1>1, <1>2 DEF Worker
  <1>4. Exists(ccs[wk.c][wk.r]) => Shape(ccs[wk.c][wk.r])
    BY <1>1 DEF ClaimsOK, ClusterConfigCopies
  <1>5. /\ UNCHANGED clusters /\ used'.names = used.names
        /\ queue' \subseteq queue \cup {wk.c}
        /\ \A d \in Cluster, s \in Rule : Aged(ccs[d][s], ccs'[d][s])
        /\ \A d \in Cluster, s \in Rule : <<d, s>> # <<wk.c, wk.r>> => ccs'[d][s] = ccs[d][s]
        /\ Exists(ccs'[wk.c][wk.r]) => Live(ccs'[wk.c][wk.r])
    BY <1>1, <1>2, <1>4, DeleteEffect
  <1>6. Tame
    BY <1>5 DEF Tame, ClustersTame, Exists
  <1>7. AnnotationCopies(G)' /\ ClusterConfigCopies(G)'
    BY <1>6, ObjectsTame DEF Steady, ClaimsOK
  <1>8. WorkerClaims(G)'
    <2>1. WorkerScratch'
      BY <1>1, <1>3 DEF ClaimsOK, WorkerClaims, WorkerScratch
    <2>2. ~Exists(clusters[wk.c]) /\ \A s \in Rule : Exists(wk.del[s]) /\ s # wk.r => Listed(G, s)
      BY <1>1 DEF ClaimsOK, WorkerClaims, Deleting
    <2>3. \A s \in Rule : Exists(wk'.del[s]) => Listed(G, s)'
      <3> SUFFICES ASSUME NEW s \in Rule, Exists(wk'.del[s])
                   PROVE  Listed(G, s)'
        OBVIOUS
      <3>1. s # wk.r /\ wk'.del[s] = wk.del[s] /\ Listed(G, s)
        BY <1>3, <2>2 DEF Exists
      <3>2. ccs'[wk.c][s] = ccs[wk.c][s]
        BY <1>1, <1>5, <3>1
      <3> QED BY <1>3, <3>1, <3>2 DEF Listed, Live, Exists
    <2>4. Deleting(G)'
      BY <1>3, <1>5, <2>2, <2>3 DEF Deleting, Exists
    <2> QED BY <1>3, <2>1, <2>4 DEF WorkerClaims, WorkerCopies, Generating
  <1>9. Named'
    <2>1. \A d \in Cluster, s \in Rule : Exists(ccs'[d][s]) => Exists(ccs[d][s])
      BY <1>5 DEF Aged, Live, Exists
    <2> QED BY <1>1, <1>3, <1>5, <2>1, NamedStep DEF Steady
  <1>10. Finalized'
    <2>1. \A d \in Cluster, s \in Rule : Exists(ccs'[d][s]) => ccs'[d][s].fin
      BY <1>1, <1>5 DEF Steady, Finalized, Live
    <2> QED BY <2>1 DEF Finalized
  <1>11. DisjointClaims(G) /\ InsideParents(G) /\ BlockedIn(ipam', G)
    BY <1>1 DEF ClaimsOK, Blocked
  <1> QED BY <1>1, <1>7, <1>8, <1>9, <1>10, <1>11, WorkerFrame

(* Every step of the Cluster controller keeps the claims accounted for. *)
LEMMA ClusterReconcileClaims ==
    ASSUME Undisturbed, IndInv, IndInv', Steady, Claimed, ClusterReconcile,
           UNCHANGED <<rs, cf, standby>>
    PROVE  Steady' /\ Claimed'
  <1>1. PICK G \in ClaimMap : ClaimsOK(G)
    BY DEF Claimed
  <1>2. SUFFICES Steady' /\ (Claimed' \/ ClaimsOK(G)')
    BY DEF Claimed
  <1>3. CASE \E c \in Cluster : FetchCluster(c) \/ FetchClusterFails(c)
    BY <1>1, <1>3, FetchClusterClaims, FetchClusterFailsClaims
  <1>4. CASE RemoveOperationAnnotation
    BY <1>1, <1>4, RemoveOperationAnnotationClaims
  <1>5. CASE ManageInjections
    BY <1>1, <1>5, ManageInjectionsClaims
  <1>6. CASE ManageInjectionsFails \/ ListForDeleteFails
    BY <1>1, <1>6, ListFailsClaims
  <1>7. CASE GenerateInjection
    BY <1>1, <1>7, GenerateInjectionClaims
  <1>8. CASE GenerateInjectionFails
    BY <1>1, <1>8, GenerateInjectionFailsClaims
  <1>9. CASE PatchAnnotation
    BY <1>1, <1>9, PatchAnnotationClaims
  <1>10. CASE ApplyCreates
    BY <1>1, <1>10, ApplyCreatesClaims
  <1>11. CASE FinishCreateOrUpdate \/ FinishDelete
    BY <1>1, <1>11, FinishClaims
  <1>12. CASE ListForDelete
    BY <1>1, <1>12, ListForDeleteClaims
  <1>13. CASE ReleaseForDelete
    BY <1>1, <1>13, ReleaseForDeleteClaims
  <1>14. CASE DeleteForDelete
    BY <1>1, <1>14, DeleteForDeleteClaims
  <1>15. CASE GetConfigAgain
    BY <1>1, <1>15, GetConfigAgainClaims
  <1> QED
    BY <1>1, <1>3, <1>4, <1>5, <1>6, <1>7, <1>8, <1>9, <1>10, <1>11, <1>12, <1>13, <1>14,
       <1>15, ApplyUpdatesImpossible DEF ClusterReconcile
=============================================================================
