---------------------------- MODULE StoreProofs ----------------------------
(***************************************************************************)
(* Lemmas about address ranges and IPAM stores: acquiring and releasing    *)
(* keep a store well-formed, and so does rebuilding it from ClusterConfigs.*)
(***************************************************************************)
EXTENDS Shared, TLAPS, WellFoundedInduction

(* A CIDR is a function on 1..n for its size n. *)
LEMMA CidrLen ==
    ASSUME NEW c \in CIDR
    PROVE  /\ Len(c) \in 0..Width
           /\ Len(c) \in Nat
           /\ c \in [1..Len(c) -> {0, 1}]
           /\ DOMAIN c = 1..Len(c)
  <1>1. PICK n \in 0..Width : c \in [1..n -> {0, 1}]
    BY DEF CIDR
  <1>2. n \in Nat
    BY <1>1, WidthAssumption
  <1>3. c \in Seq({0, 1})
    BY <1>1, <1>2
  <1>4. Len(c) = n
    BY <1>1, <1>2, <1>3
  <1> QED
    BY <1>1, <1>2, <1>4

(* An element of a sequence is in the set the sequence is over. *)
LEMMA SeqElement ==
    ASSUME NEW S, NEW s \in Seq(S), NEW i \in DOMAIN s
    PROVE  s[i] \in S /\ Len(s) \in Nat /\ DOMAIN s = 1..Len(s)
  OBVIOUS

(* Every non-empty set of naturals has a least element. *)
LEMMA LeastNatural ==
    ASSUME NEW T \in SUBSET Nat, T # {}
    PROVE  \E x \in T : \A y \in T : x <= y
  <1> DEFINE R == {ss \in Nat \X Nat : ss[1] < ss[2]}
  <1>1. IsWellFoundedOn(R, Nat)
    BY NatLessThanWellFounded, Zenon DEF OpToRel
  <1> HIDE DEF R
  <1>2. PICK x \in T : \A y \in T : ~(<<y, x>> \in R)
    BY <1>1, WFMin, Zenon
  <1>3. ASSUME NEW y \in T
        PROVE  x <= y
    <2>1. x \in Nat /\ y \in Nat
      OBVIOUS
    <2>2. y < x => <<y, x>> \in R
      BY <2>1, Zenon DEF R
    <2> QED
      BY <1>2, <2>1, <2>2
  <1> QED
    BY <1>3

(* Containment of ranges is reflexive, transitive and antisymmetric, and   *)
(* two ranges around a third are comparable.                               *)
LEMMA ContainsReflexive ==
    ASSUME NEW a \in CIDR
    PROVE  Contains(a, a)
  BY CidrLen DEF Contains

(* A range around a range around a third is around the third. *)
LEMMA ContainsTransitive ==
    ASSUME NEW a \in CIDR, NEW b \in CIDR, NEW c \in CIDR,
           Contains(a, b), Contains(b, c)
    PROVE  Contains(a, c)
  BY CidrLen DEF Contains

(* Two ranges that contain each other are the same. *)
LEMMA ContainsAntisymmetric ==
    ASSUME NEW a \in CIDR, NEW b \in CIDR, Contains(a, b), Contains(b, a)
    PROVE  a = b
  <1>1. Len(a) = Len(b)
    BY CidrLen DEF Contains
  <1>2. \A i \in 1..Len(a) : a[i] = b[i]
    BY DEF Contains
  <1> QED
    BY <1>1, <1>2, CidrLen

(* Of two ranges around a third, one contains the other. *)
LEMMA AroundComparable ==
    ASSUME NEW a \in CIDR, NEW b \in CIDR, NEW c \in CIDR,
           Contains(a, c), Contains(b, c), Len(a) <= Len(b)
    PROVE  Contains(a, b)
  BY CidrLen DEF Contains

-----------------------------------------------------------------------------
(* Acquiring and releasing.                                                *)

(* The IPAM state of a new process, before its first Restore. *)
LEMMA EmptyStoreWellFormed == IsStore(EmptyStore) /\ WellFormed(EmptyStore)
  BY DEF EmptyStore, IsStore, WellFormed, ParentAroundChild, SiblingsDisjoint

(* Forgetting CIDRs keeps a store well-formed, whichever they are. *)
LEMMA ForgetWellFormed ==
    ASSUME NEW st, IsStore(st), NEW R
    PROVE  /\ IsStore(Forget(st, R))
           /\ WellFormed(st) => WellFormed(Forget(st, R))
  BY DEF Forget, IsStore, WellFormed, ParentAroundChild, SiblingsDisjoint

(* So does recording what AcquireChildPrefix returns. *)
LEMMA RecordWellFormed ==
    ASSUME NEW st, IsStore(st), NEW p, NEW size,
           NEW c \in FreeChildren(st, p, size)
    PROVE  /\ IsStore(Record(st, c, p))
           /\ WellFormed(st) => WellFormed(Record(st, c, p))
  <1>1. /\ c \in CIDR /\ p \in DOMAIN st /\ p \in CIDR /\ p # NoCidr
        /\ Contains(p, c) /\ c \notin DOMAIN st
        /\ \A x \in DOMAIN st : st[x] = p => ~Overlaps(x, c)
    BY GoIpamAssumption DEF FreeChildren, ChildrenOf, IsStore
  <1>2. p # c
    BY <1>1
  <1>3. IsStore(Record(st, c, p))
    BY <1>1 DEF Record, IsStore
  <1>4. ASSUME ParentAroundChild(st)
        PROVE  ParentAroundChild(Record(st, c, p))
    BY <1>1, <1>2, <1>4 DEF Record, ParentAroundChild, StrictlyContains
  <1>5. ASSUME SiblingsDisjoint(st)
        PROVE  SiblingsDisjoint(Record(st, c, p))
    <2>1. \A x \in DOMAIN st : st[x] = p => ~Overlaps(c, x)
      BY <1>1 DEF Overlaps
    <2> QED
      BY <1>1, <1>5, <2>1 DEF Record, SiblingsDisjoint
  <1> QED
    BY <1>3, <1>4, <1>5 DEF WellFormed

-----------------------------------------------------------------------------
(* Rebuilding.                                                             *)

(* Of the ranges around x one is the innermost. *)
LEMMA InnermostExists ==
    ASSUME NEW A \in SUBSET CIDR, A # {}, NEW x \in CIDR,
           \A a \in A : Contains(a, x)
    PROVE  \E y \in A : \A z \in A : Contains(z, y)
  <1> DEFINE Gaps == {Width - Len(a) : a \in A}
  <1>1. Gaps \in SUBSET Nat /\ Gaps # {}
    BY CidrLen, WidthAssumption
  <1>2. PICK g \in Gaps : \A h \in Gaps : g <= h
    <2> HIDE DEF Gaps
    <2> QED BY <1>1, LeastNatural
  <1>3. PICK y \in A : g = Width - Len(y)
    BY <1>2
  <1>4. ASSUME NEW z \in A
        PROVE  Contains(z, y)
    <2>1. Width - Len(y) <= Width - Len(z)
      BY <1>2, <1>3
    <2>2. Len(z) <= Len(y)
      BY <2>1, CidrLen, WidthAssumption
    <2> QED
      BY <2>2, AroundComparable
  <1> QED
    BY <1>4

(* A CIDR that overlaps a parent without being one or containing one has   *)
(* the innermost registered range around it as its parent.                 *)
LEMMA ParentOfAround ==
    ASSUME NEW P \in SUBSET CIDR, NEW S \in SUBSET CIDR, NEW x \in S, x \notin P,
           ~Parentless(P, x), \A p \in P : ~StrictlyContains(x, p)
    PROVE  /\ ParentOf(P, S, x) \in CIDR
           /\ StrictlyContains(ParentOf(P, S, x), x)
           /\ ParentOf(P, S, x) \in Around(P, S, x)
           /\ \A z \in Around(P, S, x) : Contains(z, ParentOf(P, S, x))
  <1>1. PICK p \in P : Overlaps(p, x)
    BY DEF Parentless
  <1>2. p \in Around(P, S, x)
    BY <1>1 DEF Overlaps, StrictlyContains, Around
  <1>3. /\ Around(P, S, x) \in SUBSET CIDR
        /\ \A a \in Around(P, S, x) : StrictlyContains(a, x)
        /\ \A a \in Around(P, S, x) : Contains(a, x)
    BY DEF Around, StrictlyContains
  <1>4. \E y \in Around(P, S, x) : \A z \in Around(P, S, x) : Contains(z, y)
    BY <1>2, <1>3, InnermostExists
  <1>5. /\ ParentOf(P, S, x) \in Around(P, S, x)
        /\ \A z \in Around(P, S, x) : Contains(z, ParentOf(P, S, x))
    BY <1>4 DEF ParentOf
  <1> QED
    BY <1>3, <1>5

(* If the rebuild does not fail, the rebuilt store is well-formed. *)
LEMMA RebuiltWellFormed ==
    ASSUME NEW P \in SUBSET CIDR, NEW K, NEW H \in [K -> SUBSET CIDR],
           ~RebuildFails(P, H)
    PROVE  IsStore(Rebuilt(P, H)) /\ WellFormed(Rebuilt(P, H))
  <1> DEFINE D == P \cup UNION {H[k] : k \in DOMAIN H}
             own(x) == CHOOSE k \in DOMAIN H : x \in H[k]
             st == Rebuilt(P, H)
  <1>1. /\ DOMAIN st = D
        /\ \A x \in D : st[x] = IF x \in P THEN NoCidr ELSE ParentOf(P, H[own(x)], x)
    BY DEF Rebuilt
  <1>2. D \in SUBSET CIDR
    OBVIOUS
  <1>3. ASSUME NEW x \in D, x \notin P
        PROVE  own(x) \in K /\ x \in H[own(x)] /\ H[own(x)] \in SUBSET CIDR
    BY <1>3
  <1>4. ASSUME NEW x \in D, x \notin P
        PROVE  /\ Parentless(P, x) => st[x] = NoCidr
               /\ ~Parentless(P, x) => st[x] \in CIDR /\ StrictlyContains(st[x], x)
    <2>1. ASSUME Parentless(P, x) PROVE st[x] = NoCidr
      BY <1>1, <1>4, <2>1 DEF ParentOf
    <2>2. ASSUME ~Parentless(P, x)
          PROVE  st[x] \in CIDR /\ StrictlyContains(st[x], x)
      <3>1. \A p \in P : ~StrictlyContains(x, p)
        BY <1>3, <1>4 DEF RebuildFails
      <3>2. st[x] = ParentOf(P, H[own(x)], x)
        BY <1>1, <1>4
      <3> QED
        BY <1>3, <1>4, <2>2, <3>1, <3>2, ParentOfAround
    <2> QED BY <2>1, <2>2
  <1>5. \A x \in P : st[x] = NoCidr
    BY <1>1
  <1>6. IsStore(st)
    <2>1. st \in [D -> CIDR \cup {NoCidr}]
      <3>1. \A x \in D : st[x] \in CIDR \cup {NoCidr}
        BY <1>4, <1>5
      <3>2. st = [x \in D |-> st[x]]
        BY <1>1 DEF Rebuilt
      <3> QED BY <3>1, <3>2
    <2> QED BY <1>1, <1>2, <2>1 DEF IsStore
  <1>7. ParentAroundChild(st)
    BY <1>1, <1>4, <1>5 DEF ParentAroundChild
  <1>8. SiblingsDisjoint(st)
    <2> SUFFICES ASSUME NEW a \in D, NEW b \in D, a # b, st[a] = st[b], Overlaps(a, b)
                 PROVE  FALSE
      BY <1>1 DEF SiblingsDisjoint
    <2>1. CASE a \in P /\ b \in P
      BY <2>1 DEF RebuildFails, DisjointRanges
    <2>2. CASE a \in P /\ b \notin P
      BY <1>4, <1>5, <2>2, GoIpamAssumption DEF Parentless
    <2>3. CASE a \notin P /\ b \in P
      BY <1>4, <1>5, <2>3, GoIpamAssumption DEF Parentless, Overlaps
    <2>4. CASE a \notin P /\ b \notin P
      <3>1. Parentless(P, a) <=> Parentless(P, b)
        BY <1>4, <2>4, GoIpamAssumption
      <3>2. CASE Parentless(P, a)
        BY <1>3, <2>4, <3>1, <3>2 DEF RebuildFails
      <3>3. CASE ~Parentless(P, a)
        <4>1. ParentOf(P, H[own(a)], a) = ParentOf(P, H[own(b)], b)
          BY <1>1, <2>4
        <4> QED
          BY <1>3, <2>4, <3>1, <3>3, <4>1 DEF RebuildFails
      <3> QED BY <3>2, <3>3
    <2> QED BY <2>1, <2>2, <2>3, <2>4
  <1> QED
    BY <1>6, <1>7, <1>8 DEF WellFormed
=============================================================================
