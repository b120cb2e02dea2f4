-------------------------------- MODULE Cidr --------------------------------
(***************************************************************************)
(* Address ranges.  A CIDR "a.b.c.d/n" is the sequence of its n leading    *)
(* address bits: its subnet size is the length of the sequence, and one    *)
(* range lies inside another exactly when the other is a prefix of it.     *)
(* The address width (32 in the program, config_types.go) is a parameter.  *)
(***************************************************************************)
EXTENDS Integers, Sequences

CONSTANT Width

ASSUME WidthAssumption == Width \in Nat

CIDR == UNION {[1..n -> {0, 1}] : n \in 0..Width}

SubnetSize(c) == Len(c)

(* p is c or a range around c. *)
Contains(p, c) ==
    /\ Len(p) <= Len(c)
    /\ \A i \in 1..Len(p) : p[i] = c[i]

(* goipam.PrefixesOverlapping: ranges overlap iff one contains the other. *)
Overlaps(a, b) == Contains(a, b) \/ Contains(b, a)

StrictlyContains(p, c) == Contains(p, c) /\ p # c

DisjointRanges(S) == \A a, b \in S : a # b => ~Overlaps(a, b)
=============================================================================
