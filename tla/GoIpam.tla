------------------------------- MODULE GoIpam -------------------------------
(***************************************************************************)
(* The contract of the go-ipam library (github.com/metal-stack/go-ipam),   *)
(* an external dependency, as internal/shared and the Cluster controller   *)
(* use it.  A store maps every registered CIDR to the CIDR it was acquired *)
(* from, or to NoCidr for a top-level prefix.  The store keeps no other    *)
(* state that the program can observe.                                     *)
(***************************************************************************)
EXTENDS Cidr, FiniteSets

CONSTANTS
    NoCidr,         \* the parent of a top-level prefix
    OrphanRelease   \* how releasing a CIDR whose parent record is missing ends

(* The library's answer in that case is not determined by this repository: *)
(* releaseCIDRsForClusterConfig_internal ignores ErrNotFound and passes on  *)
(* any other error.                                                         *)
ASSUME GoIpamAssumption ==
    /\ NoCidr \notin CIDR
    /\ OrphanRelease \in {"notfound", "error"}

IsStore(st) ==
    DOMAIN st \subseteq CIDR /\ st \in [DOMAIN st -> CIDR \cup {NoCidr}]

EmptyStore == [c \in {} |-> NoCidr]

Registered(st) == DOMAIN st

ChildrenOf(st, p) == {c \in DOMAIN st : st[c] = p}

Record(st, c, p) == [x \in DOMAIN st \cup {c} |-> IF x = c THEN p ELSE st[x]]

Forget(st, R) == [x \in DOMAIN st \ R |-> st[x]]

(* What AcquireChildPrefix(p, size) may return: a range of that size       *)
(* strictly inside p that overlaps no child of p.  Which one is the        *)
(* library's choice.  PrefixFrom(p) fails unless p is registered.          *)
FreeChildren(st, p, size) ==
    {c \in CIDR : /\ p \in DOMAIN st
                  /\ SubnetSize(c) = size
                  /\ SubnetSize(p) < size
                  /\ Contains(p, c)
                  /\ c \notin DOMAIN st
                  /\ \A x \in ChildrenOf(st, p) : ~Overlaps(x, c)}

(***************************************************************************)
(* What the library guarantees of a store: a child lies strictly inside    *)
(* the range it was acquired from, and ranges with the same parent (or     *)
(* both top-level) never overlap.                                          *)
(***************************************************************************)
ParentAroundChild(st) ==
    \A c \in DOMAIN st : st[c] # NoCidr => StrictlyContains(st[c], c)

SiblingsDisjoint(st) ==
    \A a, b \in DOMAIN st : a # b /\ st[a] = st[b] => ~Overlaps(a, b)

WellFormed(st) == ParentAroundChild(st) /\ SiblingsDisjoint(st)
=============================================================================
