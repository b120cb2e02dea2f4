--------------------------- MODULE MCGardenerIpam ---------------------------
(***************************************************************************)
(* Small instances of the service for TLC.  Addresses have Width bits; the *)
(* parent <<0>> has room for two CIDRs of size 2.                          *)
(***************************************************************************)
EXTENDS Pending, TLC

CONSTANTS c1, c2, c3, r1, r2, pA, pB, pC, pods, nodes, shoot, other

Injection(id, paths, parents, size) ==
    [id |-> id, paths |-> paths, parents |-> parents, size |-> size]

Simple(r, match, path) ==
    [id |-> r, match |-> match, injections |-> <<Injection(NoId, {path}, <<pods>>, 2)>>]

Nested(r, match) ==
    [id |-> r, match |-> match,
     injections |-> <<Injection(nodes, {pA}, <<pods>>, 2), Injection(NoId, {pB}, <<nodes>>, 3)>>]

Parents(prefixes) == [id \in Id |-> IF id = pods THEN prefixes ELSE <<>>]

MCConfig(prefixes, rules, refresh) ==
    [parents |-> Parents(prefixes), rules |-> rules, refresh |-> refresh]

Small == << <<0>> >>
Moved == << <<1>> >>

Rule1 == Simple(r1, {shoot}, pA)

OneRule  == MCConfig(Small, <<Rule1>>, FALSE)
TwoRules == MCConfig(Small, <<Rule1, Simple(r2, {shoot}, pB)>>, FALSE)
Nested1  == MCConfig(Small, <<Nested(r1, {shoot})>>, FALSE)

OneRuleConfigs == {OneRule}
NestedConfigs  == {Nested1}

(* A rule that needs all of the small parent, with one CIDR in another. *)
Greedy ==
    [id |-> r1, match |-> {shoot},
     injections |-> <<Injection(nodes, {pA}, <<pods>>, 2), Injection(NoId, {pB}, <<nodes>>, 3),
                      Injection(NoId, {pC}, <<pods>>, 2)>>]
CoreConfigs == {OneRule, MCConfig(Small, <<Greedy>>, FALSE)}

(* The IPAM state is refreshed from time to time. *)
RefreshConfigs == {[OneRule EXCEPT !.refresh = TRUE]}

(* With refreshes too: the only parent of nested CIDRs may be replaced,    *)
(* together with a rule that takes its CIDRs from any parent.              *)
AnyParent ==
    [id |-> r1, match |-> {shoot},
     injections |-> <<Injection(nodes, {pA}, <<>>, 2), Injection(NoId, {pB}, <<nodes>>, 3)>>]

RefreshNested == MCConfig(Small, <<Nested(r1, {shoot})>>, TRUE)
ChaosStart == {RefreshNested}
ChaosConfigs == {RefreshNested, MCConfig(Moved, <<AnyParent>>, TRUE)}

(* The selector of the rule may change. *)
UnmatchConfigs == {OneRule, MCConfig(Small, <<Simple(r1, {other}, pA)>>, FALSE)}

(* A rule with two injections that both come from the small parent. *)
MixedConfigs ==
    {MCConfig(Small, <<Simple(r1, {other}, pA),
                       [id |-> r2, match |-> {shoot},
                        injections |-> <<Injection(NoId, {pA}, <<pods>>, 2),
                                         Injection(NoId, {pB}, <<pods>>, 2)>>]>>, FALSE)}

(* Two rules write to one path. *)
SamePathConfigs == {MCConfig(Small, <<Rule1, Simple(r2, {shoot}, pA)>>, FALSE)}

(* A rule may be added; the only parent may be replaced by another one. *)
AddRuleConfigs == {OneRule, TwoRules}
NestedMoveConfigs == {Nested1, MCConfig(Moved, <<Nested(r1, {shoot})>>, FALSE)}

(* Rules and parents come and go. *)
EvolvingConfigs == {OneRule, TwoRules, MCConfig(Moved, <<Rule1>>, FALSE)}

ClusterSymmetry == Permutations(Cluster)
=============================================================================
