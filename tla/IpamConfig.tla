----------------------------- MODULE IpamConfig -----------------------------
(***************************************************************************)
(* The IPAMConfig resource (api/ipam/v1alpha1/config_types.go) and what    *)
(* the validating webhook accepts (internal/webhooks/config-validation.go).*)
(* An identifier that parentCIDRs does not list is mapped to <<>>: the     *)
(* controller treats both alike.  A selector is the set of Cluster         *)
(* purposes it matches.                                                    *)
(***************************************************************************)
EXTENDS GoIpam

CONSTANTS
    Rule,      \* rule IDs
    Path,      \* JSON paths CIDRs are injected into, normalised if they can be
    OddPath,   \* those ConvertPath fails on: the webhook accepts them as well
    Id,        \* identifiers of parent CIDR lists and of injections
    NoId,      \* an injection without an ID
    Purpose    \* what selectors distinguish Clusters by

ASSUME IpamConfigAssumption == NoId \notin Id /\ OddPath \subseteq Path

SingleCIDRInjection ==
    [id: Id \cup {NoId}, paths: SUBSET Path, parents: Seq(Id), size: 0..Width]

CIDRInjection ==
    [id: Rule, match: SUBSET Purpose, injections: Seq(SingleCIDRInjection)]

IPAMConfig ==
    [parents: [Id -> Seq(CIDR)], rules: Seq(CIDRInjection), refresh: BOOLEAN]

ParentCIDRs(cfg) == UNION {{cfg.parents[id][j] : j \in DOMAIN cfg.parents[id]} : id \in Id}

RuleMatches(rule, purpose) == purpose \in rule.match

Matches(cfg, purpose) == \E i \in DOMAIN cfg.rules : RuleMatches(cfg.rules[i], purpose)

RulePaths(rule) == UNION {rule.injections[j].paths : j \in DOMAIN rule.injections}

(* Two injections of the rule write to the same path. *)
RepeatsPath(rule) ==
    \E j, k \in DOMAIN rule.injections :
        j # k /\ (rule.injections[j].paths \cap rule.injections[k].paths) \ OddPath # {}

(***************************************************************************)
(* ValidateConfig.                                                         *)
(***************************************************************************)
ValidParentCIDRs(cfg) ==
    \A id1, id2 \in Id : \A j \in DOMAIN cfg.parents[id1], k \in DOMAIN cfg.parents[id2] :
        <<id1, j>> # <<id2, k>> => ~Overlaps(cfg.parents[id1][j], cfg.parents[id2][k])

(* Every named parent is a list of the config whose CIDRs are all larger,  *)
(* or an earlier injection of the rule that is larger.                     *)
ValidParents(cfg, rule, j) ==
    LET inj == rule.injections[j]
    IN  \A id \in {inj.parents[n] : n \in DOMAIN inj.parents} :
            \/ /\ cfg.parents[id] # <<>>
               /\ \A n \in DOMAIN cfg.parents[id] : SubnetSize(cfg.parents[id][n]) < inj.size
            \/ \E k \in 1..(j - 1) : rule.injections[k].id = id /\ rule.injections[k].size < inj.size

(* The webhook compares paths as they are written, so one path in two      *)
(* notations passes: it guarantees something only of the paths that have   *)
(* no normal form.                                                         *)
ValidInjections(cfg, rule) ==
    \A j \in DOMAIN rule.injections :
        LET inj == rule.injections[j]
        IN  /\ inj.paths # {}
            /\ \A k \in DOMAIN rule.injections \ {j} : inj.paths \cap rule.injections[k].paths \cap OddPath = {}
            /\ inj.id # NoId => /\ cfg.parents[inj.id] = <<>>
                                /\ \A k \in DOMAIN rule.injections \ {j} : rule.injections[k].id # inj.id
            /\ ValidParents(cfg, rule, j)

ValidConfig(cfg) ==
    /\ ValidParentCIDRs(cfg)
    /\ \A i, k \in DOMAIN cfg.rules : i # k => cfg.rules[i].id # cfg.rules[k].id
    /\ \A i \in DOMAIN cfg.rules : ValidInjections(cfg, cfg.rules[i])
=============================================================================
