------------------------- MODULE ReferenceInjector -------------------------
(***************************************************************************)
(* internal/webhooks/cluster-mutation.go: the mutating webhook that adds   *)
(* references to ClusterConfigs to every Cluster that is written.  Only a  *)
(* referenced ClusterConfig has an effect on the Shoot.  The reference to  *)
(* the ClusterConfig of a rule is the rule's ID.                           *)
(***************************************************************************)
EXTENDS IpamConfig

CONSTANTS
    Webhooks,     \* the service runs without --disable-webhooks
    Placeholder   \* the reference of a Cluster that has no name yet

ASSUME ReferenceInjectorAssumption == Webhooks \in BOOLEAN /\ Placeholder \notin Rule

Reference == Rule \cup {Placeholder}

MatchingRules(cfg, purpose) ==
    {cfg.rules[i].id : i \in {i \in DOMAIN cfg.rules : RuleMatches(cfg.rules[i], purpose)}}

(* Mutant: the placeholder stays. *)
InjectedReferences_KeepsPlaceholder(cfg, purpose, named, refs) ==
    LET matching == MatchingRules(cfg, purpose)
    IN  IF named \/ matching = {} THEN refs \cup matching ELSE refs \cup {Placeholder}

(* Default: references are only ever added, except that the placeholder    *)
(* goes away as soon as the Cluster has a name (a Cluster created with     *)
(* generateName has none while it is created).                             *)
InjectedReferences(cfg, purpose, named, refs) ==
    LET matching == MatchingRules(cfg, purpose)
    IN  IF named \/ matching = {}
        THEN (refs \ {Placeholder}) \cup matching
        ELSE refs \cup {Placeholder}
=============================================================================
