SPECIFICATION Spec
CONSTANTS
    Width = 2
    OrphanRelease = "notfound"
    Rule = {r1}
    Path = {pA}
    OddPath = {}
    Id = {pods}
    Purpose = {shoot}
    Cluster = {c1, c2, c3}
    Configs <- OneRuleConfigs
    InitialConfigs <- OneRuleConfigs
    ReuseNames = FALSE
    UserActions = {}
    FailingCalls = {"delete"}
    Webhooks = FALSE
    LostResponses = {}
    LeaderElection = FALSE
    MaxUid = 3
    MaxEdits = 0
    MaxFailures = 1
    MaxCrashes = 0
    Placeholder = Placeholder
    NoCidr = NoCidr
    NoId = NoId
    NoObject = NoObject
    c1 = c1
    c2 = c2
    c3 = c3
    r1 = r1
    r2 = r2
    pA = pA
    pB = pB
    pC = pC
    pods = pods
    nodes = nodes
    shoot = shoot
    other = other
INVARIANTS HeldDisjoint
SYMMETRY ClusterSymmetry
CHECK_DEADLOCK FALSE
