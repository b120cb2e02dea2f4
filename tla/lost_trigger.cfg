SPECIFICATION Spec
CONSTANTS
    Width = 2
    OrphanRelease = "notfound"
    Rule = {r1, r2}
    Path = {pA, pB}
    OddPath = {}
    Id = {pods}
    Purpose = {shoot}
    Cluster = {c1}
    Configs <- AddRuleConfigs
    InitialConfigs <- OneRuleConfigs
    ReuseNames = FALSE
    UserActions = {"config"}
    FailingCalls = {}
    Webhooks = FALSE
    LostResponses = {}
    LeaderElection = FALSE
    MaxUid = 1
    MaxEdits = 1
    MaxFailures = 0
    MaxCrashes = 0
    Placeholder = Placeholder
    NoCidr = NoCidr
    NoId = NoId
    NoObject = NoObject
    c1 = c1
    c2 = c2
    c3 = c3
    r1 = r1
    r2 = r2
    pA = pA
    pB = pB
    pC = pC
    pods = pods
    nodes = nodes
    shoot = shoot
    other = other
INVARIANTS QuietServed
SYMMETRY ClusterSymmetry
CHECK_DEADLOCK FALSE
