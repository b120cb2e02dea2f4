SPECIFICATION Spec
CONSTANTS
    Width = 2
    OrphanRelease = "notfound"
    Rule = {r1}
    Path = {pA}
    OddPath = {}
    Id = {pods}
    Purpose = {shoot, other}
    Cluster = {c1}
    Configs <- UnmatchConfigs
    InitialConfigs <- OneRuleConfigs
    ReuseNames = FALSE
    UserActions = {"config"}
    FailingCalls = {"get"}
    Webhooks = FALSE
    LostResponses = {}
    LeaderElection = FALSE
    MaxUid = 1
    MaxEdits = 1
    MaxFailures = 1
    MaxCrashes = 1
    Placeholder = Placeholder
    NoCidr = NoCidr
    NoId = NoId
    NoObject = NoObject
    c1 = c1
    c2 = c2
    c3 = c3
    r1 = r1
    r2 = r2
    pA = pA
    pB = pB
    pC = pC
    pods = pods
    nodes = nodes
    shoot = shoot
    other = other
PROPERTIES FinalizerKept
SYMMETRY ClusterSymmetry
CHECK_DEADLOCK FALSE
