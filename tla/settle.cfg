SPECIFICATION Spec
CONSTANTS
    Width = 2
    OrphanRelease = "notfound"
    Rule = {r1, r2}
    Path = {pA, pB}
    OddPath = {pB}
    Id = {pods}
    Purpose = {shoot, other}
    Cluster = {c1, c2, c3}
    Configs <- MixedConfigs
    InitialConfigs <- MixedConfigs
    ReuseNames = FALSE
    UserActions = {}
    FailingCalls = {"get", "list", "patch", "update", "delete", "release"}
    Webhooks = TRUE
    LostResponses = {"patch", "create", "update", "delete"}
    LeaderElection = FALSE
    MaxUid = 3
    MaxEdits = 0
    MaxFailures = 1
    MaxCrashes = 0
    Placeholder = Placeholder
    NoCidr = NoCidr
    NoId = NoId
    NoObject = NoObject
    c1 = c1
    c2 = c2
    c3 = c3
    r1 = r1
    r2 = r2
    pA = pA
    pB = pB
    pC = pC
    pods = pods
    nodes = nodes
    shoot = shoot
    other = other
INVARIANTS QuietNoLeak QuietNoOrphans QuietReferenced PendingHolds AccountsHold
SYMMETRY ClusterSymmetry
CHECK_DEADLOCK FALSE
