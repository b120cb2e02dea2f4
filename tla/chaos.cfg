SPECIFICATION Spec
CONSTANTS
    Width = 3
    OrphanRelease = "error"
    Rule = {r1}
    Path = {pA, pB}
    OddPath = {}
    Id = {pods, nodes}
    Purpose = {shoot}
    Cluster = {c1}
    Configs <- ChaosConfigs
    InitialConfigs <- ChaosStart
    ReuseNames = TRUE
    UserActions = {"operation", "finalizer", "edit", "config", "configMeta", "refresh"}
    FailingCalls = {"get", "list", "update", "release"}
    Webhooks = FALSE
    LostResponses = {"patch", "create", "delete"}
    LeaderElection = FALSE
    MaxUid = 2
    MaxEdits = 1
    MaxFailures = 1
    MaxCrashes = 0
    Placeholder = Placeholder
    NoCidr = NoCidr
    NoId = NoId
    NoObject = NoObject
    c1 = c1
    c2 = c2
    c3 = c3
    r1 = r1
    r2 = r2
    pA = pA
    pB = pB
    pC = pC
    pods = pods
    nodes = nodes
    shoot = shoot
    other = other
INVARIANTS TypeOK QuietConfigCurrent 
PROPERTIES AppliedRulesKept
SYMMETRY ClusterSymmetry
CHECK_DEADLOCK FALSE
