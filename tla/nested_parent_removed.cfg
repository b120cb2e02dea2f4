SPECIFICATION Spec
CONSTANTS
    Width = 3
    OrphanRelease = "notfound"
    Rule = {r1}
    Path = {pA, pB}
    OddPath = {}
    Id = {pods, nodes}
    Purpose = {shoot}
    Cluster = {c1}
    Configs <- NestedMoveConfigs
    InitialConfigs <- NestedConfigs
    ReuseNames = FALSE
    UserActions = {"config"}
    FailingCalls = {}
    Webhooks = FALSE
    LostResponses = {}
    LeaderElection = FALSE
    MaxUid = 1
    MaxEdits = 1
    MaxFailures = 0
    MaxCrashes = 1
    Placeholder = Placeholder
    NoCidr = NoCidr
    NoId = NoId
    NoObject = NoObject
    c1 = c1
    c2 = c2
    c3 = c3
    r1 = r1
    r2 = r2
    pA = pA
    pB = pB
    pC = pC
    pods = pods
    nodes = nodes
    shoot = shoot
    other = other
PROPERTIES RestoreSucceeds
SYMMETRY ClusterSymmetry
CHECK_DEADLOCK FALSE
