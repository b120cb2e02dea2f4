SPECIFICATION Spec
CONSTANTS
    Width = 3
    OrphanRelease = "notfound"
    Rule = {r1}
    Path = {pA, pB, pC}
    OddPath = {}
    Id = {pods, nodes}
    Purpose = {shoot}
    Cluster = {c1, c2, c3}
    Configs <- CoreConfigs
    InitialConfigs <- CoreConfigs
    ReuseNames = FALSE
    UserActions = {}
    FailingCalls = {"get", "list", "patch", "create", "update", "release"}
    Webhooks = FALSE
    LostResponses = {"patch", "create", "update", "delete", "release"}
    LeaderElection = FALSE
    MaxUid = 3
    MaxEdits = 0
    MaxFailures = 1
    MaxCrashes = 1
    Placeholder = Placeholder
    NoCidr = NoCidr
    NoId = NoId
    NoObject = NoObject
    c1 = c1
    c2 = c2
    c3 = c3
    r1 = r1
    r2 = r2
    pA = pA
    pB = pB
    pC = pC
    pods = pods
    nodes = nodes
    shoot = shoot
    other = other
INVARIANTS HeldDisjoint HeldBlocked QuietServed PendingHolds
PROPERTIES RestoreSucceeds FinalizerKept ImplementsLedger
SYMMETRY ClusterSymmetry
CHECK_DEADLOCK FALSE
