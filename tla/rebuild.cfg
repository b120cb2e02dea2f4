SPECIFICATION Spec
CONSTANTS
    Width = 3
    NoCidr = NoCidr
    k1 = k1
    k2 = k2
    Key = {k1, k2}
    Inputs <- AllInputs
INVARIANTS LoopAgrees ReleaseAgrees
CHECK_DEADLOCK FALSE
