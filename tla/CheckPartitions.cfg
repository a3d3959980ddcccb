SPECIFICATION CheckFairSpec
CONSTANTS
    Partition = {k1, k2, k3}
    HasTimeout = TRUE
INVARIANTS
    FalseIsReal
    TrueIsComplete
PROPERTIES
    Returns
CHECK_DEADLOCK FALSE
