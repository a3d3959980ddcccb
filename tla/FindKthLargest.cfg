SPECIFICATION FairSpec
CONSTANTS
    N = 4
    Value = {0, 1, 2, 3}
CHECK_DEADLOCK FALSE
INVARIANTS
    ReturnsKthLargest
    SelectInv
PROPERTIES
    Returns
