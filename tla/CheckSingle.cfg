SPECIFICATION LinkedSpec
CONSTANTS
    N = 3
    Operation <- MCOperation
INVARIANTS
    SearchInv
    TrueHasWitness
    ResultCorrect
    ListInOrder
PROPERTIES
    ImplementsSearch
    Terminates
CHECK_DEADLOCK FALSE
