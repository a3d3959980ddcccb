SPECIFICATION Spec
CONSTANTS
    p1 = p1
    p2 = p2
    p3 = p3
    x = x
    Peer = {p1, p2, p3}
    Command = {x}
    Encodable = {x}
    Nil = Nil
    Slot = {s1}
    Routine = {h1}
    MaxCalls = 2
    MaxTerm = 2
    MaxCanvass = 2
    MaxStarts = 0
    MaxRestarts = 1
    MaxKilled = 1
    LateTimer = TRUE
    BusyRoutine = TRUE
    Orphans = TRUE
SYMMETRY Symmetry
VIEW ElectionView
CHECK_DEADLOCK FALSE
INVARIANTS
    ElectionSafety
    GrantedVoteSaved
    ElectionInv
