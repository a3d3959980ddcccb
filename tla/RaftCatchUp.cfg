SPECIFICATION CatchUpSpec
CONSTANTS
    p1 = p1
    p2 = p2
    p3 = p3
    x = x
    Peer = {p1, p2, p3}
    Command = {x}
    Encodable = {x}
    Nil = Nil
    Slot = {s1}
    Routine = {h1}
    MaxCalls = 2
    MaxTerm = 2
    MaxCanvass = 2
    MaxStarts = 2
    MaxRestarts = 0
    MaxKilled = 0
    LateTimer = FALSE
    BusyRoutine = FALSE
    Orphans = FALSE
CHECK_DEADLOCK FALSE
INVARIANTS
    IndexInBounds
    NothingSkipped
PROPERTIES
    CatchesUp
