SPECIFICATION Spec
CONSTANTS
    p1 = p1
    p2 = p2
    p3 = p3
    x = x
    Peer = {p1, p2, p3}
    Command = {x}
    Encodable = {x}
    Nil = Nil
    Slot = {s1}
    Routine = {h1}
    MaxCalls = 1
    MaxTerm = 2
    MaxCanvass = 2
    MaxStarts = 1
    MaxRestarts = 1
    MaxKilled = 0
    LateTimer = FALSE
    BusyRoutine = FALSE
    Orphans = FALSE
SYMMETRY Symmetry
VIEW CalmView
CHECK_DEADLOCK FALSE
INVARIANTS
    TypeOK
    IndexIsPosition
    LogSaved
    Durability
PROPERTIES
    ImplementsLog
