SPECIFICATION Spec
CONSTANTS
    p1 = p1
    p2 = p2
    p3 = p3
    x = x
    Peer = {p1, p2, p3}
    Command = {x, y}
    Encodable = {x, y}
    Nil = Nil
    Slot = {s1, s2}
    Routine = {h1}
    MaxCalls = 2
    MaxTerm = 2
    MaxCanvass = 2
    MaxStarts = 1
    MaxRestarts = 0
    MaxKilled = 0
    LateTimer = FALSE
    BusyRoutine = FALSE
    Orphans = FALSE
SYMMETRY Symmetry
VIEW CalmView
CHECK_DEADLOCK FALSE
INVARIANTS
    AppliedValuesMatch
