SPECIFICATION RestartedSpec
CONSTANTS
    p1 = p1
    p2 = p2
    p3 = p3
    x = x
    Peer = {p1, p2, p3}
    Command = {x}
    Encodable = {x}
    Nil = Nil
    Slot = {s1}
    Routine = {h1}
    MaxCalls = 1
    MaxTerm = 4
    MaxCanvass = 5
    MaxStarts = 1
    MaxRestarts = 0
    MaxKilled = 0
    LateTimer = FALSE
    BusyRoutine = FALSE
    Orphans = FALSE
VIEW CalmView
CHECK_DEADLOCK FALSE
INVARIANTS
    StateMachineSafety
    LogMatching
    LeaderCompleteness
