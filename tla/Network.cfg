SPECIFICATION FairSpec
CONSTANTS
    r1 = r1
    r2 = r2
    e1 = e1
    e2 = e2
    Req = {r1, r2}
    EndOf <- MCEndOf
    Stuck = {r2}
    MaxInstance = 2
INVARIANTS
    PositiveReplyDurable
    PersisterIsOwn
    FalseHasReason
PROPERTIES
    CallsReturn
CHECK_DEADLOCK FALSE
