SPECIFICATION FairSpec
CONSTANTS
    e1 = e1
    e2 = e2
    up = up
    down = down
    Events = {e1, e2}
    NoEvent = NoEvent
    Handlers = {up, down}
    Matches <- MCMatches
    Direction <- MCDirection
    InitVal <- MCInitVal
    MaxU32 = 2
    TicksPerSecond = 2
    MaxClock = 3
    MaxUpdates = 1
INVARIANTS
    TypeOK
    CounterExact
    NoStaleEvent
    NoLostEvent
PROPERTIES
    ImplementsCounting
    DueIsCounted
    RunReturns
CHECK_DEADLOCK FALSE
