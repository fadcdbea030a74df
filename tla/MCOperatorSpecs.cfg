SPECIFICATION Spec
CONSTANTS
    WaitShort = 3
    WaitLong = 5
    MaxUID = 4
INVARIANTS
    TypeOK
    TimeoutInBounds
    AvailableAgainMeansRecreated
    DeletedOnce
PROPERTY
    SpecEnds
CHECK_DEADLOCK FALSE
