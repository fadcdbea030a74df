SPECIFICATION Spec
CONSTANTS
    N = 2
    FaultyCalls = {"before", "create", "lost", "delete", "get"}
    MaxFaults = 2
INVARIANTS
    TypeOK
    OwnedIsTracked
    LeftBehindOnlyByFailure
    PassedMeansCAGone
PROPERTY
    SingletonCA
CHECK_DEADLOCK FALSE
