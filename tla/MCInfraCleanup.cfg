SPECIFICATION Spec
CONSTANTS
    FaultyCalls = {"load", "read", "create", "lost", "delete"}
    MaxFaults = 2
    MaxRuns = 2
INVARIANTS
    TypeOK
    LeftBehindOnlyByFailure
    FaultyControllerCaught
PROPERTIES
    CleanupFailsOnlyByFault
CHECK_DEADLOCK FALSE
