SPECIFICATION Spec
CONSTANTS
    N = 2
    FaultyCalls = {}
    MaxFaults = 0
INVARIANT
    NothingLeftBehind
CHECK_DEADLOCK FALSE
