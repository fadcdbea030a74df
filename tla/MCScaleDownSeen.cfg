SPECIFICATION Spec
CONSTANTS
    g1 = g1
    g2 = g2
    g3 = g3
    Groups = {g1, g2, g3}
    Others = 1
    UpEvents = {1, 2, 3}
    LimitEvents = {4}
    DownEvents = {5, 6}
    MaxU32 = 7
INVARIANT
    ScaleDownSeen
CHECK_DEADLOCK FALSE
