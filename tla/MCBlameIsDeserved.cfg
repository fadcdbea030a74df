SPECIFICATION Spec
CONSTANTS
    Replicas = 4
    MayBeRefused = TRUE
INVARIANT
    BlameIsDeserved
CHECK_DEADLOCK FALSE
