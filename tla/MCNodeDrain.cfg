SPECIFICATION FairSpec
CONSTANTS
    Replicas = 4
    MayBeRefused = FALSE
INVARIANTS
    TypeOK
    BlameIsDeserved
    VerifiedMeansDrained
PROPERTIES
    DrainSeen
CHECK_DEADLOCK FALSE
