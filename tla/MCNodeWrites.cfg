SPECIFICATION Spec
CONSTANT
    MaxWrites = 3
INVARIANTS
    TypeOK
    TaintsVerified
    ConflictMeansOthers
PROPERTIES
    TaintsAdditive
    StatusLostOnlyByPatch
    Remediated
CHECK_DEADLOCK FALSE
