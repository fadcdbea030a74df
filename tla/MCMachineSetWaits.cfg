SPECIFICATION FairSpec
CONSTANTS
    m1 = m1
    m2 = m2
    m3 = m3
    m4 = m4
    Machines = {m1, m2, m3, m4}
    NoMachine = NoMachine
    Replicas = 2
    MaxDrops = 1
INVARIANT
    TypeOK
PROPERTIES
    WaitMeansReady
    SetDeleteMeansGoneUnlabelled
    SpecsEnd
CHECK_DEADLOCK FALSE
