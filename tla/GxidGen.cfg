CONSTANTS
    Backend = {b1, b2}
    Dtr = dtr
    PrefetchNum = 2
    MaxGxid = 4
    MaxCrash = 1
    MaxCkpt = 1
SPECIFICATION FairSpec
INVARIANTS
    TypeOK
    RestartAbove
PROPERTIES
    GxidUnique
    ActivateEnds
CHECK_DEADLOCK FALSE
