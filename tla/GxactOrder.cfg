SPECIFICATION FairSpec
CONSTANTS
    Gxact = {t1, t2}
    Seg = {s1, s2}
    NoGxact = NoGxact
    FirstGxid = 3
    SignBit = 4
    MaxRetry = 2
CHECK_DEADLOCK FALSE
INVARIANT WaitedOrder
PROPERTY NoWaitCycle
