SPECIFICATION FairSpec
CONSTANTS
    Seg = {qd, q1}
    Vid = {1, 2, 3}
    IntBits = 4
    Backend = {b1, b2}
    NoBackend = NoBackend
    Coord = qd
    RelModes = {"share", "excl"}
    Upgrades = TRUE
    Savepoints = TRUE
    UserCancels = TRUE
    SlowAbort = TRUE
CHECK_DEADLOCK FALSE
PROPERTY VisibleDeadlockBroken
