SPECIFICATION FairSpec
CONSTANTS
    Seg = {qd, q1}
    Vid = {1, 2, 3}
    IntBits = 4
    Backend = {b1, b2, b3}
    NoBackend = NoBackend
    Coord = qd
    RelModes = {"excl"}
    Upgrades = FALSE
    Savepoints = FALSE
    UserCancels = FALSE
    SlowAbort = FALSE
CHECK_DEADLOCK FALSE
INVARIANT VictimRuns
PROPERTIES
    NoFalseAlarm
    DeadlockBroken
