SPECIFICATION ReduceSpec
CONSTANTS
    Seg = {0, 1}
    Vid = {1, 2, 3}
    MaxEdges = 5
    IntBits = 3
CHECK_DEADLOCK FALSE
INVARIANT NoFalseEdge
PROPERTIES
    NothingMissed
    ReduceKeepsCore
    VictimDeadlocked
    Broken
