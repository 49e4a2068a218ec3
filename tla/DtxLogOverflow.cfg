CONSTANTS
    Gxid = {g1, g2, g3, g4}
    MaxConnections = 2
    MaxTmGxacts = 3
    MaxCrash = 1
    MaxCkpt = 1
    MaxRecRestart = 0
SPECIFICATION LogSpec
SYMMETRY Symmetry
INVARIANT ReplayNeverOverflows
