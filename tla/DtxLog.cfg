CONSTANTS
    Gxid = {g1, g2}
    MaxConnections = 2
    MaxTmGxacts = 4
    MaxCrash = 2
    MaxCkpt = 2
    MaxRecRestart = 1
SPECIFICATION LogSpec
SYMMETRY Symmetry
INVARIANTS
    LogTypeOK
    CommitNotLost
    NoPhantomCommit
    PendingCommitKept
