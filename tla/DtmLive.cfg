CONSTANTS
    Gxid = {g1}
    Segment = {s1, s2}
    MaxConnections = 1
    MaxTmGxacts = 1
    MaxCrash = 1
    MaxCkpt = 0
    MaxRecRestart = 2
    MaxFault = 1
SPECIFICATION FairSpec
PROPERTIES
    InDoubtResolved
    CommitEnds
