CONSTANTS
    Gxid = {g1}
    Segment = {s1, s2}
    MaxConnections = 1
    MaxTmGxacts = 2
    MaxCrash = 1
    MaxCkpt = 1
    MaxRecRestart = 2
    MaxFault = 2
SPECIFICATION Spec
SYMMETRY SegmentSymmetry
INVARIANTS
    TypeOK
    Atomicity
    AnswerHolds
    ContextAccepted
    DtmInv
    NoAbortOfCommitted
    InProgressUntilCommitted
PROPERTY ImplementsAtomicCommit
