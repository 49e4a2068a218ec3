CONSTANTS
    Last = 4
    Cap = 3
    SndBufs = 3
    StaleSeq = {1}
    MaxSeqs = 1
    MaxAcks = 1
    MaxLoss = 1
SPECIFICATION FairSpec
INVARIANTS
    InOrder
    NothingLost
    NoOverrun
PROPERTIES
    SenderEnds
    ReceiverEnds
CHECK_DEADLOCK FALSE
