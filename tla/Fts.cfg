SPECIFICATION FairSpec
CONSTANTS
    Node = {n1, n2}
    First = n1
    MaxRetry = 1
    MaxCommit = 1
    MaxFault = 2
INVARIANTS
    NoLostCommit
    ResendSound
PROPERTIES
    PromotionEnds
    CommitsUnblocked
    SyncRepRestored
