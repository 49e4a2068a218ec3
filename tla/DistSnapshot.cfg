SPECIFICATION Spec
CONSTANTS
    wide = wide
    narrow = narrow
    reader = reader
    s1 = s1
    s2 = s2
    Writer <- Writers
    Reader <- Readers
    Seg <- Segments
    Dispatched <- Dispatch
    NoSnap = NoSnap
    FirstGxid = 2
    MaxSnap = 2
    MaxCrash = 1
CHECK_DEADLOCK FALSE
INVARIANT SnapshotExact
