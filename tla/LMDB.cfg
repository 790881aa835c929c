SPECIFICATION Spec
CONSTANTS
    Procs = {p1, p2}
    Readers = {p2}
    Writers = {p1}
    Keys = {k1}
    MaxFree1Pg = 1
    LeafRecords = 2
    NumSlots = 1
    MaxTxnId = 6
    MaxEdits = 1
    Limits <- MCLimits
    NoProc = NoProc
    DeadProc = DeadProc
INVARIANTS PagesAccounted OldestIsProtected LastCommitKnown
PROPERTIES ImplementsStore CommitReturns
VIEW ReadableState
CHECK_DEADLOCK FALSE
