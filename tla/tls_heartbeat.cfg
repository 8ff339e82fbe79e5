SPECIFICATION Spec
CONSTANTS
    Clients <- OnlyBeating
    Batch = 1
    MaxData = 0
    Closers = {}
    Unparsed = FALSE
    Lossy = FALSE
CHECK_DEADLOCK FALSE
INVARIANTS
    FinishedFollowsChange
