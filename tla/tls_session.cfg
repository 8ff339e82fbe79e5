SPECIFICATION FairSpec
CONSTANTS
    Clients <- Plain
    Batch = 2
    MaxData = 2
    Closers = {"client"}
    Unparsed = TRUE
    Lossy = TRUE
CHECK_DEADLOCK FALSE
INVARIANTS
    TypeOK
    InStep
    Agreement
    Unrefused
    NoCrash
PROPERTIES
    ChannelSafety
    Settles
