CONSTANTS
    s = s
    c1 = c1
    Peers <- OneClient
    Server <- s
    Slots = 2
    MaxStreams = 1
    Kinds <- ReliableOnly
    Creators <- Acceptors
    Closers <- None
    MaxSends <- Dialogue
    Window = 1
    StreamLimit = 1
    Quitters <- OnlyC1
    Breaks <- OnlyC1
    TooLong <- None
    MayFail = FALSE
    Panics <- ReleaseBuild
SPECIFICATION FairSpec
INVARIANTS TypeOK ConnectedOnceAndFirst DialerSendsAccounted
PROPERTIES ImplementsLinks WrittenIsDelivered ShutdownReturns
CHECK_DEADLOCK FALSE
