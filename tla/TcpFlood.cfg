CONSTANTS
    s = s
    c1 = c1
    c2 = c2
    Peers <- OneClient
    Server <- s
    Slots = 2
    MaxStreams = 1
    RegCap = 1
    WriteCap = 1
    SockCap = 1
    Kinds <- ReliableOnly
    Creators <- Dialers
    Closers <- None
    MaxSends <- Flood
    Quitters <- OnlyC1
    MaxDials = 0
    Resets <- OnlyC1
    Mortals <- None
    AcceptMayFail = FALSE
    PortTaken = FALSE
    Panics <- ReleaseBuild
SPECIFICATION FairSpec
INVARIANT NothingLost
PROPERTIES ImplementsLinks DeliveredUnlessStalled ShutdownReturns LossIsReported
CHECK_DEADLOCK FALSE
