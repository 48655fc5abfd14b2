CONSTANTS
    s = s
    c1 = c1
    c2 = c2
    Peers <- OneClient
    Server <- s
    Slots = 2
    MaxStreams = 1
    RegCap = 1
    WriteCap = 1
    SockCap = 1
    Kinds <- ReliableOnly
    Creators <- Dialers
    Closers <- None
    MaxSends <- Duplex
    Quitters <- None
    MaxDials = 0
    Resets <- None
    Mortals <- None
    AcceptMayFail = FALSE
    PortTaken = FALSE
    Panics <- ReleaseBuild
SPECIFICATION FairSpec
PROPERTY AcceptedIsDelivered
CHECK_DEADLOCK FALSE
