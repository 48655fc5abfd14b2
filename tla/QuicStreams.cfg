CONSTANTS
    s = s
    c1 = c1
    Peers <- OneClient
    Server <- s
    Slots = 2
    MaxStreams = 2
    Kinds <- BothKinds
    Creators <- Dialers
    Closers <- Ends
    MaxSends <- Exchange
    Window = 1
    StreamLimit = 1
    Quitters <- None
    Breaks <- None
    TooLong <- Dialers
    MayFail = TRUE
    Panics <- EveryBuild
SPECIFICATION Spec
INVARIANT AnnouncedOnce
CHECK_DEADLOCK FALSE
