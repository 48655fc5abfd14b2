CONSTANTS
    s = s
    c1 = c1
    Peers <- OneClient
    Server <- s
    Slots = 2
    MaxStreams = 1
    MaxDials = 1
    MaxSends <- OneWay
    Kinds <- Both
    Creators <- OnlyC1
    Closers <- OnlyServer
    Quitters <- OneClient
    Batch = 1
    Breaks <- OnlyC1
    MayFail = TRUE
SPECIFICATION FairSpec
INVARIANTS TypeOK EventsInOrder MapsFollowLibrary
PROPERTIES ImplementsLinks LossIsReported
CHECK_DEADLOCK FALSE
