CONSTANTS
    s = s
    c1 = c1
    c2 = c2
    Peers <- TwoClients
    Server <- s
    Slots = 2
    MaxStreams = 1
    RegCap = 1
    WriteCap = 1
    SockCap = 1
    Kinds <- ReliableOnly
    Creators <- OnlyDial1
    Closers <- OnlyDial1
    MaxSends <- Monologue
    Quitters <- None
    MaxDials = 0
    Resets <- OnlyC1
    Mortals <- OnlyServer
    AcceptMayFail = TRUE
    PortTaken = TRUE
    Panics <- EveryBuild
SPECIFICATION Spec
INVARIANTS TypeOK EventsInOrder DialerSendsAccepted HandlerReachable
CHECK_DEADLOCK FALSE
