CONSTANTS
    s = s
    c1 = c1
    c2 = c2
    Peers <- TwoClients
    Server <- s
    Slots = 1
    MaxStreams = 1
    MaxDials = 1
    MaxSends = 1
    Long <- OnlyC2
    Kinds <- UnreliableOnly
    Creators <- TwoClients
    Closers <- OnlyC1
    ByName <- OnlyC2
    Quitters <- OnlyServer
    MaxFaults = 1
    BindMayFail = TRUE
SPECIFICATION Spec
INVARIANTS TypeOK DeliveredWasSent EventsInOrder SendsFindConnection OnlyOwnConnections
CHECK_DEADLOCK FALSE
