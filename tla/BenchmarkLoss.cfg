CONSTANTS
    Second = 2
    Interval60Hz = 2
    Interval20Hz = 3
    Duration = 4
    Warmup = 1
    Lossy <- NoStream
    MaxCopies = 1
    MaxDial = 0
    MaxClock = 8
    MayRefuse = FALSE
    MayDisconnect = FALSE
    MayCorrupt = FALSE
    MayFail = FALSE
    Capacity = 3
    Panics <- NoBuild
    MayBeKilled = FALSE
SPECIFICATION Spec
INVARIANT ReportedLossIsLoss
CHECK_DEADLOCK FALSE
