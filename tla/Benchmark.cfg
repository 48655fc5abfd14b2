CONSTANTS
    Second = 2
    Interval60Hz = 3
    Interval20Hz = 4
    Duration = 3
    Warmup = 1
    Lossy <- OnlyUnreliable
    MaxCopies = 1
    MaxDial = 2
    MaxClock = 8
    MayRefuse = TRUE
    MayDisconnect = TRUE
    MayCorrupt = TRUE
    MayFail = TRUE
    Capacity = 3
    Panics <- EveryBuild
    MayBeKilled = TRUE
SPECIFICATION FairSpec
INVARIANTS TypeOK RunsFullDuration RateHolds LossesAreCounted FileIsPrefix EndedIsWritten
PROPERTY ConnectedRunEnds
CHECK_DEADLOCK FALSE
