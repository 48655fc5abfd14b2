CONSTANTS
    Scenarios <- TwoScenarios
    Protocols <- OneProtocol
    Runs <- TwoRuns
    Recorded <- RunsOfFour
    MaxWrites = 4
    MaxSweeps = 2
    MayKillSweep = TRUE
SPECIFICATION SweepSpec
INVARIANTS SweepTypeOK ReportsAreCurrent ReportsAreSound
CHECK_DEADLOCK FALSE
