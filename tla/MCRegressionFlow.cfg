SPECIFICATION Spec
CONSTANTS
    Options <- Regressions
    MaxRuns = 2
INVARIANTS
    TypeOK
    StaleNeedsLoss
    LogsOfOneProgram
    SeedsMatch
PROPERTIES
    RunsEnd
CHECK_DEADLOCK FALSE
