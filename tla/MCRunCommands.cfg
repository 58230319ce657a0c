SPECIFICATION Spec
CONSTANTS
    N = 3
    MaxChunks = 2
    PipeCap = 1
    Calls <- AllCalls
INVARIANTS
    TypeOK
    ReturnedMeansCollected
    ErrorsReported
    OneAtATime
    CrashOnlyAtFirst
PROPERTIES
    CallerEnds
    BlockedProceeds
CHECK_DEADLOCK FALSE
