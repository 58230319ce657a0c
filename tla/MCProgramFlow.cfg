SPECIFICATION FlowSpec
CONSTANTS
    InstrCnt = 4
    MaxBranchStep = 3
    BranchIdxLen = 2
    DirectedChoices <- AllStreams
INVARIANTS
    TypeOK
    IInv
    StreamsIntact
    BranchesResolved
    LabelsUnique
    OnlyTargetsLabelled
    FatalOnlyWithoutMain
    OperandsDefined
PROPERTIES
    PlainEntry
    ChainRunsWhole
    ProgramEnds
CHECK_DEADLOCK FALSE
