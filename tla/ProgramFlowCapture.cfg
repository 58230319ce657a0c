SPECIFICATION FlowSpec
CONSTANTS
    InstrCnt = 4
    MaxBranchStep = 3
    BranchIdxLen = 2
    DirectedChoices <- Chains
PROPERTY
    AtomicEntry
CHECK_DEADLOCK FALSE
