SPECIFICATION Spec
CONSTANTS
    XLEN = 8
    Word = 8
    ImmLen = 5
    Csrs <- SmallCsrs
    Legalize <- SmallLegalize
    Faulty = TRUE
INVARIANTS
    TestInv
    ConformingPasses
    FaultsFound
CHECK_DEADLOCK FALSE
