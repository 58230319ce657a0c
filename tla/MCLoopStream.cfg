SPECIFICATION Spec
CONSTANTS
    Mixes <- AllMixes
INVARIANTS
    UncontainedOrder
    LoopWhole
CHECK_DEADLOCK FALSE
