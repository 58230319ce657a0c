SPECIFICATION Spec
CONSTANTS
    Mixes <- OneLoop
INVARIANT
    OrderPreserved
CHECK_DEADLOCK FALSE
