SPECIFICATION Spec
CONSTANTS
    Options <- Compared
    MaxRuns = 1
INVARIANT
    CrossCompared
CHECK_DEADLOCK FALSE
