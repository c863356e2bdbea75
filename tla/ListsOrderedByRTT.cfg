SPECIFICATION Spec
CONSTANTS
    NodeCount = 2
    Genesis = {"main"}
    CStateSize = 2
    Unmeasured = 100
    Samples = {0, 10}
INVARIANT ListsOrderedByRTT
CHECK_DEADLOCK FALSE
