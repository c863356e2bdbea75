SPECIFICATION FairSpec
CONSTANTS
    NodeCount = 2
    Genesis = {"main", "test"}
    CStateSize = 1
    Unmeasured = 1
    Samples = {0}
INVARIANTS TypeOK ListsFresh ListedShareGenesis
CHECK_DEADLOCK FALSE
PROPERTIES SetStateReturns StuckStays ScanBounded ImplementsLists
