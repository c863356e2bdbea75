SPECIFICATION Spec
CONSTANTS
    Count = 4
    Counter = 7
    Accounts = {0, 1}
    Keys = {1, 2}
INVARIANTS TypeOK OffsetsCountInner CreatedIsLedgers AmountsAreOwn DeltasStable
CHECK_DEADLOCK FALSE
