SPECIFICATION FairSpec
CONSTANTS
    w1 = w1
    w2 = w2
    n1 = n1
    n2 = n2
    Listener = Listener
    Waiters = {w1}
    Nodes = {n1}
    MaxRound = 2
PROPERTY EveryWaitReturns
CHECK_DEADLOCK FALSE
