SPECIFICATION FairSpec
CONSTANTS
    q1 = q1
    q2 = q2
    p1 = p1
    n1 = n1
    Requests = {q1}
    Prefetches = {p1}
    Nodes = {n1}
    MaxRound = 2
    MaxSynced = 1
    Word = 8
    CatchupSize = 1
    ArchSize = 1
    Slack = 0
    Entries = {1, 2, 3, 4, 5}
    Chans = {1, 2, 3, 4, 5, 6, 7, 8}
INVARIANTS TypeOK NoLostWakeup CloseOnce CacheInv
PROPERTIES BlocksStay ImplementsService EveryGetReturns
CONSTRAINT PrefetchBound
CHECK_DEADLOCK FALSE
