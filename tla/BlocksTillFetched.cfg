SPECIFICATION Spec
CONSTANTS
    q1 = q1
    q2 = q2
    p1 = p1
    n1 = n1
    Requests = {q1}
    Prefetches = {}
    Nodes = {n1}
    MaxRound = 3
    MaxSynced = 1
    Word = 8
    CatchupSize = 2
    ArchSize = 2
    Slack = 0
    Entries = {1, 2, 3, 4, 5, 6}
    Chans = {1, 2, 3, 4, 5, 6, 7, 8}
INVARIANT BlocksTillFetched
CHECK_DEADLOCK FALSE
