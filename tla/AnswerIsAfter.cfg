SPECIFICATION Spec
CONSTANTS
    w1 = w1
    w2 = w2
    n1 = n1
    n2 = n2
    Listener = Listener
    Waiters = {w1}
    Nodes = {n1}
    MaxRound = 2
INVARIANT AnswerIsAfter
CHECK_DEADLOCK FALSE
