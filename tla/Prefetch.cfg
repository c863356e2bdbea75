SPECIFICATION Spec
CONSTANTS
    BP_COUNT = 4
    SinkSize = 1
    Minute = 0
    MaxRound = 5
    MaxStreams = 2
    MaxTime = 1
INVARIANTS TypeOK AheadOfReader BoundedLookahead
