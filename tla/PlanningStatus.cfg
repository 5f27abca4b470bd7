SPECIFICATION TrackerSpec
CONSTANTS
    x1 = x1
    x2 = x2
    x3 = x3
    x4 = x4
    Bound = 2
    Requested = 2
    RankZeroFallback = TRUE
    ReadBatch = 2
    Batches = 6
    Lookahead = 3
    Beats = 2
INVARIANT CountsMonotone
CHECK_DEADLOCK FALSE
