SPECIFICATION Spec
CONSTANTS
    x1 = x1
    x2 = x2
    Items = {x1, x2}
    DataSets <- Streams
    Bound = 2
    Phases = 2
    Requested = 2
    RankZeroFallback = TRUE
    Batch = 2
    MaxItems = 6
    MaxFailed = 2
    MaxPasses = 10
    MaxFaults = 2
INVARIANTS
    CountsExact
    CompleteRoutes
    FinalizedExact
    LadderBound
CHECK_DEADLOCK FALSE
