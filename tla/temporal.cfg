SPECIFICATION Spec
CONSTANTS
    a = a
    b = b
    c = c
    r1 = r1
    Order <- IdsInOrder
    Scale = 100
    ParallelFrom = 9
    NumWorkers = 1
    MaxNeighbors = 2
    MaxOutDegree = 2
    Edges <- LoopAndPath
    Weights = {1}
    Threshold = 2
    Capacity = 2
    Epsilon = 1
    K = 3
    WarmupSize = 1
    MaxEvents = 3
    Readers = {r1}
    MaxCalls = 1
CHECK_DEADLOCK FALSE
INVARIANTS LossExplained TrendsFounded FeedAddsUp HistoryExact
