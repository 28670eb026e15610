SPECIFICATION Spec
CONSTANTS
    a = a
    b = b
    c = c
    r1 = r1
    Order <- IdsInOrder
    Scale = 100
    ParallelFrom = 2
    NumWorkers = 2
    MaxNeighbors = 1
    MaxOutDegree = 1
    Edges <- InAndOut
    Weights = {1}
    Threshold = 9
    Capacity = 2
    Epsilon = 1
    K = 3
    WarmupSize = 1
    MaxEvents = 2
    MaxCalls = 1
    Readers = {r1}
    Requests <- AllRequests
    GpuThreshold = 2
    MaxAsked = 4
CHECK_DEADLOCK FALSE
INVARIANTS TypeOK 
