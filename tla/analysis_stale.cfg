SPECIFICATION Spec
CONSTANTS
    a = a
    b = b
    c = c
    r1 = r1
    Order <- IdsInOrder
    Scale = 100
    ParallelFrom = 2
    NumWorkers = 2
    MaxNeighbors = 2
    MaxOutDegree = 2
    Edges <- ThreeEdges
    Weights = {1}
    Threshold = 9
    Capacity = 2
    Epsilon = 1
    K = 3
    WarmupSize = 1
    MaxEvents = 3
    MaxCalls = 0
    Readers = {r1}
    Requests <- FullOnly
    GpuThreshold = 2
    MaxAsked = 4
CHECK_DEADLOCK FALSE
INVARIANTS BackendConsistent
