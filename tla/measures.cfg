SPECIFICATION Spec
CONSTANTS
    a = a
    b = b
    c = c
    d = d
    Order <- IdsInOrder
    Scale = 120
    ParallelFrom = 2
    NumWorkers = 3
    MaxNeighbors = 2
    MaxOutDegree = 2
    Lazy = 60
    Decay <- Halves
    Hops = 2
    Limit2 = 6
    Threshold = 30
    MaxEvents = 4
    Transport <- Farthest
CHECK_DEADLOCK FALSE
INVARIANTS KernelAgrees CostsAreDistances ConcealmentExact FiedlerSeesConnectivity AnalysesAgree
