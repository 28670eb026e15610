SPECIFICATION FairSpec
CONSTANTS
    p1 = p1
    p2 = p2
    p3 = p3
    s = s
    Producers = {p1, p2, p3}
    Starters = {}
    Stoppers = {s}
    Inner = {p3}
    Tickers = {}
    BatchSize = 1
    Cap = 1
    MayCancel = FALSE
    AlreadyStarted = TRUE
    MaxStarts = 3
INVARIANTS StopDrains
PROPERTIES AddReturns StopReturns AcceptedProcessed
CHECK_DEADLOCK FALSE
