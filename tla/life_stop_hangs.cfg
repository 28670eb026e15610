SPECIFICATION FairSpec
CONSTANTS
    p1 = p1
    p2 = p2
    s = s
    Producers = {p1, p2}
    Starters = {}
    Stoppers = {s}
    Inner = {}
    Tickers = {}
    BatchSize = 1
    Cap = 1
    MayCancel = FALSE
    AlreadyStarted = FALSE
    MaxStarts = 2
PROPERTIES StopReturns
CHECK_DEADLOCK FALSE
