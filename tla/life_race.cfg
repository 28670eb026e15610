SPECIFICATION Spec
CONSTANTS
    p1 = p1
    a = a
    s = s
    gc = gc
    Producers = {p1}
    Starters = {a}
    Stoppers = {s}
    Inner = {}
    Tickers = {gc}
    BatchSize = 3
    Cap = 2
    MayCancel = TRUE
    AlreadyStarted = FALSE
    MaxStarts = 2
INVARIANTS TypeOK Conserved WgExact DeafIsDone BatchOrder
CHECK_DEADLOCK FALSE
