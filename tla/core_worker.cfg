SPECIFICATION Spec
CONSTANTS
    w = w
    e1 = e1
    e2 = e2
    e3 = e3
    e4 = e4
    r1 = r1
    r2 = r2
    Events = {e1, e2, e3, e4}
    Workers = {w}
    Users = {}
    Readers = {r1, r2}
    Calls <- NoCalls
    Strategy = "volume"
    Threshold = 2
    HasStorage = TRUE
    SaveMayFail = TRUE
    MaxID = 6
    MaxCalls = 0
    Free = Free
    NoEvent = NoEvent
SYMMETRY Symmetry
INVARIANTS TypeOK ExactlyOnce SnapshotPrefix OverlayBounded StorageNeverAhead
PROPERTIES ImplementsLedger
