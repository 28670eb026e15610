SPECIFICATION Spec
CONSTANTS
    w = w
    e1 = e1
    e2 = e2
    u1 = u1
    r1 = r1
    Events = {e1, e2}
    Workers = {w}
    Users = {u1}
    Readers = {r1}
    Calls <- CompactOnly
    Strategy = "manual"
    Threshold = 2
    HasStorage = FALSE
    SaveMayFail = FALSE
    MaxID = 4
    MaxCalls = 1
    Free = Free
    NoEvent = NoEvent
INVARIANTS CompactExact
