SPECIFICATION FairSpec
CONSTANTS
    w = w
    e1 = e1
    u1 = u1
    u2 = u2
    r1 = r1
    Events = {e1}
    Workers = {w}
    Users = {u1, u2}
    Readers = {r1}
    Calls <- AllCalls
    Strategy = "volume"
    Threshold = 1
    HasStorage = FALSE
    SaveMayFail = FALSE
    MaxID = 4
    MaxCalls = 2
    Free = Free
    NoEvent = NoEvent
INVARIANTS NothingInvented
PROPERTIES AllPublished CallsReturn
