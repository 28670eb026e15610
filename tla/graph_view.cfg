SPECIFICATION Spec
CONSTANTS
    a = a
    b = b
    NodeIds = {a, b}
    Weights = {2}
    Times = {1, 2}
    MaxEvents = 3
    MaxRounds = 3
INVARIANTS TypeOK OverlayDegreeExact LastSeenExact
PROPERTIES ImplementsEdgeLedger
CHECK_DEADLOCK FALSE
