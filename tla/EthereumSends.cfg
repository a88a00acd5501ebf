SPECIFICATION Spec
CONSTANTS
    Calls = {c1, c2}
    NoCall = NoCall
    MaxRetries = 3
    Byzantium = TRUE
    MaxLockLosses = 1
INVARIANTS TypeOK ReturnedIsAnchored AnchorsAtMostOnce SendsAlone
PROPERTY EveryCallEnds
CHECK_DEADLOCK FALSE
