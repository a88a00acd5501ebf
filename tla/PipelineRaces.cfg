SPECIFICATION SafetySpec
CONSTANTS
    r1 = r1
    r2 = r2
    r3 = r3
    Requests = {r1, r2}
    StreamOf <- OneStream
    OriginOf <- OneOrigin
    TimestampOf <- Timestamps
    ReadyRetryInterval = 1
    ProcessingTimeout = 0
    Workers = {w1, w2}
    NoWorker = NoWorker
    MaxStreamLimit = 2
    MinStreamLimit = 1
    EventDriven = FALSE
    MaxFaults = 1
SYMMETRY WorkerSymmetry
INVARIANTS TypeOK CompletedIsProven NewestIsKept
PROPERTY ImplementsLedger
CHECK_DEADLOCK FALSE
