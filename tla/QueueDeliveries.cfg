SPECIFICATION Spec
CONSTANTS
    r1 = r1
    r2 = r2
    Requests = {r1, r2}
    StreamOf <- OneStream
    OriginOf <- OneOrigin
    TimestampOf <- Timestamps
    ReadyRetryInterval = 1
    ProcessingTimeout = 0
    Workers = {w1, w2}
    NoWorker = NoWorker
    Batches = {b1, b2}
    NoBatch = NoBatch
    MaxFaults = 1
INVARIANTS TypeOK CompletedIsProven DeletedAreSettled
PROPERTIES CompletedIsFinal ImplementsLedger BatchesDrain
CHECK_DEADLOCK FALSE
