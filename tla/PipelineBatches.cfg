SPECIFICATION Spec
CONSTANTS
    r1 = r1
    r2 = r2
    r3 = r3
    Requests = {r1, r2, r3}
    StreamOf <- OwnStreams
    OriginOf <- OneOrigin
    TimestampOf <- Timestamps
    ReadyRetryInterval = 1
    ProcessingTimeout = 0
    Workers = {w1}
    NoWorker = NoWorker
    MaxStreamLimit = 1
    MinStreamLimit = 2
    EventDriven = FALSE
    MaxFaults = 0
PROPERTY EventuallySettled
CHECK_DEADLOCK FALSE
