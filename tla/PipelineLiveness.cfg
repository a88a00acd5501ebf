SPECIFICATION Spec
CONSTANTS
    r1 = r1
    r2 = r2
    r3 = r3
    Requests = {r1, r2}
    StreamOf <- OneStream
    OriginOf <- OneOrigin
    TimestampOf <- Timestamps
    ReadyRetryInterval = 1
    ProcessingTimeout = 0
    Workers = {w1}
    NoWorker = NoWorker
    MaxStreamLimit = 1
    MinStreamLimit = 1
    EventDriven = TRUE
    MaxFaults = 1
PROPERTIES EveryRequestIsCovered
CHECK_DEADLOCK FALSE
