SPECIFICATION StatusSpec
CONSTANTS
    r1 = r1
    r2 = r2
    Requests = {r1}
    Polled = {r1}
    StreamOf <- OneStream
    OriginOf <- OneOrigin
    TimestampOf <- Timestamps
    ReadyRetryInterval = 1
    ProcessingTimeout = 0
    Workers = {w1}
    NoWorker = NoWorker
    MaxStreamLimit = 2
    MinStreamLimit = 2
    EventDriven = TRUE
    MaxFaults = 1
    NoRequest = NoRequest
    MaxLag = 1
PROPERTY PollingConverges
CHECK_DEADLOCK FALSE
