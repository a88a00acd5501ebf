SPECIFICATION SafetySpec
CONSTANTS
    r1 = r1
    r2 = r2
    r3 = r3
    Requests = {r1}
    StreamOf <- OneStream
    OriginOf <- OneOrigin
    TimestampOf <- Timestamps
    ReadyRetryInterval = 1
    ProcessingTimeout = 0
    Workers = {w1}
    NoWorker = NoWorker
    MaxStreamLimit = 2
    MinStreamLimit = 1
    EventDriven = FALSE
    MaxFaults = 1
PROPERTY OnlyProcessingReverts
CHECK_DEADLOCK FALSE
