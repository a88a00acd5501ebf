SPECIFICATION StatusSafety
CONSTANTS
    r1 = r1
    r2 = r2
    Requests = {r1, r2}
    Polled = {r1}
    StreamOf <- OneStream
    OriginOf <- OneOrigin
    TimestampOf <- Timestamps
    ReadyRetryInterval = 1
    ProcessingTimeout = 0
    Workers = {w1}
    NoWorker = NoWorker
    MaxStreamLimit = 2
    MinStreamLimit = 1
    EventDriven = FALSE
    MaxFaults = 1
    NoRequest = NoRequest
    MaxLag = 1
INVARIANTS StatusTypeOK AnswersAreFinal
PROPERTY StoredIsFound
CHECK_DEADLOCK FALSE
