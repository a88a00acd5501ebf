SPECIFICATION Spec
CONSTANTS
    Estimates = {0, 9, 15, 100}
    BaseFees = {0, 7, 50}
    MaxRetries = 3
INVARIANTS RetriesOutbid CapsRise PriceIsBounded
CHECK_DEADLOCK FALSE
