SPECIFICATION AppSpec
CONSTANTS
    MaxRuns = 4
    Retries = 3
    MaxErrors = 4
INVARIANTS NothingIsCutOff AbortIsNoFailure
PROPERTIES NoRunAfterAbort ShutdownEnds ResponderListens WitnessTableSettles
CHECK_DEADLOCK FALSE
