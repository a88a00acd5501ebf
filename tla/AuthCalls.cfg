SPECIFICATION KeySpec
CONSTANTS
    Calls = {c1, c2, c3, c4}
    Emails = {e1, e2}
    NoEmail = NoEmail
    Codes = {k1, k2}
    NoCode = NoCode
    DIDs = {d1}
    Nonces = {n1}
    Containing <- WithinLongest
SYMMETRY Interchangeable
INVARIANTS TypeOK CodesWorkOnce OlderCodesAreDead NoncesWorkOnce KeysFollowDIDs
PROPERTY RegistrationIsFinal
CHECK_DEADLOCK FALSE
