SPECIFICATION FairSpec
CONSTANTS
    Callers = {c1, c2}
    NoOne = NoOne
    Calls <- SomeCalls
    MaxScanId = 2
    Modes = {"TCP", "RTU"}
    MaxRequests = 2
    MaxScans = 1
INVARIANTS
    TypeOK
    ReplyIsAddressed
    TurnsAreSafe
    ScanIsRight
PROPERTIES
    HandlerCallsReturn
CHECK_DEADLOCK FALSE
