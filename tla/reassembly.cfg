SPECIFICATION ReportsSpec
CONSTANTS
    BufSize = 4
    MaxFrame = 2
    Lengths <- MCLengths
    MaxMsgs = 3
    Messages <- MCMessages
INVARIANTS ReportsTypeOK WholeMessages NoneMissed ShowsLastReport RetainsLastReport
CHECK_DEADLOCK FALSE
