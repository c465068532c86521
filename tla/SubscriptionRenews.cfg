SPECIFICATION SubSpec
CONSTANTS
    SubRequests = {r1, r2}
    SubWorkers = {w1, w2}
    SubPeriod = 1
    SubGrace = 1
    SubLag = FALSE
    SubEnd = 3
    MaxSubAsked = 3
    MaxSubFaults = 0
INVARIANT ActiveRenews
CHECK_DEADLOCK FALSE
