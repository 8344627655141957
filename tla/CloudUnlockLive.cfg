SPECIFICATION FairSpec
CONSTANTS
    a1 = a1
    a2 = a2
    Attempts <- MCOne
    Owner <- MCOwn
    TTL = 2
    MaxSeen = 1
    MaxFaults = 2
    MaxRestarts = 1
    MaxQueue = 1
    MaxDelay = 1
    LastStart = 0
INVARIANTS LateApprovalNeverUnlocks
PROPERTIES AttemptEnds DecidedOnce
CHECK_DEADLOCK FALSE
