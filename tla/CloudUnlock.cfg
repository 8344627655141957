SPECIFICATION Spec
CONSTANTS
    a1 = a1
    a2 = a2
    Attempts <- MCTwo
    Owner <- MCRetry
    TTL = 1
    MaxSeen = 1
    MaxFaults = 1
    MaxRestarts = 0
    MaxQueue = 1
    MaxDelay = 0
    LastStart = 1
SYMMETRY MCSymmetry
INVARIANT TypeOK
PROPERTIES DecidedOnce AskedOnce
CHECK_DEADLOCK FALSE
