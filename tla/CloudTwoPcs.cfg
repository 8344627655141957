SPECIFICATION Spec
CONSTANTS
    a1 = a1
    a2 = a2
    Attempts <- MCTwo
    Owner <- MCTwoPcs
    TTL = 1
    MaxSeen = 1
    MaxFaults = 0
    MaxRestarts = 0
    MaxQueue = 1
    MaxDelay = 0
    LastStart = 0
SYMMETRY MCSymmetry
PROPERTIES AnswerIsFound
CHECK_DEADLOCK FALSE
