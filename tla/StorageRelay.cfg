CONSTANTS
    Threads <- MCThreads
    ProcessOf <- MCProcessOf
    Operations <- MCOperations
    MaxOps = 2
    Phones = {"p1"}
    MaxIds = 4
SPECIFICATION Spec
INVARIANTS RelayKept
CHECK_DEADLOCK FALSE
