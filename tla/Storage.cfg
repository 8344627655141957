CONSTANTS
    Threads <- MCThreads
    ProcessOf <- MCProcessOf
    Operations <- MCOperations
    MaxOps = 3
    Phones = {"p1"}
    MaxIds = 4
SPECIFICATION Spec
INVARIANTS TypeOK OneMachineId DevicesKept ListProtected
CHECK_DEADLOCK FALSE
