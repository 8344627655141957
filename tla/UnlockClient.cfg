CONSTANTS
    c1 = c1
    c2 = c2
    Clients <- MCClients
    Bluetooth = {c2}
    Retries <- MCRetries
    Answers <- MCAnswers
SPECIFICATION FairSpec
INVARIANTS TypeOK SocketsClosed
PROPERTIES ImplementsAttempt ClosesOwnSocket StopReturns
CHECK_DEADLOCK FALSE
