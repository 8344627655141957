CONSTANTS
    Phones = {p1, p2}
    MaxClients = 2
    MaxSessions = 2
    MaxConns = 2
SPECIFICATION FairSpec
INVARIANTS TypeOK KeysAgree
PROPERTIES StoredOnlyInSession WindowReturns PhoneServed
CHECK_DEADLOCK FALSE
