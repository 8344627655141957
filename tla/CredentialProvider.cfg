\* Two users, three settings of the PC.  Nothing else is
\* bounded: the screen may be locked and unlocked for ever.
CONSTANTS
    u1 = u1
    u2 = u2
    None = None
    Users <- MCUsers
    Settings <- MCSettings
    MinLogonTime = 15
    Header = 56
    Growth = 2
SPECIFICATION FairSpec
INVARIANTS
    ApprovalUsedOnce
    OneAttempt
    HandedWhole
    TileUsable
PROPERTIES
    OutcomeNoticed
    StopReturns
