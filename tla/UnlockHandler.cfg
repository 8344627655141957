SPECIFICATION Spec
CONSTANTS
    d1 = d1
    d2 = d2
    caller = caller
    Servers <- MCServers
    Main <- caller
    HasBroadcast = TRUE
    MaxBeacons = 3
    Reachable = {d1, d2}
    MaxAttach = 1
    MayHang = {d1, d2}
    Causes = {"keys"}
SYMMETRY MCSymmetry
INVARIANTS TypeOK SuccessIsGenuine NoUseAfterDelete ApprovalLostOnlyByStaleRecheck BroadcasterSafe BeaconIsSent
CHECK_DEADLOCK FALSE
PROPERTY UsesBroadcaster
