SPECIFICATION FairSpec
CONSTANTS
    d1 = d1
    d2 = d2
    caller = caller
    Servers <- MCServers
    Main <- caller
    HasBroadcast = FALSE
    MaxBeacons = 1
    Reachable = {}
    MaxAttach = 0
    MayHang = {}
    Causes = {"keys"}
PROPERTY CtrlAltCancels
CHECK_DEADLOCK FALSE
