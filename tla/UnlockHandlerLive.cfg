SPECIFICATION FairSpec
CONSTANTS
    d1 = d1
    d2 = d2
    caller = caller
    Servers <- MCServers
    Main <- caller
    HasBroadcast = FALSE
    MaxBeacons = 3
    Reachable = {d1}
    MaxAttach = 1
    MayHang = {d1}
    Causes = {"deadline", "cancel"}
PROPERTIES MainWakes CancelEndsServers SuccessEndsServers DeadlineEndsServers
CHECK_DEADLOCK FALSE
