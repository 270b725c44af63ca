SPECIFICATION FairSpec
CONSTANTS
    n1 = n1
    Nodes = {n1}
    Reachable = {n1}
    SendCap = 1
    MaxSessions = 2
    MaxVersion = 2
    MaxFaults = 2
    MaxMasterFaults = 1
    MaxRevocations = 1
    MaxClicks = 1
INVARIANTS
    StreamHasNoGap
    OpenSessionIsReachable
PROPERTY PushesArrive
CHECK_DEADLOCK FALSE
