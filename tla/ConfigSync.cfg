SPECIFICATION PollSpec
CONSTANTS
    n1 = n1
    Nodes = {n1}
    BootstrapRequired = TRUE
    MaxChanges = 2
    MaxVersion = 2
    MaxFaults = 1
    MaxMasterFaults = 1
    MaxDirectEdits = 1
    MaxRemovals = 1
INVARIANTS
    MirrorCoversVersion
    NoNotificationLost
PROPERTY Converges
CHECK_DEADLOCK FALSE
