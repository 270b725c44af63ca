SPECIFICATION FairSpec
CONSTANTS
    n1 = n1
    r1 = r1
    r2 = r2
    k1 = k1
    u1 = u1
    Master = Master
    Nodes = {n1}
    Requests = {r1}
    Keys = {k1}
    Users = {u1}
    KeyOf <- MCKeyOf
    OwnerOf <- MCOwnerOf
    Cost <- MCCost
    InitBalance = 1
    MaxCredit = 0
    BatchSize = 2
    DeleteChunk = 1
    BootstrapRequired = TRUE
    Removable = {k1}
    MaxFaults = 0
PROPERTY DeletedKeysLeaveWorkers
CHECK_DEADLOCK FALSE
