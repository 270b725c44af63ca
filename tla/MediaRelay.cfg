SPECIFICATION FairSpec
CONSTANTS
    c1 = c1
    c2 = c2
    c3 = c3
    ch1 = ch1
    ch2 = ch2
    r1 = r1
    r2 = r2
    Channels = {ch1, ch2}
    Creds = {c1, c2, c3}
    ChannelOf <- MCChannelOf
    Initial <- MCInitial
    Requests = {r1, r2}
    None = None
    MaxChanges = 1
    Mixes <- MCMixes
    VideoAdapter <- MCVideoAdapter
    AudioAdapter <- MCAudioAdapter
    Auth <- MCAuth
    Management = Management
    Tasks = {t1}
INVARIANTS
    RevokedKeyIsNotServed
    FirstUseAgrees
    RowNamesTheAnswerer
    TaskReachesItsAccount
PROPERTY
    PoolCatchesUp
CHECK_DEADLOCK FALSE
