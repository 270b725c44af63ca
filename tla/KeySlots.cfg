SPECIFICATION FairSpec
CONSTANTS
    r1 = r1
    r2 = r2
    a1 = a1
    a2 = a2
    Requests = {r1, r2}
    ch = ch
    Channels = {ch}
    Creds = {a1, a2}
    CredsOf <- MCCredsOf
    Calls <- MCCalls
    MaxEntries = 2
INVARIANTS
    SlotsAccounted
    NoMissedWakeup
PROPERTIES
    GrantsWithinLimit
    EveryAcquireReturns
