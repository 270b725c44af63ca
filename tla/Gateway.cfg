SPECIFICATION Spec
CONSTANTS
    u1 = u1
    u2 = u2
    k1 = k1
    k2 = k2
    x1 = x1
    x2 = x2
    a = a
    b = b
    c = c
    d = d
    None = None
    Users = {u1, u2}
    Codes = {x1, x2}
    Printed = {x1}
    Keys = {k1, k2}
    Calls = {a, b, c, d}
    Asks <- MCAsks
    Account <- MCAccount
    KeyRows <- MCKeyRows
    Settings <- MCSettings
    TicksPerMinute = 2
    IdleTTL = 2
    CleanupInterval = 1
    MaxTime = 2
INVARIANTS
    CodesPayOnce
    CacheFollowsKey
    AdmissionsAreBounded
    LoginStateUsedOnce
