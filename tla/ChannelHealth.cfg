SPECIFICATION FairSpec
CONSTANTS
    c1 = c1
    m1 = m1
    m2 = m2
    Creds = {c1}
    Models = {m1, m2}
    Edited = {m1}
    Asked = {m2}
    Marked = {m1}
    Requests = {1}
    MaxScore = 1
    FailurePenalty = 1
    LightPenalty = 1
    TestSuccess = 1
    Gains = {1}
    Threshold = 2
    Isolation = 1
    Midnight = 1
    Intervals <- MCIntervals
    LockTicks = 2
    MaxEvents = 1
PROPERTY AutoDisabledIsRetried
PROPERTY IsolatedIsRetried
