SPECIFICATION FairSpec
CONSTANTS
    c1 = c1
    c2 = c2
    k1 = k1
    k2 = k2
    k3 = k3
    r1 = r1
    Requests = {r1}
    Order <- MCOrder
    Keys <- MCKeys
    Limit <- MCLimit
    Addresses <- MCAddresses
    Priced = TRUE
    Owned = {c1}
    Converts = TRUE
    Outcomes <- MCOutcomes
INVARIANTS
    ChargedIsDelivered
    AnswerIsRecorded
    BoundedPressure
PROPERTIES
    NoReplayAfterOutput
    RequestEnds
CHECK_DEADLOCK FALSE
