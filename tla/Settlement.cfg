SPECIFICATION Spec
CONSTANTS
    k1 = k1
    k2 = k2
    a = a
    b = b
    c = c
    None = None
    MaxNesting = 3
    Calls = {a, b, c}
    Asks <- MCAsks
    ChannelModels <- MCChannelModels
    StartPrices <- MCStartPrices
    StartRules <- MCStartRules
    Answer <- MCAnswer
    BuiltIn = {"expr", "ratio"}
    Credentials <- MCCredentials
    StartCredentials <- MCStartCredentials
    Says <- MCSays
    Plans <- MCPlans
    Thresholds = {2, 5}
    Requests <- MCRequests
INVARIANTS
    SnapshotFollowsPrices
    RulesPriceLikeTheExpression
    SummaryFollowsCredentials
    AlertedOncePerDip
