SPECIFICATION StreamSpec
CONSTANTS
    Scenarios <- Passing
    ArgsOf <- MCArgs
    MaxEvents = 4
    MaxPending = 2
    ProbeLimit = 2
INVARIANTS
    TextInOrder
    MarkedEndDeliversAll
    OneUpstreamAnswers
CHECK_DEADLOCK FALSE
