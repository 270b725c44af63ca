SPECIFICATION RoutingSpec
CONSTANTS
    r1 = r1
    r2 = r2
    Unset = "unset"
    Cleared = "cleared"
    MaxModels = 4
    Model = "large-2024"
    AllowedModels = {"large"}
    PublicName <- MCPublicName
    Talk <- MCTalk
    c1 = c1
    c2 = c2
    g1 = g1
    alice = alice
    bob = bob
    RoutedRequests = {r1, r2}
    Channels = {c1, c2}
    Groups = {g1}
    KeyGroups = {g1}
    KeyUser = alice
    Rank <- MCRank
    Owner <- MCOwner
    Window <- MCWindow
    Writes <- MCWrites
    DayLength = 2
    MaxTime = 1
    MaxRevision = 2
    MaxFaults = 1
INVARIANTS
    FreshRoute
    EntriesFollowTheirVersion
SYMMETRY Symmetry
