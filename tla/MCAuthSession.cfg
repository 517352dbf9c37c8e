CONSTANTS
    Requests = {r1, r2, r3}
    Writers = {Admin}
    MaxWrites = 1
    AccessTTL = 1
    RefreshTTL = 2
    CacheTTL = 2
    MaxTime = 3
    Faults = {"revoke", "exists"}
    StoreFaults = {"set", "del"}
    None = None
SPECIFICATION Spec
CHECK_DEADLOCK FALSE
SYMMETRY Symmetry
INVARIANTS
    GivenUpTokensAreRejected
    DeletedUserRunsOut
