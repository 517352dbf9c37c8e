CONSTANTS
    Requests = {r1, r2, r3}
    Bodies = {b1, b2}
    TTL = 2
    MaxTime = 3
    Faults = {"lookup", "save", "expire"}
    None = None
    Global = Global
    Auth = Auth
    Limiters = {Global, Auth}
    Cost = 2
    Rate <- MCRate
    Burst <- MCBurst
    Idle = 3
    MaxOutages = 1
    MaxTicks = 4
    NoBucket = NoBucket
SPECIFICATION MCSpec
CHECK_DEADLOCK FALSE
SYMMETRY Symmetry
INVARIANTS
    AnswersAreJustified
    RetriesDoNotExecute
    WithinBudget
    DenialsAreJustified
    RetryAfterSuffices
