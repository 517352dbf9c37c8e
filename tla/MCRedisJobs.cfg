CONSTANTS
    Jobs = {j1, j2}
    Workers = {w1, w2}
    MaxRetries = 2
    MaxCrashes = 1
    MaxUnsure = 1
    Faults = {"read", "reply", "add", "addReply", "push"}
    NoEntry = NoEntry
SPECIFICATION FairSpec
CHECK_DEADLOCK FALSE
INVARIANTS
    NoJobVanishes
    NoJobTwice
    RetryBudget
PROPERTIES
    JobsFinishWhilePoolLives
    ShutdownEnds
