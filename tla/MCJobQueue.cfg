CONSTANTS
    Jobs = {j1, j2}
    Workers = {w1, w2}
    MaxRetries = 2
    NoJob = NoJob
SPECIFICATION FairSpec
INVARIANTS
    TypeOK
    NoJobVanishes
    NoJobTwice
    RetryBudget
    NoLostWakeup
    RetriesAreSpaced
PROPERTIES
    ImplementsLifecycle
    JobsFinish
    ShutdownEnds
