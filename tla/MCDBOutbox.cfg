CONSTANTS
    Events = {1, 2, 3}
    Dispatchers = {d1, d2}
    MaxRestarts = 2
    Faults = {"stop", "publish", "ack", "delete", "db"}
SPECIFICATION FairSpec
CHECK_DEADLOCK FALSE
INVARIANTS
    NoEventLost
    NoDuplicates
PROPERTIES
    ImplementsChannel
    PublishedWhileDispatching
