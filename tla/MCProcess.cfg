CONSTANTS
    Events = {e1, e2}
    PublishFails = TRUE
    Requests = {r1}
    Workers = {w1, w2}
    MaxJobs = 1
    MaxFlips = 1
SPECIFICATION FairSpec
CHECK_DEADLOCK FALSE
INVARIANTS
    FlushedInOrder
    NoLostWakeup
    NoUseAfterClose
    CleanExitCutsNothing
PROPERTIES
    EventsPublished
    ProcessEnds
