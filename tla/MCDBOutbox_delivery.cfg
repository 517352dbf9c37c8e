CONSTANTS
    Events = {1, 2}
    Dispatchers = {d1, d2}
    MaxRestarts = 0
    Faults = {}
SPECIFICATION FairSpec
CHECK_DEADLOCK FALSE
PROPERTY DeliveredAtLeastOnce
