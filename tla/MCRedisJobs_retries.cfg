CONSTANTS
    Jobs = {j1, j2}
    Workers = {w1, w2}
    MaxRetries = 2
    MaxCrashes = 0
    MaxUnsure = 0
    Faults = {}
    NoEntry = NoEntry
SPECIFICATION Spec
CHECK_DEADLOCK FALSE
SYMMETRY Symmetry
INVARIANT BuriedAfterAllRetries
