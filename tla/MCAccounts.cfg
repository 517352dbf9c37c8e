CONSTANTS
    Requests = {r1, r2, r3}
    Addresses = {a1}
    MaxId = 2
    MaxMoved = 1
    Faults = {"db", "reply", "lookup", "save", "outbox", "queue", "disconnect"}
SPECIFICATION Spec
SYMMETRY Symmetry
CHECK_DEADLOCK FALSE
INVARIANTS
    OneRowPerKey
    AnnouncedUnlessCut
    RetriesReplay
