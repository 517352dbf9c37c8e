CONSTANTS
    Emails = {e1, e2}
    Hashes = {h, r1, r2}
    MaxUsers = 3
    Resets = {r1, r2}
    Tokens = {t1, t2}
    TTL = 1
    MaxTime = 2
    Faults = {"set", "getdel", "hash", "update"}
    Requests = {c1, c2}
    Writers = {w1, w2}
    MaxWrites = 3
    CacheTTL = 2
    StoreFaults = {"get", "set", "del", "load"}
    None = None
SPECIFICATION MCSpec
CHECK_DEADLOCK FALSE
INVARIANT EmailsAreUnique
