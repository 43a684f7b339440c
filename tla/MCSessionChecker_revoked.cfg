SPECIFICATION Spec
CONSTANTS
    Users = {u1}
    Threads = {t1}
    Cache = 2
    Grace = 3
    Retry = 1
    Skew = 0
    MaxClock = 4
INVARIANTS
    RevocationHonoured
CHECK_DEADLOCK FALSE
