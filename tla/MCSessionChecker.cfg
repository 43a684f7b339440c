SPECIFICATION Spec
CONSTANTS
    Users = {u1}
    Threads = {t1, t2}
    Cache = 2
    Grace = 3
    Retry = 1
    Skew = 1
    MaxClock = 6
SYMMETRY ThreadSymmetry
INVARIANTS
    KnowsOldLogouts
PROPERTIES
    RevokedWithinGrace
    NoFalseReject
    ProbesSpaced
    LastGoodAdvances
CHECK_DEADLOCK FALSE
