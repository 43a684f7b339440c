SPECIFICATION FairSpec
CONSTANTS
    Users = {ann, bob}
    Ips = {i1}
    Threads = {t1, t2}
    UserMax = 1
    IpMax = 1
    MaxKeys = 1
    Window = 2
    MaxLag = 1
INVARIANTS
    FailuresBounded
PROPERTIES
    RefusalJustified
    LockoutEnds
