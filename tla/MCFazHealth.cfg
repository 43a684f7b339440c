SPECIFICATION FairSpec
CONSTANTS
    a = a
    b = b
    Labels = {a, b}
    Hosts <- TwoHosts
    Readers = {r1, r2}
    Admins = {e1, e2}
    Scenarios <- EveryScenario
INVARIANTS
    CycleRefreshesAll
    FirstViewCurrent
    EditsNotLost
PROPERTIES
    StoreNeverGoesBack
    DashboardComplete
    EditReachesStore
CHECK_DEADLOCK FALSE
