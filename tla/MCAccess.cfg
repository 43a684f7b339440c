SPECIFICATION Spec
CONSTANTS
    Users = {u}
    Names = {g}
    Tabs = {tab}
    KnownTabs = {tab}
    Threads = {t1, t2}
    Sessions = {s}
    Clis = {c1, c2}
    Bodies <- SomeBodies
    MaxRuns = 2
    MaxRequests = 3
    MaxRestarts = 1
SYMMETRY Symmetry
INVARIANTS
PROPERTIES
    ServedWasGranted
    RefusedForCause
    DeletedStaysDeleted
CHECK_DEADLOCK FALSE
