SPECIFICATION Spec
CONSTANTS
    Users = {u}
    Names = {g}
    Tabs = {tab}
    KnownTabs = {tab}
    Threads = {t1, t2}
    Sessions = {s}
    Clis = {c1, c2}
    Bodies <- SomeBodies
    MaxRuns = 0
    MaxRequests = 3
    MaxRestarts = 0
SYMMETRY Symmetry
PROPERTIES
    PutKeepsAbsentMembers
CHECK_DEADLOCK FALSE
