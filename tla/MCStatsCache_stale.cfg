SPECIFICATION Spec
CONSTANTS
    Poller = collector
    Web = {web}
    Readers = {r1}
    Targets = {t1, t2}
    MayOverlap = FALSE
    Retention = 2
    MaxClock = 3
    MaxRestarts = 0
INVARIANTS
    ReadThroughSeesLatest
