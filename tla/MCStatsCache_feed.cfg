SPECIFICATION FairSpec
CONSTANTS
    Poller = collector
    Web = {web}
    Readers = {r1, r2}
    Targets = {t1}
    MayOverlap = FALSE
    Retention = 1
    MaxClock = 2
    MaxRestarts = 1
INVARIANTS
    TypeOK
    Honest
    DetailsOnceStored
    StoreCoversHistory
PROPERTIES
    FeedSpec
    EveryClientGetsDetails
