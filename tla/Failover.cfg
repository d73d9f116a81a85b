\* Two managers, expired leases and leaders with old caches.
CONSTANTS
    Managers = {m1, m2}
    NoManager = NoManager
    Specs = {s1, s2}
    NoSpec = NoSpec
    LeaderElect = TRUE
    MaxDisturbances = 3
SPECIFICATION FairSpec
CHECK_DEADLOCK FALSE
INVARIANTS
    TypeOK NoOrphanedEdgesInOrder ReadyMeansAppliedInOrder
PROPERTIES
    Heals
