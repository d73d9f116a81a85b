\* A new leader may know less than its predecessor did.
CONSTANTS
    Managers = {m1, m2}
    NoManager = NoManager
    Specs = {s1, s2}
    NoSpec = NoSpec
    LeaderElect = TRUE
    MaxDisturbances = 3
SPECIFICATION Spec
CHECK_DEADLOCK FALSE
INVARIANTS
    NoOrphanedEdges
