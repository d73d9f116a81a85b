\* An informer that lists again after it lost its watch.
CONSTANTS
    Counts = {0}
    Names = {default, other}
    NoName = NoName
    PlatformConfigName = default
    HealthReports <- OneReport
    SwitchFaults <- None
    HealthFaults <- None
    SwitchStart = {TRUE}
    StartConfigured = {TRUE}
    Outsiders = FALSE
    LateCalls = FALSE
    WatchGaps = TRUE
    MaxDisturbances = 4
SPECIFICATION Spec
CHECK_DEADLOCK FALSE
INVARIANTS
    NoSilentConfig
