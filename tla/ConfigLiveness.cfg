\* The singleton with outsiders at the switch, late pushes and watch gaps; fair steps of the operator.
CONSTANTS
    Counts = {0}
    Names = {default}
    NoName = NoName
    PlatformConfigName = default
    HealthReports <- OneReport
    SwitchFaults <- SwitchAnswers
    HealthFaults <- HealthAnswers
    SwitchStart = {TRUE}
    StartConfigured = {TRUE, FALSE}
    Outsiders = TRUE
    LateCalls = TRUE
    WatchGaps = TRUE
    MaxDisturbances = 4
SPECIFICATION FairSpec
CHECK_DEADLOCK FALSE
INVARIANTS
    SingletonAlwaysDue
PROPERTIES
    SwitchFollowsSpec
