\* The singleton and another PlatformConfig, nobody else at the switch; timers need not fire.
CONSTANTS
    Counts = {0}
    Names = {default, other}
    NoName = NoName
    PlatformConfigName = default
    HealthReports <- TwoReports
    SwitchFaults <- SwitchAnswers
    HealthFaults <- HealthAnswers
    SwitchStart = {TRUE, FALSE}
    StartConfigured = {TRUE, FALSE}
    Outsiders = FALSE
    LateCalls = FALSE
    WatchGaps = FALSE
    MaxDisturbances = 4
SPECIFICATION UntimedSpec
CHECK_DEADLOCK FALSE
INVARIANTS
    TypeOK ReadyMeansSwitchMatches NoSilentConfig
PROPERTIES
    OnlyTheSingletonsWord HealthOnlyFromRead OnlyTimersWake KeepsWord
