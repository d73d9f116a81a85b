\* Both controllers from the first edits of their objects on, with late requests.
CONSTANTS
    Kind = "SegmentationPolicy"
    Policies = {p1}
    NoPolicy = NoPolicy
    Specs = {s1}
    NoSpec = NoSpec
    ProviderRef <- MCProviderRef
    Providers = {}
    NoProvider = NoProvider
    Counts = {0, 1}
    Faults <- Lost
    Names = {default}
    NoName = NoName
    PlatformConfigName = default
    HealthReports <- OneReport
    SwitchFaults <- StaysPut
    HealthFaults <- None
    SwitchStart = {TRUE}
    StartConfigured = {TRUE}
    LateRequests = TRUE
    LatePushes = TRUE
    Outsiders = TRUE
    MaxDisturbances = 1
SPECIFICATION WrittenFairSpec
CHECK_DEADLOCK FALSE
PROPERTIES
    ConfirmedPauseHolds UnpausingIsEnough
