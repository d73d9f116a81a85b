\* A restart may lose the connection settings (the Secret is optional).
CONSTANTS
    Kind = "SegmentationPolicy"
    Policies = {p1}
    NoPolicy = NoPolicy
    s1 = s1
    s2 = s2
    Specs = {s1, s2}
    NoSpec = NoSpec
    cilium = cilium
    Providers = {cilium}
    NoProvider = NoProvider
    ProviderRef <- MCProviderRef
    Counts = {0, 1}
    PlatformConfigs <- Open
    Foreign = {FALSE}
    StartConfigured = {TRUE}
    Faults <- NoFaults
    ConfigLoss = TRUE
    LateCalls = FALSE
    MaxDisturbances = 3
SPECIFICATION Spec
CHECK_DEADLOCK FALSE
INVARIANTS
    NoOrphanedEdges

