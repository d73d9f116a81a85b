\* One SegmentationPolicy, finitely many disturbances of every kind, fair steps of the operator.
CONSTANTS
    Kind = "SegmentationPolicy"
    Policies = {p1}
    NoPolicy = NoPolicy
    s1 = s1
    s2 = s2
    Specs = {s1, s2}
    NoSpec = NoSpec
    cilium = cilium
    Providers = {cilium}
    NoProvider = NoProvider
    ProviderRef <- MCProviderRef
    Counts = {0, 1}
    PlatformConfigs <- OpenOrPaused
    Foreign = {FALSE}
    StartConfigured = {TRUE}
    Faults <- FewFaults
    ConfigLoss = TRUE
    LateCalls = TRUE
    MaxDisturbances = 4
SPECIFICATION FairSpec
CHECK_DEADLOCK FALSE
PROPERTIES
    DeletionCompletes Converges NeverUnpausedNeverBlocks

