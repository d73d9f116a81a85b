\* One SegmentationPolicy against every fault of the control plane and the cluster.
CONSTANTS
    Kind = "SegmentationPolicy"
    Policies = {p1}
    NoPolicy = NoPolicy
    s1 = s1
    s2 = s2
    Specs = {s1, s2}
    NoSpec = NoSpec
    cilium = cilium
    Providers = {cilium}
    NoProvider = NoProvider
    ProviderRef <- MCProviderRef
    Counts = {0, 1}
    PlatformConfigs <- OpenOrNot
    Foreign = {TRUE, FALSE}
    StartConfigured = {TRUE, FALSE}
    Faults <- AllFaults
    ConfigLoss = FALSE
    LateCalls = FALSE
    MaxDisturbances = 4
SPECIFICATION Spec
CHECK_DEADLOCK FALSE
INVARIANTS
    TypeOK NoOrphanedEdges ReadyMeansApplied NothingForgotten IInv
PROPERTIES
    OperatorRevertsNobody KeepsPromise
