\* Two RuntimeSecurityPolicies share the workqueue, its only worker and a failing control plane.
CONSTANTS
    Kind = "RuntimeSecurityPolicy"
    Policies = {p1, p2}
    NoPolicy = NoPolicy
    s1 = s1
    s2 = s2
    Specs = {s1, s2}
    NoSpec = NoSpec
    cilium = cilium
    Providers = {cilium}
    NoProvider = NoProvider
    ProviderRef <- MCProviderRef
    Counts = {0, 1}
    PlatformConfigs <- OpenOrUnreadable
    Foreign = {FALSE}
    StartConfigured = {TRUE}
    Faults <- RuntimeFaults
    ConfigLoss = FALSE
    LateCalls = FALSE
    MaxDisturbances = 3
SPECIFICATION BusyFairSpec
CHECK_DEADLOCK FALSE
INVARIANTS
    ReadyMeansApplied
PROPERTIES
    EvidenceOnlyFromConfirmation KeepsPromise DeletionCompletes Converges
