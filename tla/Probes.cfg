\* Two overlapping probes in a world that changes twice.
CONSTANTS
    Probes = {a, b}
    requiredResources = {platformconfigs, runtimesecuritypolicies, segmentationpolicies}
    Timeout = 1
    DiscoveryTimeout = 2
    StartConfigured = {TRUE, FALSE}
    MaxDisturbances = 2
SPECIFICATION FairSpec
INVARIANTS
    TypeOK ReadyIsConfirmed AbsenceIsConfirmed
PROPERTIES
    EveryProbeEnds
