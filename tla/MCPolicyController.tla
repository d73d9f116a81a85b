-------------------------- MODULE MCPolicyController --------------------------
(***************************************************************************)
(* Values for the constants of PolicyController; the .cfg files choose     *)
(* among them.                                                             *)
(***************************************************************************)
EXTENDS PolicyController

CONSTANTS s1, s2, cilium

\* The first spec names its provider, the second leaves it to the cluster default.
MCProviderRef == [s \in Specs |-> IF s = s1 THEN cilium ELSE NoProvider]

Unpaused(provider) == [found |-> "found", paused |-> FALSE, flowProvider |-> provider]
PausedBySpec       == [found |-> "found", paused |-> TRUE, flowProvider |-> NoProvider]

Open             == {Unpaused(NoProvider)}
OpenOrPaused     == {Unpaused(NoProvider), PausedBySpec}
OpenOrUnreadable == {Unpaused(NoProvider), PlatformConfigUnreadable}
OpenOrNot        == {Unpaused(NoProvider), PausedBySpec, PlatformConfigMissing}

NotAnswered == [answered |-> FALSE, code |-> 200, body |-> [shape |-> "opaque", key |-> ""]]
Answer(code, body) == [answered |-> TRUE, code |-> code, body |-> body]
Structured(key)    == [shape |-> "structured", key |-> key]

Unverified    == Answer(200, [OkBody(1) EXCEPT !.Unverified = TRUE])
Mismatch      == Answer(200, [OkBody(1) EXCEPT !.EdgesUpserted = 0])
NotInstalled  == Answer(200, [OkBody(1) EXCEPT !.ProviderInstalled = "absent"])
EmptyObject   == Answer(200, Structured(""))
Undecodable   == Answer(200, [shape |-> "opaque", key |-> ""])
NotVerified   == Answer(500, Structured("write_not_verified"))
NoProviderYet == Answer(503, Structured("provider_unavailable"))
NoToken       == Answer(503, Structured("operator_token_not_configured"))
ClusterError  == Answer(502, [shape |-> "plain", key |-> "other"])

NoFaults      == {}
FewFaults     == {NotAnswered, Unverified}
RuntimeFaults == {NotAnswered, Unverified, Mismatch, NotInstalled, NoProviderYet}
AllFaults     == {NotAnswered, Unverified, Mismatch, NotInstalled, EmptyObject, Undecodable,
                  NotVerified, NoProviderYet, NoToken, ClusterError}

\* Every CR selects a workload at first; ChangeWorkloads may take it away.
BusyInit     == Init /\ workloads = [p \in Policies |-> 1]
BusyFairSpec == BusyInit /\ [][Next]_vars /\ Fairness
=============================================================================
