-------------------------------- MODULE Common --------------------------------
(***************************************************************************)
(* internal/controller/common.go: condition reasons, requeue cadences, the *)
(* condition stamp and the pause gate that both policy reconcilers share.  *)
(***************************************************************************)
EXTENDS Naturals

CONSTANTS
    Providers,      \* names of flow providers
    NoProvider      \* the empty provider name

Reasons == {"", "Reconciled", "Paused", "PlatformConfigMissing",
            "PlatformConfigUnreadable", "BackendUnreachable",
            "AwaitingConfiguration", "ReconcileFailed", "WriteNotVerified",
            "ProviderUnavailable", "EdgeCloseFailed"}

\* How a reconcile asks to run again.  "backoff" is a returned error (the
\* workqueue's rate limiter), the others are ctrl.Result{RequeueAfter: ...}.
Cadences == {"backoff", "PausedRequeue", "ResyncInterval", "UnconfiguredRequeue"}

\* status of a policy CR: the Ready condition (status, reason and the
\* generation stamped on it), observedGeneration and the kind's own field.
Statuses(counts) ==
    [ready : {"none", "True", "False"}, reason : Reasons,
     conditionGeneration : Nat, observedGeneration : Nat,
     resolvedFlowProvider : Providers \cup {NoProvider},
     correlatedEvidenceCount : counts]

NoStatus == [ready |-> "none", reason |-> "", conditionGeneration |-> 0,
             observedGeneration |-> 0, resolvedFlowProvider |-> NoProvider,
             correlatedEvidenceCount |-> 0]

\* The condition always carries the generation of the copy it was computed from.
setCondition(status, generation, ready, reason) ==
    [status EXCEPT !.ready = ready, !.reason = reason, !.conditionGeneration = generation]

\* What one reconcile concluded: the Ready status and reason to write, and
\* when to come back.
Reconciled               == [ready |-> "True", reason |-> "Reconciled", requeue |-> "ResyncInterval"]
NotReady(reason, requeue) == [ready |-> "False", reason |-> reason, requeue |-> requeue]

Decisions == [ready : {"True", "False"}, reason : Reasons, requeue : Cadences]

-----------------------------------------------------------------------------
(* The pause gate. *)

\* What a Get of the singleton PlatformConfig yields.
PlatformConfigReads ==
    [found : {"notFound", "error"}, paused : {TRUE}, flowProvider : {NoProvider}]
       \cup [found : {"found"}, paused : BOOLEAN, flowProvider : Providers \cup {NoProvider}]

PlatformConfigMissing    == [found |-> "notFound", paused |-> TRUE, flowProvider |-> NoProvider]
PlatformConfigUnreadable == [found |-> "error", paused |-> TRUE, flowProvider |-> NoProvider]

\* Every way of not being sure the switch is off resolves to paused.
checkPauseGate(pc) ==
    [Paused |-> pc.found # "found" \/ pc.paused,
     Reason |-> CASE pc.found = "notFound" -> "PlatformConfigMissing"
                  [] pc.found = "error"    -> "PlatformConfigUnreadable"
                  [] pc.found = "found" /\ pc.paused -> "Paused"
                  [] OTHER -> "",
     FlowProvider |-> pc.flowProvider]
=============================================================================
