-------------------------- MODULE SegmentationPolicy --------------------------
(***************************************************************************)
(* internal/controller/segmentationpolicy_controller.go: what the          *)
(* SegmentationPolicy reconciler concludes from the answer to its call.    *)
(* The order of its steps is in PolicyController.                          *)
(***************************************************************************)
EXTENDS BackendClient, Common

\* Mutant of inconsistentSegmentationResult: unverified edges are not looked at.
inconsistentSegmentationResult_TrustsServer(res) ==
    \/ res.Status # "ok"
    \/ res.EdgesUpserted # res.MatchedWorkloads

\* A 200 that does not evidence a converged write.
inconsistentSegmentationResult(res) ==
    \/ res.Status # "ok"
    \/ res.Unverified
    \/ res.EdgesUpserted # res.MatchedWorkloads

\* Mutant of segmentationReconcileError: write_not_verified is not told apart.
segmentationReconcileError_ForgetsVerification(err) ==
    CASE IsUnconfigured(err) -> NotReady("AwaitingConfiguration", "UnconfiguredRequeue")
      [] IsPaused(err)       -> NotReady("Paused", "PausedRequeue")
      [] IsAPIError(err) /\ ~IsPaused(err) -> NotReady("ReconcileFailed", "backoff")
      [] OTHER -> NotReady("BackendUnreachable", "backoff")

segmentationReconcileError(err) ==
    CASE IsUnconfigured(err) -> NotReady("AwaitingConfiguration", "UnconfiguredRequeue")
      [] IsPaused(err)       -> NotReady("Paused", "PausedRequeue")
      [] IsAPIError(err) /\ ~IsPaused(err)
            -> NotReady(IF IsWriteNotVerified(err) THEN "WriteNotVerified" ELSE "ReconcileFailed",
                        "backoff")
      [] OTHER -> NotReady("BackendUnreachable", "backoff")

\* The whole tail of Reconcile after ReconcileSegmentationPolicy returned.
segmentationReconcileDecision(reply) ==
    CASE reply.err # NoError -> segmentationReconcileError(reply.err)
      [] reply.err = NoError /\ inconsistentSegmentationResult(reply.res)
            -> NotReady("WriteNotVerified", "backoff")
      [] OTHER -> Reconciled

\* The fields only a confirmed reconcile may write: the provider is the spec's,
\* or else the cluster default the gate read.
segmentationSuccessStatus(status, generation, providerRef, gateProvider) ==
    setCondition([status EXCEPT
                    !.resolvedFlowProvider = IF providerRef = NoProvider THEN gateProvider ELSE providerRef,
                    !.observedGeneration = generation],
                 generation, "True", "Reconciled")

\* A failure rewrites the condition and nothing else; observedGeneration keeps
\* what the last confirmed reconcile wrote.
segmentationNotReady(status, generation, reason) ==
    setCondition(status, generation, "False", reason)

\* Mutant of segmentationReleases: a paused control plane releases the object.
segmentationReleases_WhilePaused(reply) ==
    \/ IsUnconfigured(reply.err) \/ IsPaused(reply.err)
    \/ reply.err = NoError /\ reply.res.Status = "ok" /\ ~reply.res.Unverified

\* finalize: may the finalizer go?
segmentationReleases(reply) ==
    \/ IsUnconfigured(reply.err)
    \/ reply.err = NoError /\ reply.res.Status = "ok" /\ ~reply.res.Unverified

\* finalize: how it holds the object when the finalizer may not go.
segmentationHold(reply) ==
    IF IsPaused(reply.err) THEN NotReady("Paused", "PausedRequeue")
                           ELSE NotReady("EdgeCloseFailed", "backoff")
=============================================================================
