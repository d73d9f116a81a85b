------------------------ MODULE RuntimeSecurityPolicy ------------------------
(***************************************************************************)
(* internal/controller/runtimesecuritypolicy_controller.go: what the       *)
(* RuntimeSecurityPolicy reconciler concludes from the answer to its call. *)
(* Kept apart from SegmentationPolicy as the two Go files are; MCAnswers   *)
(* compares the two.                                                       *)
(***************************************************************************)
EXTENDS BackendClient, Common

\* A 200 that does not evidence a converged write; an absent or false
\* provider_installed is not a confirmation either.
inconsistentRuntimeResult(res) ==
    \/ res.Status # "ok"
    \/ res.ProviderInstalled # "true"
    \/ res.Unverified
    \/ res.EdgesUpserted # res.MatchedWorkloads

\* Mutant of runtimeReconcileError: a missing provider is retried like an error.
runtimeReconcileError_BacksOff(err) ==
    CASE IsUnconfigured(err) -> NotReady("AwaitingConfiguration", "UnconfiguredRequeue")
      [] IsPaused(err)       -> NotReady("Paused", "PausedRequeue")
      [] IsProviderUnavailable(err) /\ ~IsPaused(err) -> NotReady("ProviderUnavailable", "backoff")
      [] IsAPIError(err) /\ ~IsPaused(err) /\ ~IsProviderUnavailable(err)
            -> NotReady(IF IsWriteNotVerified(err) THEN "WriteNotVerified" ELSE "ReconcileFailed",
                        "backoff")
      [] OTHER -> NotReady("BackendUnreachable", "backoff")

runtimeReconcileError(err) ==
    CASE IsUnconfigured(err) -> NotReady("AwaitingConfiguration", "UnconfiguredRequeue")
      [] IsPaused(err)       -> NotReady("Paused", "PausedRequeue")
      [] IsProviderUnavailable(err) /\ ~IsPaused(err)
            -> NotReady("ProviderUnavailable", "PausedRequeue")
      [] IsAPIError(err) /\ ~IsPaused(err) /\ ~IsProviderUnavailable(err)
            -> NotReady(IF IsWriteNotVerified(err) THEN "WriteNotVerified" ELSE "ReconcileFailed",
                        "backoff")
      [] OTHER -> NotReady("BackendUnreachable", "backoff")

\* The whole tail of Reconcile after ReconcileRuntimeSecurityPolicy returned.
runtimeReconcileDecision(reply) ==
    CASE reply.err # NoError -> runtimeReconcileError(reply.err)
      [] reply.err = NoError /\ inconsistentRuntimeResult(reply.res)
            -> NotReady("WriteNotVerified", "backoff")
      [] OTHER -> Reconciled

\* The fields only a confirmed reconcile may write: the evidence count is the
\* number of edges that verifiably landed.
runtimeSuccessStatus(status, generation, res) ==
    setCondition([status EXCEPT !.correlatedEvidenceCount = res.EdgesUpserted,
                                !.observedGeneration = generation],
                 generation, "True", "Reconciled")

\* Mutant of runtimeNotReady: an unavailable provider counts as zero evidence.
runtimeNotReady_ZeroesEvidence(status, generation, reason) ==
    setCondition([status EXCEPT !.correlatedEvidenceCount =
                    IF reason = "ProviderUnavailable" THEN 0 ELSE @],
                 generation, "False", reason)

\* A failure rewrites the condition and nothing else: the evidence count and
\* observedGeneration keep what the last confirmed reconcile wrote.
runtimeNotReady(status, generation, reason) ==
    setCondition(status, generation, "False", reason)

\* Mutant of runtimeReleases: unverified edge keys do not hold the object.
runtimeReleases_TrustsStatus(reply) ==
    \/ IsUnconfigured(reply.err)
    \/ reply.err = NoError /\ reply.res.Status = "ok"

\* finalize: may the finalizer go?
runtimeReleases(reply) ==
    \/ IsUnconfigured(reply.err)
    \/ reply.err = NoError /\ reply.res.Status = "ok" /\ ~reply.res.Unverified

\* finalize: how it holds the object when the finalizer may not go.
runtimeHold(reply) ==
    IF IsPaused(reply.err) THEN NotReady("Paused", "PausedRequeue")
                           ELSE NotReady("EdgeCloseFailed", "backoff")
=============================================================================
