------------------------------- MODULE MCAnswers -------------------------------
(***************************************************************************)
(* The reconcilers' decisions, the two policy kinds compared with each     *)
(* other and with what the contract says each wire answer means, over      *)
(* every answer of BackendClient; and status.providerHealth against what   *)
(* the control plane reported, over every answer about at most             *)
(* MaxProviders providers.  The state is the last answer of either call    *)
(* and the client it reached.                                              *)
(***************************************************************************)
EXTENDS SegmentationPolicy, RuntimeSecurityPolicy, ProviderHealth, Sequences

CONSTANTS
    MaxProviders    \* how many providers an answer speaks of at most

VARIABLES
    wire,       \* what came over the wire for the last reconcile or close call
    configured, \* was the client built by New?
    providers   \* the providers of the last decoded health answer

vars == <<wire, configured, providers>>

ProviderAnswers == UNION {[1..n -> ReportedProviders] : n \in 0..MaxProviders}

Init == wire \in WireAnswers /\ configured \in BOOLEAN /\ providers = <<>>

\* Any call can be answered in any way, by a client of either making.
NextAnswer == wire' \in WireAnswers /\ UNCHANGED <<configured, providers>>
NewClient  == configured' = ~configured /\ UNCHANGED <<wire, providers>>

\* Nothing decided on a policy depends on the health answer: it is enough to
\* look at health answers beside one other answer.
NextHealth ==
    /\ wire = CHOOSE first \in WireAnswers : TRUE
    /\ configured
    /\ providers' \in IF providers = <<>> THEN ProviderAnswers ELSE {<<>>}
    /\ UNCHANGED <<wire, configured>>

Next == (providers = <<>> /\ (NextAnswer \/ NewClient)) \/ NextHealth
Spec == Init /\ [][Next]_vars

reply        == do(configured, wire)
segmentation == segmentationReconcileDecision(reply)
runtime      == runtimeReconcileDecision(reply)
entries      == splitProviderHealth(providers).entries

-----------------------------------------------------------------------------

\* What the contract calls a confirmation, read off the wire answer alone.
Confirmed ==
    /\ configured /\ wire.answered /\ wire.code \in 200..299
    /\ wire.body.shape = "result" /\ wire.body.Status = "ok" /\ ~wire.body.Unverified
Converged == Confirmed /\ wire.body.EdgesUpserted = wire.body.MatchedWorkloads

\* No path through client, error classes and result checks ends in Ready=True
\* or in a released object unless the wire answer itself confirms it; only the
\* unconfigured client releases without one (common.go:36-39,
\* segmentationpolicy_controller.go:135-146 and 230-282, and their twins).
NothingConcludedFromLess ==
    /\ segmentation.ready = "True" <=> Converged
    /\ runtime.ready = "True" <=> Converged /\ wire.body.ProviderInstalled = "true"
    /\ segmentationReleases(reply) <=> Confirmed \/ ~configured
    /\ runtimeReleases(reply) <=> Confirmed \/ ~configured

\* The two files answer alike, kept apart as they are, except for what only the
\* runtime provider can explain: a 503, provider_unavailable, or a 200 that
\* does not say the provider is installed.
KindsDifferOnProviderOnly ==
    /\ segmentationHold(reply) = runtimeHold(reply)
    /\ segmentation # runtime =>
          \/ IsProviderUnavailable(reply.err)
          \/ reply.err = NoError /\ reply.res.ProviderInstalled # "true"

\* A reason that only a human can clear is never retried at the error
\* backoff's pace, and every other failure is (common.go:74-96).
WaitsForHumans == {"Paused", "AwaitingConfiguration", "ProviderUnavailable"}
OnlyHumansAreAwaitedSlowly ==
    \A decision \in {segmentation, runtime} :
        decision.ready = "False" =>
            (decision.reason \in WaitsForHumans <=> decision.requeue # "backoff")

\* The list is complete, and a verdict is only passed on, never made up:
\* "checked" without a verdict and a verdict without "checked" are Unknown, and
\* exactly these are counted as undetermined (client.go:300-319,
\* platformconfig_controller.go:107-125).
VerdictsArePassedOn ==
    /\ DOMAIN entries = DOMAIN providers
    /\ \A n \in DOMAIN entries :
          /\ entries[n].Health = "True"  <=> providers[n].Checked /\ providers[n].Healthy = "true"
          /\ entries[n].Health = "False" <=> providers[n].Checked /\ providers[n].Healthy = "false"
    /\ splitProviderHealth(providers).undetermined = {n \in DOMAIN entries : entries[n].Health = "Unknown"}

\* An entry without a verdict says why, and one with a verdict leaves
\* LastQueryError empty exactly when the provider is healthy and the control
\* plane reported neither a query error nor a blocker
\* (platformconfig_controller.go:157-163 and 188-209).  That is less than the
\* API type asks for (platformconfig_types.go:62-69): Unknown comes without a
\* LastQueryError and False without a Reason.  Nor is all that was reported
\* passed on: query error and blockers of a provider without a verdict reach no
\* entry, and the message of one with a verdict only stands in for the query
\* error an unhealthy provider lacks.
NoTextMeansNoTrouble ==
    \A n \in DOMAIN entries :
        /\ entries[n].Health = "Unknown" => entries[n].Reason # ""
        /\ entries[n].Health # "Unknown" =>
              (entries[n].LastQueryError = {} <=>
                  entries[n].Health = "True" /\ ~providers[n].LastQueryError /\ ~providers[n].Blockers)
=============================================================================
