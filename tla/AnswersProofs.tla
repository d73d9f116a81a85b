----------------------------- MODULE AnswersProofs -----------------------------
(***************************************************************************)
(* Theorems about MCAnswers: what the reconcilers conclude from an answer, *)
(* whatever numbers it carries, and what status.providerHealth makes of an *)
(* answer about any number of providers.  The properties follow from the   *)
(* kinds of answer alone: an answer is one of four, and each decides       *)
(* alike.                                                                  *)
(***************************************************************************)
EXTENDS MCAnswers, TLAPS

\* What the client is given is an answer, and every provider in it is one.
AnswersInv ==
    /\ wire \in WireAnswers
    /\ configured \in BOOLEAN
    /\ \A n \in DOMAIN providers : providers[n] \in ReportedProviders

-----------------------------------------------------------------------------

LEMMA AnswersInit == Init => AnswersInv
  BY DEF Init, AnswersInv

LEMMA AnswersNext == AnswersInv /\ [Next]_vars => AnswersInv'
<1> SUFFICES ASSUME AnswersInv, [Next]_vars PROVE AnswersInv'
  OBVIOUS
<1>1. CASE NextAnswer
  BY <1>1 DEF NextAnswer, AnswersInv
<1>2. CASE NewClient
  BY <1>2 DEF NewClient, AnswersInv
<1>3. CASE NextHealth
  <2>1. providers' \in ProviderAnswers \cup {<<>>} /\ UNCHANGED <<wire, configured>>
    BY <1>3 DEF NextHealth
  <2>2. \A n \in DOMAIN providers' : providers'[n] \in ReportedProviders
    BY <2>1 DEF ProviderAnswers
  <2> QED
    BY <2>1, <2>2 DEF AnswersInv
<1>4. CASE UNCHANGED vars
  BY <1>4 DEF vars, AnswersInv
<1> QED
  BY <1>1, <1>2, <1>3, <1>4 DEF Next

LEMMA AnswersAlways == Spec => []AnswersInv
  BY AnswersInit, AnswersNext, PTL DEF Spec

-----------------------------------------------------------------------------
(* The kinds of answer. *)

\* The error of an exchange that came back with a status that is not 2xx.
Refusal == parseAPIError(wire.code, wire.body)

\* Nobody to ask, no answer that can be read, a refusal, or a decoded result.
LEMMA KindsOfReply ==
    ASSUME AnswersInv
    PROVE  \/ ~configured /\ reply = Failed(UnconfiguredError)
           \/ configured /\ ~Confirmed /\ reply = Failed(PlainError)
           \/ configured /\ ~Confirmed /\ reply = Failed(Refusal)
           \/ configured /\ ~Confirmed /\ reply = Decoded(ZeroResult)
           \/ configured /\ wire.answered /\ wire.code \in 200..299 /\ wire.body.shape = "result"
                /\ wire.body \in Results /\ reply = Decoded(wire.body)
<1>1. /\ wire.answered \in BOOLEAN /\ configured \in BOOLEAN
      /\ wire.body \in Results \cup ErrorBodies
  BY DEF AnswersInv, WireAnswers
<1>2. \A body \in ErrorBodies : body.shape \in {"structured", "plain", "opaque"}
  BY DEF ErrorBodies
<1>3. \A body \in Results : body.shape = "result"
  BY DEF Results
<1>4. CASE ~configured
  BY <1>4 DEF do, reply
<1>5. CASE configured /\ ~wire.answered
  BY <1>5 DEF do, reply, Confirmed
<1>6. CASE configured /\ wire.answered /\ wire.code \notin 200..299
  BY <1>6 DEF do, reply, Confirmed, Refusal
<1>7. CASE configured /\ wire.answered /\ wire.code \in 200..299
  BY <1>1, <1>2, <1>3, <1>7 DEF do, reply, Confirmed
<1> QED
  BY <1>1, <1>4, <1>5, <1>6, <1>7

\* The three errors are told apart, and none of them is nil.
LEMMA KindsOfError ==
    /\ UnconfiguredError # NoError /\ PlainError # NoError /\ Refusal # NoError
    /\ IsUnconfigured(UnconfiguredError) /\ ~IsAPIError(UnconfiguredError)
    /\ ~IsUnconfigured(PlainError) /\ ~IsAPIError(PlainError)
    /\ ~IsUnconfigured(Refusal) /\ IsAPIError(Refusal)
    /\ ~IsUnconfigured(NoError) /\ ~IsAPIError(NoError)
<1>1. /\ UnconfiguredError.type = "UnconfiguredError" /\ PlainError.type = "plain"
      /\ NoError.type = "nil"
  BY DEF UnconfiguredError, PlainError, NoError
<1>2. Refusal.type = "APIError"
  BY DEF Refusal, parseAPIError
<1> QED
  BY <1>1, <1>2 DEF IsUnconfigured, IsAPIError

\* What only a refusal can be.
LEMMA OnlyRefusals ==
    ASSUME NEW err, ~IsAPIError(err)
    PROVE  ~IsPaused(err) /\ ~IsProviderUnavailable(err) /\ ~IsWriteNotVerified(err)
  BY DEF IsPaused, IsProviderUnavailable, IsWriteNotVerified

\* Fields of a reply.
LEMMA ReplyFields ==
    /\ \A err : Failed(err).err = err /\ Failed(err).res = ZeroResult
    /\ \A res : Decoded(res).err = NoError /\ Decoded(res).res = res
  BY DEF Failed, Decoded

\* An object that has none of the result's fields says nothing is well.
LEMMA ZeroIsNoResult ==
    ZeroResult.Status = "other" /\ ZeroResult.ProviderInstalled = "absent"
  BY DEF ZeroResult

\* Fields of a decision.
LEMMA DecisionFields ==
    /\ Reconciled.ready = "True" /\ Reconciled.reason = "Reconciled"
    /\ Reconciled.requeue = "ResyncInterval"
    /\ \A reason, requeue : /\ NotReady(reason, requeue).ready = "False"
                            /\ NotReady(reason, requeue).reason = reason
                            /\ NotReady(reason, requeue).requeue = requeue
  BY DEF Reconciled, NotReady

-----------------------------------------------------------------------------
(* What each kind of answer decides. *)

\* No client: the object waits for somebody to configure one, or is released.
LEMMA UnconfiguredDecides ==
    ASSUME reply = Failed(UnconfiguredError)
    PROVE  /\ segmentation = NotReady("AwaitingConfiguration", "UnconfiguredRequeue")
           /\ runtime = segmentation
           /\ segmentationReleases(reply) /\ runtimeReleases(reply)
<1>1. reply.err = UnconfiguredError
  BY ReplyFields
<1>2. ~IsPaused(UnconfiguredError) /\ ~IsProviderUnavailable(UnconfiguredError)
  BY KindsOfError, OnlyRefusals
<1> QED
  BY <1>1, <1>2, KindsOfError
     DEF segmentation, runtime, segmentationReconcileDecision, runtimeReconcileDecision,
         segmentationReconcileError, runtimeReconcileError, segmentationReleases, runtimeReleases

\* No answer that can be read: retried, and the object is held.
LEMMA PlainDecides ==
    ASSUME reply = Failed(PlainError)
    PROVE  /\ segmentation = NotReady("BackendUnreachable", "backoff")
           /\ runtime = segmentation
           /\ ~segmentationReleases(reply) /\ ~runtimeReleases(reply)
<1>1. reply.err = PlainError
  BY ReplyFields
<1>2. ~IsPaused(PlainError) /\ ~IsProviderUnavailable(PlainError)
  BY KindsOfError, OnlyRefusals
<1> QED
  BY <1>1, <1>2, KindsOfError
     DEF segmentation, runtime, segmentationReconcileDecision, runtimeReconcileDecision,
         segmentationReconcileError, runtimeReconcileError, segmentationReleases, runtimeReleases

\* What a reconciler says of a refusal that is neither a pause nor about a provider.
Failure == IF IsWriteNotVerified(Refusal) THEN "WriteNotVerified" ELSE "ReconcileFailed"

\* A refusal: a pause and a missing provider wait, the rest is retried.
LEMMA RefusalDecides ==
    ASSUME reply = Failed(Refusal)
    PROVE  /\ segmentation = IF IsPaused(Refusal) THEN NotReady("Paused", "PausedRequeue")
                             ELSE NotReady(Failure, "backoff")
           /\ runtime = IF IsPaused(Refusal) THEN NotReady("Paused", "PausedRequeue")
                        ELSE IF IsProviderUnavailable(Refusal)
                        THEN NotReady("ProviderUnavailable", "PausedRequeue")
                        ELSE NotReady(Failure, "backoff")
           /\ ~segmentationReleases(reply) /\ ~runtimeReleases(reply)
<1>1. reply.err = Refusal
  BY ReplyFields
<1>2. segmentation = segmentationReconcileError(Refusal) /\ runtime = runtimeReconcileError(Refusal)
  BY <1>1, KindsOfError
     DEF segmentation, runtime, segmentationReconcileDecision, runtimeReconcileDecision
<1>3. segmentationReconcileError(Refusal) =
          IF IsPaused(Refusal) THEN NotReady("Paused", "PausedRequeue")
          ELSE NotReady(Failure, "backoff")
  BY KindsOfError DEF segmentationReconcileError, Failure
<1>4. runtimeReconcileError(Refusal) =
          IF IsPaused(Refusal) THEN NotReady("Paused", "PausedRequeue")
          ELSE IF IsProviderUnavailable(Refusal)
          THEN NotReady("ProviderUnavailable", "PausedRequeue")
          ELSE NotReady(Failure, "backoff")
  BY KindsOfError DEF runtimeReconcileError, Failure
<1>5. ~segmentationReleases(reply) /\ ~runtimeReleases(reply)
  BY <1>1, KindsOfError DEF segmentationReleases, runtimeReleases
<1> QED
  BY <1>2, <1>3, <1>4, <1>5

\* A decoded result: Ready exactly when it evidences a converged write, and
\* released exactly when nothing is left unverified.
LEMMA ResultDecides ==
    ASSUME NEW res, reply = Decoded(res)
    PROVE  /\ segmentation = IF inconsistentSegmentationResult(res)
                             THEN NotReady("WriteNotVerified", "backoff") ELSE Reconciled
           /\ runtime = IF inconsistentRuntimeResult(res)
                        THEN NotReady("WriteNotVerified", "backoff") ELSE Reconciled
           /\ segmentationReleases(reply) <=> res.Status = "ok" /\ ~res.Unverified
           /\ runtimeReleases(reply) <=> res.Status = "ok" /\ ~res.Unverified
<1>1. reply.err = NoError /\ reply.res = res
  BY ReplyFields
<1> QED
  BY <1>1, KindsOfError
     DEF segmentation, runtime, segmentationReconcileDecision, runtimeReconcileDecision,
         segmentationReleases, runtimeReleases

-----------------------------------------------------------------------------
(* The decisions on policies. *)

LEMMA NothingIsConcludedFromLess == ASSUME AnswersInv PROVE NothingConcludedFromLess
<1>1. CASE ~configured /\ reply = Failed(UnconfiguredError)
  BY <1>1, UnconfiguredDecides, DecisionFields DEF NothingConcludedFromLess, Converged, Confirmed
<1>2. CASE configured /\ ~Confirmed /\ reply = Failed(PlainError)
  BY <1>2, PlainDecides, DecisionFields DEF NothingConcludedFromLess, Converged
<1>3. CASE configured /\ ~Confirmed /\ reply = Failed(Refusal)
  <2>1. segmentation.ready = "False" /\ runtime.ready = "False"
    BY <1>3, RefusalDecides, DecisionFields
  <2> QED
    BY <2>1, <1>3, RefusalDecides DEF NothingConcludedFromLess, Converged
<1>4. CASE configured /\ ~Confirmed /\ reply = Decoded(ZeroResult)
  <2>1. inconsistentSegmentationResult(ZeroResult) /\ inconsistentRuntimeResult(ZeroResult)
    BY ZeroIsNoResult DEF inconsistentSegmentationResult, inconsistentRuntimeResult
  <2> QED
    BY <2>1, <1>4, ResultDecides, ZeroIsNoResult, DecisionFields
       DEF NothingConcludedFromLess, Converged
<1>5. CASE /\ configured /\ wire.answered /\ wire.code \in 200..299 /\ wire.body.shape = "result"
           /\ wire.body \in Results /\ reply = Decoded(wire.body)
  <2>1. Confirmed <=> wire.body.Status = "ok" /\ ~wire.body.Unverified
    BY <1>5 DEF Confirmed
  <2>2. segmentation.ready = "True" <=> ~inconsistentSegmentationResult(wire.body)
    BY <1>5, ResultDecides, DecisionFields
  <2>3. runtime.ready = "True" <=> ~inconsistentRuntimeResult(wire.body)
    BY <1>5, ResultDecides, DecisionFields
  <2>4. segmentation.ready = "True" <=> Converged
    BY <2>1, <2>2 DEF inconsistentSegmentationResult, Converged
  <2>5. runtime.ready = "True" <=> (Converged /\ wire.body.ProviderInstalled = "true")
    BY <2>1, <2>3 DEF inconsistentRuntimeResult, Converged
  <2>6. /\ segmentationReleases(reply) <=> (Confirmed \/ ~configured)
        /\ runtimeReleases(reply) <=> (Confirmed \/ ~configured)
    BY <2>1, <1>5, ResultDecides
  <2> QED
    BY <2>4, <2>5, <2>6 DEF NothingConcludedFromLess
<1> QED
  BY <1>1, <1>2, <1>3, <1>4, <1>5, KindsOfReply

LEMMA KindsAnswerAlike == ASSUME AnswersInv PROVE KindsDifferOnProviderOnly
<1>1. segmentationHold(reply) = runtimeHold(reply)
  BY DEF segmentationHold, runtimeHold
<1>2. CASE reply = Failed(UnconfiguredError) \/ reply = Failed(PlainError)
  BY <1>1, <1>2, UnconfiguredDecides, PlainDecides DEF KindsDifferOnProviderOnly
<1>3. CASE reply = Failed(Refusal)
  <2>1. reply.err = Refusal
    BY <1>3, ReplyFields
  <2> QED
    BY <1>1, <1>3, <2>1, RefusalDecides DEF KindsDifferOnProviderOnly
<1>4. ASSUME NEW res, reply = Decoded(res) PROVE KindsDifferOnProviderOnly
  <2>1. reply.err = NoError /\ reply.res = res
    BY <1>4, ReplyFields
  <2>2. res.ProviderInstalled = "true" =>
           (inconsistentSegmentationResult(res) <=> inconsistentRuntimeResult(res))
    BY DEF inconsistentSegmentationResult, inconsistentRuntimeResult
  <2> QED
    BY <1>1, <1>4, <2>1, <2>2, ResultDecides DEF KindsDifferOnProviderOnly
<1> QED
  BY <1>2, <1>3, <1>4, KindsOfReply

LEMMA HumansAreAwaited == ASSUME AnswersInv PROVE OnlyHumansAreAwaitedSlowly
<1> DEFINE Paced(decision) ==
              decision.ready = "False" =>
                 (decision.reason \in WaitsForHumans <=> decision.requeue # "backoff")
<1>1. /\ Paced(NotReady("AwaitingConfiguration", "UnconfiguredRequeue"))
      /\ Paced(NotReady("Paused", "PausedRequeue"))
      /\ Paced(NotReady("ProviderUnavailable", "PausedRequeue"))
      /\ Paced(NotReady("BackendUnreachable", "backoff"))
      /\ Paced(NotReady("WriteNotVerified", "backoff"))
      /\ Paced(NotReady("ReconcileFailed", "backoff"))
      /\ Paced(Reconciled)
  BY DecisionFields DEF WaitsForHumans
<1>2. Paced(NotReady(Failure, "backoff"))
  BY <1>1 DEF Failure
<1> HIDE DEF Paced
<1>3. CASE reply = Failed(UnconfiguredError) \/ reply = Failed(PlainError)
  <2> Paced(segmentation) /\ Paced(runtime)
    BY <1>1, <1>3, UnconfiguredDecides, PlainDecides
  <2> QED
    BY DEF OnlyHumansAreAwaitedSlowly, Paced
<1>4. CASE reply = Failed(Refusal)
  <2> Paced(segmentation) /\ Paced(runtime)
    BY <1>1, <1>2, <1>4, RefusalDecides
  <2> QED
    BY DEF OnlyHumansAreAwaitedSlowly, Paced
<1>5. ASSUME NEW res, reply = Decoded(res) PROVE OnlyHumansAreAwaitedSlowly
  <2> Paced(segmentation) /\ Paced(runtime)
    BY <1>1, <1>5, ResultDecides
  <2> QED
    BY DEF OnlyHumansAreAwaitedSlowly, Paced
<1> QED
  BY <1>3, <1>4, <1>5, KindsOfReply

-----------------------------------------------------------------------------
(* The health of the providers. *)

\* The entry of a provider, field by field.
LEMMA EntryFields ==
    ASSUME NEW p \in ReportedProviders
    PROVE  /\ healthEntry(p).Health = "True"  <=> p.Checked /\ p.Healthy = "true"
           /\ healthEntry(p).Health = "False" <=> p.Checked /\ p.Healthy = "false"
           /\ healthEntry(p).Health = "Unknown" <=> ~Determinate(p)
           /\ Determinate(p) => healthEntry(p).LastQueryError = lastQueryError(p)
           /\ ~Determinate(p) => healthEntry(p).Reason # ""
<1>1. p.Healthy \in {"nil", "true", "false"} /\ p.Checked \in BOOLEAN /\ p.Message \in BOOLEAN
  BY DEF ReportedProviders
<1>2. why(p) \in {"message", "unchecked", "no verdict"}
  BY <1>1 DEF why
<1> QED
  BY <1>1, <1>2 DEF healthEntry, Determinate

\* Only a healthy provider of which neither a query error nor a blocker was
\* reported gets no text.
LEMMA QueryErrorFields ==
    ASSUME NEW p \in ReportedProviders
    PROVE  lastQueryError(p) = {} <=> p.Healthy = "true" /\ ~p.LastQueryError /\ ~p.Blockers
<1>1. p.LastQueryError \in BOOLEAN /\ p.Message \in BOOLEAN
  BY DEF ReportedProviders
<1>2. CASE p.LastQueryError
  BY <1>2 DEF lastQueryError
<1>3. CASE ~p.LastQueryError /\ p.Healthy # "true" /\ p.Message
  BY <1>3 DEF lastQueryError
<1>4. CASE ~p.LastQueryError /\ p.Healthy # "true" /\ ~p.Message
  BY <1>4 DEF lastQueryError
<1>5. CASE ~p.LastQueryError /\ p.Healthy = "true"
  BY <1>5 DEF lastQueryError
<1> QED
  BY <1>1, <1>2, <1>3, <1>4, <1>5

\* Every provider gets its entry.
LEMMA EntryOfEach ==
    /\ DOMAIN entries = DOMAIN providers
    /\ \A n \in DOMAIN providers : entries[n] = healthEntry(providers[n])
    /\ splitProviderHealth(providers).undetermined =
          {n \in DOMAIN providers : ~Determinate(providers[n])}
  BY DEF entries, splitProviderHealth

LEMMA VerdictsArePassed == ASSUME AnswersInv PROVE VerdictsArePassedOn
<1>1. ASSUME NEW n \in DOMAIN providers
      PROVE  /\ entries[n].Health = "True"  <=> providers[n].Checked /\ providers[n].Healthy = "true"
             /\ entries[n].Health = "False" <=> providers[n].Checked /\ providers[n].Healthy = "false"
             /\ entries[n].Health = "Unknown" <=> ~Determinate(providers[n])
  <2>1. providers[n] \in ReportedProviders /\ entries[n] = healthEntry(providers[n])
    BY EntryOfEach DEF AnswersInv
  <2> QED
    BY <2>1, EntryFields
<1>2. DOMAIN entries = DOMAIN providers
  BY EntryOfEach
<1>3. {n \in DOMAIN entries : entries[n].Health = "Unknown"} =
         {n \in DOMAIN providers : ~Determinate(providers[n])}
  BY <1>1, <1>2
<1> QED
  BY <1>1, <1>2, <1>3, EntryOfEach DEF VerdictsArePassedOn

LEMMA SilentEntries == ASSUME AnswersInv PROVE NoTextMeansNoTrouble
<1> SUFFICES ASSUME NEW n \in DOMAIN entries
             PROVE  /\ entries[n].Health = "Unknown" => entries[n].Reason # ""
                    /\ entries[n].Health # "Unknown" =>
                          (entries[n].LastQueryError = {} <=>
                              /\ entries[n].Health = "True"
                              /\ ~providers[n].LastQueryError
                              /\ ~providers[n].Blockers)
  BY DEF NoTextMeansNoTrouble
<1>1. providers[n] \in ReportedProviders /\ entries[n] = healthEntry(providers[n])
  BY EntryOfEach DEF AnswersInv
<1>2. CASE ~Determinate(providers[n])
  BY <1>1, <1>2, EntryFields
<1>3. CASE Determinate(providers[n])
  <2>1. entries[n].LastQueryError = lastQueryError(providers[n])
    BY <1>1, <1>3, EntryFields
  <2>2. entries[n].Health = "True" <=> providers[n].Healthy = "true"
    BY <1>1, <1>3, EntryFields DEF Determinate
  <2> QED
    BY <1>1, <1>3, <2>1, <2>2, EntryFields, QueryErrorFields
<1> QED
  BY <1>2, <1>3

-----------------------------------------------------------------------------

\* Whatever numbers an answer carries: Ready=True and a released object come
\* from a wire answer that confirms them, or, for the release, from a client
\* nobody configured (common.go:36-39, segmentationpolicy_controller.go:135-146
\* and 230-282, and their twins).
THEOREM OnlyConfirmationsCount == Spec => []NothingConcludedFromLess
  BY AnswersAlways, NothingIsConcludedFromLess, PTL

\* The two files answer alike but for what only the runtime provider explains.
THEOREM TwinsAnswerAlike == Spec => []KindsDifferOnProviderOnly
  BY AnswersAlways, KindsAnswerAlike, PTL

\* Who waits for a human is not retried at the backoff's pace, and only he
\* (common.go:74-96).
THEOREM PaceIsRight == Spec => []OnlyHumansAreAwaitedSlowly
  BY AnswersAlways, HumansAreAwaited, PTL

\* For any number of providers, a verdict in status is the control plane's own,
\* and what has none is counted (client.go:300-319,
\* platformconfig_controller.go:107-125).
THEOREM VerdictsAreTheirs == Spec => []VerdictsArePassedOn
  BY AnswersAlways, VerdictsArePassed, PTL

\* For any number of providers: an entry without a verdict says why, and one with
\* a verdict leaves its LastQueryError empty exactly when the provider is healthy
\* and neither a query error nor a blocker was reported of it
\* (platformconfig_controller.go:157-163 and 188-209).
THEOREM SilenceMeansHealth == Spec => []NoTextMeansNoTrouble
  BY AnswersAlways, SilentEntries, PTL
=============================================================================
