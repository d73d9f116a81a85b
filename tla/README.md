# Verification of the K8Boss operator

TLA+ models, TLC runs and TLAPS proofs kept beside the operator's Go code. The
operator translates three Kubernetes custom resources (CRs) into calls to the
K8Boss control plane, which writes the edges of its Knowledge Graph. The hard
question is always the same: what may be concluded, stored or released when a
cache is stale, a call fails half-way, a switch is flipped or the process dies.

## 1. Inventory

| Component | Code | State | Operations | Correct when |
|---|---|---|---|---|
| Backend client | `internal/backendclient/client.go` | base URL and token, or the list of missing settings; fixed for the process | reconcile ×2, close, set/get paused, provider health, all through `do` | an error is never read as a success; error classes mean what their callers take them for |
| Pause gate, conditions | `internal/controller/common.go` | none | `checkPauseGate`, `setCondition` | paused unless the switch is known to be off |
| SegmentationPolicy controller | `segmentationpolicy_controller.go` | the CR's finalizer and status (in the API server) | `Reconcile`, `finalize` | no open edges without a finalizer; Ready only for the confirmed, current spec; deletions end; intent converges |
| RuntimeSecurityPolicy controller | `runtimesecuritypolicy_controller.go` | the same, and `correlatedEvidenceCount` | `Reconcile`, `finalize` | the same; unknown evidence is never turned into a count |
| PlatformConfig controller | `platformconfig_controller.go` | status of the singleton; pushes the control plane's kill switch | `Reconcile` | only the singleton drives the switch; Ready means switch and spec agree; unknown health is never unhealthy |
| Manager | `cmd/main.go` | configured or not, leader or not | start, leader election | an unconfigured or superseded manager mutates nothing |
| Preflight | `internal/preflight/preflight.go` | a lazily built discovery client, shared by concurrent probes | `Check` | ready only when confirmed in this very probe; bounded |
| API types, manifests | `api/`, `config/`, `bundle/` | – | – | declarative or generated, not modelled |

The three reconcilers share one backend client and one informer cache and
interact only through shared state: the PlatformConfig object (gate), the
control plane's persisted kill switch, and the CRs themselves. The API server
guards every write with the object's `resourceVersion`; controller-runtime
delivers events, serialises the reconciles of one key and re-queues what a
reconcile returns. The control plane is external and described by the contract
the client relies on: calls are idempotent, a 200 that confirms was done, a 423
did nothing, everything else says nothing.

What is hard here (`hazards` in `PROJECT.json`, with lines): a reconcile acts on
a cached copy and makes up to four remote calls, between any two of which users,
switches, the network and restarts may act; writes can be applied with the reply
lost; every one of a dozen exits must lead back to the CR or owe it nothing.

## 2. Modules

| Module | Models | Remarks |
|---|---|---|
| `BackendClient` | what one wire answer becomes for the caller (`do`, `parseAPIError`, `Is…`) | operators only |
| `Common` | reasons, cadences, `setCondition`, `checkPauseGate` | operators only |
| `SegmentationPolicy`, `RuntimeSecurityPolicy` | what each reconciler concludes from a reply: Ready or not, reason, cadence, release or hold | operators only, two modules like the two Go files |
| `PolicyController` | one policy controller (chosen by `Kind`) with cache, queue, timers, worker, restarts, and its environment | state machine |
| `CREdges` | abstract specification: what the finalizer promises | implemented by `PolicyController` |
| `PolicyControllerProofs`, `PolicyStatusProofs` | theorems about `PolicyController` | TLAPS |
| `ProviderHealth` | `splitProviderHealth`: what a health answer becomes in status | operators only |
| `PlatformConfig` | the PlatformConfig controller with cache, queue, predicate, worker, restarts and the control plane's kill switch | state machine |
| `KillSwitch` | abstract specification: what `spec.paused` promises about the kill switch | implemented by `PlatformConfig` |
| `Operator` | `PolicyController` and `PlatformConfig` in one manager, meeting in the PlatformConfig object and in the kill switch | composition by two `INSTANCE`s |
| `LeaderFailover` | several managers, their lease and their caches around one SegmentationPolicy | state machine |
| `Preflight` | overlapping readiness probes | state machine |
| `MCPolicyController`, `MCAnswers`, `MCPlatformConfig`, `MCOperator` | values and instances for TLC | |
| `PlatformConfigProofs`, `OperatorProofs`, `LeaderFailoverProofs`, `PreflightProofs`, `AnswersProofs` | theorems about the module of that name (`AnswersProofs`: `MCAnswers`) | TLAPS |

### How `PolicyController` corresponds to the code

| Variable | Stands for |
|---|---|
| `log[p]` | the stored versions of a CR from the one the informer cache holds (first) to the current one (last) |
| `queue`, `delayed` | workqueue; `RequeueAfter` timers and rate-limited retries |
| `w` | the worker: the step it is about to take, its key, its copy of the CR, whether that copy still has the stored `resourceVersion`, the gate's flow provider |
| `configured` | client built by `New` or by `NewUnconfigured` |
| `platformConfig` | outcome of the gate's cached `Get` |
| `serverPaused`, `graph`, `late` | control plane: kill switch, intent and number of open edges per CR, requests under way that the client gave up on |
| `workloads` | how many workloads the CR's selector matches |
| `budget` | disturbances left (see bounds) |

| Action | Code |
|---|---|
| `Get`, `GetFails` | `r.Get` and the branch on the deletion timestamp; `finalize`'s first test |
| `CheckPauseGate` | `checkPauseGate`; to `notReady`, `AddFinalizer` or the call |
| `AddFinalizer` | `controllerutil.AddFinalizer` and `r.Update`; a conflict returns |
| `ReconcileCall` | the client call with `do`, then `reconcileError` / `inconsistent…Result` / success fields |
| `CloseCall` | the close call, then unconfigured release / hold / release |
| `WriteStatus` | `r.Status().Update`, on every path that sets a condition; the reconcile returns |
| `RemoveFinalizer` | `RemoveFinalizer` and `r.Update`; the reconcile returns |
| `UpdateFails` | any of those updates reported as failed, applied or not |
| `Observe`, `Fire`, `Restart` | informer event, timer, manager restart |
| `Exchange`, `LateService` | control plane and network |

A step of the worker ends where another system can be seen. Setting a condition
in memory and deciding from an answer are therefore part of the call's action,
and the write of the status is an action of its own because anything may happen
before it.

Abstractions: a spec is a model value, `toWireSpec` included; condition
messages, transition times and logs are left out; a `resourceVersion` is reduced
to whether the copy is fresh; durations are reduced to "comes back" (the pace of
each decision is checked in `MCAnswers`). The worker of one controller is a
single goroutine since `MaxConcurrentReconciles` is not set. Nobody removes the
operator's finalizer by hand.

### How `PlatformConfig` corresponds to the code

`log`, `queue`, `delayed`, `w`, `configured` and `late` are as above, per name of
a PlatformConfig; `serverPaused` is the control plane's persisted switch, and
`asked` is a history variable: every value a singleton's spec has had.

| Action | Code |
|---|---|
| `Get`, `GetFails` | `r.Get`; the singleton goes on, another name to `setNotSingleton` |
| `SetPaused` | the PUT, `pauseErrorReason`, the read-back test |
| `ProviderHealthRead` | the GET, `healthErrorReason`, `splitProviderHealth`, both conditions |
| `WriteStatus`, `WriteStatusFails` | `r.Status().Update`; returns an error, the poll interval or nothing |
| `Observe`, `Relist` | an event, filtered by `GenerationChangedPredicate` (`Wakes`); a relist skips versions |
| `Flip`, `LateService` | somebody else sets the switch; a push that timed out is served |

The reply to a push has the fields a decoded body fills, the others at Go's zero
value: that is how `{}` becomes `paused=false`.

### The other state machines

`Operator` has no actions of its own but `Restart`: each step is a step of one
of the two instances with the other's variables unchanged. The policy
controller's `platformConfig` is substituted by what its gate reads of the
PlatformConfig controller's cache (`GateRead`), and both share `serverPaused`,
`configured` and the budget. Requests of both controllers that time out may be
served later (`LateRequests`, `LatePushes`) and somebody else may move the
switch (`Outsiders`). The history variable `overtaken` records whether either of
the last two has moved it since the last push that was confirmed. Left out of
the composition are lost watches (`WatchGaps`), lost settings (`ConfigLoss`) and
objects guarded before the operator came (`Foreign`).

`LeaderFailover` reduces the policy controller to what a failover can hurt: the
object's history, one position in it per manager's cache, and the reconcile's
steps with their resourceVersion checks. A new leader may start from a cache
older than its predecessor's, and a leader goes on for a while after its lease
has expired. The history variable `orderly` records whether neither has happened
so far: every leader was the only one and had caught up.

`Preflight` has one action per step of `Check` between two points where another
probe or the world can be seen; `c.Discovery`, an interface of two words that
no lock guards, can be seen half written. Time is counted per probe.

## 3. Properties and runs

| Run | Shows |
|---|---|
| `segmentation_safety` | `NoOrphanedEdges`, `ReadyMeansApplied`, `NothingForgotten`, `OperatorRevertsNobody`, the refinement `KeepsPromise`, and the inductive invariant `IInv` of the proof |
| `segmentation_liveness` | `DeletionCompletes`, `Converges`, `NeverUnpausedNeverBlocks`, with lost configurations and late requests |
| `runtime_policies` | `ReadyMeansApplied`, `EvidenceOnlyFromConfirmation`, `KeepsPromise`, `DeletionCompletes`, `Converges` for the other kind, with two policies on one worker, edits between their two specs and an unreadable PlatformConfig |
| `answers` | every wire answer: Ready and release from confirmations only, the two reconcilers agree, paces; every health answer about up to two providers: `VerdictsArePassedOn`, `NoTextMeansNoTrouble` |
| `config_safety` | `ReadyMeansSwitchMatches`, `OnlyTheSingletonsWord`, `NoSilentConfig`, `HealthOnlyFromRead`, the refinement `KeepsWord`, and `OnlyTimersWake`: the controller, which writes the object it watches, does not wake itself |
| `config_liveness` | `SingletonAlwaysDue`, `SwitchFollowsSpec`, with outsiders, late pushes and lost watches |
| `operator` | `ConfirmedPauseHolds`: a confirmed pause freezes the graph, late reconcile and close requests included, until an older push or somebody else moves the switch; `UnpausingIsEnough` for policies to reach the graph and for deletions to end |
| `failover` | while leaders are orderly: `NoOrphanedEdgesInOrder`, `ReadyMeansAppliedInOrder`; in any case: `Heals` |
| `probes` | `ReadyIsConfirmed`, `AbsenceIsConfirmed`, `EveryProbeEnds` |
| `config_loss`, `stale_leader`, `silent_config` | expect a violation: disagreements between code and comments, see below |

### Bounds

`MaxDisturbances` bounds the *number* of things that go out of the regular
course in a behaviour: user actions, flips of either switch, failing reads,
updates and calls, restarts, drift. Regular steps (events, timers, reconciles,
calls that are answered as they should) are not bounded, so the runs explore
complete behaviours. Four are enough for the scenarios behind the hazards:
create, edit, fault or restart or flip, delete, in any order and at any
interleaving with the worker; each mutant in `PROJECT.json` is found with them.
Two specs are enough to tell "this spec" from "an older one", two counts to tell
zero from non-zero and a mismatch from agreement. One CR suffices for safety
because CRs share nothing but the queue and the worker; `runtime_policies` has
two and is about that sharing, with three disturbances, and starts with one
workload for each, which may go away. `Faults` holds one
representative for each class of answer the client or the reconcilers tell
apart, while `MCAnswers` goes through all of them with three counts. The four
outcomes of the gate's read are divided between the policy runs. Generations are
bounded by the budget.

`PlatformConfig` has the singleton and one other name: names that are not the
singleton's share nothing but the worker. Its health reports are one with and
one without an undetermined provider; `MCAnswers` goes through all of them, and
two providers suffice because an entry depends on its provider only. `Operator`
is the largest instance: a behaviour starts either with nothing or with both
objects created and seen, the singleton unpaused or paused since (`WrittenInit`,
which `Init` leads to by users and the informer alone), and has one disturbance
on top, an edit, a deletion, a fault, a flip of the switch or a restart. That is
enough for both exceptions of `ConfirmedPauseHolds`: a push that times out is
such a fault, and without `~overtaken` TLC finds it served after the pause was
confirmed (14 states), and an outsider's flip (11 states). Not reached with one disturbance:
the deletion of a policy that has edges, held by a pause that is lifted later;
`DeletionCompletes` has that for the policy controller alone. `LeaderFailover` has two managers with leader election on, the case of
a rolling update, two specs and three disturbances: a creation and any two of
edit, deletion, crash, expiry and failing call; a third manager would be another
one with an old cache. `Preflight` has two probes, the least that can race, and
two changes of the world; the timeouts are 1 and 2, which keeps their order (5 s
and the discovery client's 32 s). Deadlock checking
is off in the state-machine runs: with no CR and no budget left nothing has to
happen.

### Fairness

`Observe` and `Fire` are weakly fair: informers deliver and timers fire. The
steps of a reconcile are weakly fair: each call is bounded (30 s in the HTTP
client). `Get(p)` is strongly fair: the workqueue is FIFO, so a key in it is
taken in the end although the worker is busy in between. Nothing is assumed of
users, switches or faults; that disturbances are finite in number is the bound
above and stands for "once things stay quiet". `DeletionCompletes` asks only that
the control plane does not stay paused, `Converges` that both switches stay off
and the CR stays.

`PlatformConfig` has the same fairness; `UntimedSpec` leaves `Fire` out of it:
`OnlyTimersWake` asks what happens when no timer
ever fires. In `Operator` the two workers are separate goroutines, each with its
own fairness. `LeaderFailover` adds that pods are kept up (`Start`), that
somebody takes a free lease, and that a leader without one ends (`GiveUp`:
`mgr.Start` returns an error). In `Preflight` a goroutine that can go on goes on
and time passes; nothing is assumed of the servers.

### Where code and comments disagree

Three are shown by a run that expects the violation:

- `config_loss`: a restart that loses the connection settings (the Secret is
  optional in the manifest) makes the operator release deleted CRs with open
  edges. The comment infers "never configured" from "not configured now".
- `stale_leader`: a new leader with an older cache re-opens the edges of a policy
  that its predecessor closed and released; no write comes before the call.
- `silent_config`: a second PlatformConfig deleted and created again while the
  watch is down arrives as one update of equal generation, is dropped by the
  predicate and gets no explanation.

Others were met while modelling and are not kept as runs:

- a request the client timed out on (`client.go:36`) can be served after the CR
  was closed and released (`LateCalls` in `PolicyController`), and a late push
  after a newer one was confirmed (`LateCalls` in `PlatformConfig`): Ready then
  stands next to the opposite switch until the next poll;
- a leader whose lease expired finishes its call, which is conditioned on
  nothing, after its successor has confirmed a newer spec (`Expire`);
- with the gate closed, the default, an unconfigured operator does not report
  `AwaitingConfiguration` on a policy CR as `main.go:135` says;
- a 503 for a missing operator token is reported as a missing Tetragon
  (`client.go:139`), an undecodable 200 as "never reached"
  (`segmentationpolicy_controller.go:199`);
- a 200 without the field `paused` confirms every unpause (`client.go:291`); the
  runs have no such answer and the theorems exclude it (`SwitchAnswersSpeak`);
- `platformconfig_types.go:62-63` and `67-69` ask for a `lastQueryError` unless
  health is True and for a `reason` for both Unknown and False:
  `splitProviderHealth` gives an Unknown entry no `lastQueryError`
  (lines 156-177) and a False one no `reason`. Query error and blockers of an
  undetermined provider reach no field, nor does a message next to a query error
  (193-197). `NoTextMeansNoTrouble` says what does hold;
- a policy's condition quotes transport errors, which can name an ephemeral port,
  so failing passes can write ever new versions and wake their own controller
  past the backoff (`segmentationpolicy_controller.go:201` and `324`);
- `finalize` closes edges while `spec.paused` is set but not yet pushed, and with
  the control plane paused a running operator does not release what is deleted
  (`Makefile:96-99`);
- discovery is not bounded by the probe's timeout, and `preflight.go:14` denies
  the degrade-to-ready path that `checkBackend` has on purpose at line 187;
- `Makefile:106` says that the operator crash-loops without `K8BOSS_CLUSTER_ID`,
  `main.go:95-107` explains why it does not any more.

The safety runs and the proof of `NoOrphanedEdges` therefore exclude
configuration loss (`ConfigLoss = FALSE`) and late service (`LateCalls = FALSE`);
`segmentation_liveness` has both: even then deletions complete and the resync
repairs what a late request wrote over newer intent of a CR that stays.
Likewise `config_safety` excludes late pushes, outsiders and lost watches, which
`config_liveness` has, and the safety properties of `failover` end where leaders
are no longer orderly, while `Heals` does not: the operator's guarantee against
these is that it heals, not that nothing happens. `operator` on the other hand
keeps late reconcile and close requests: a confirmed pause is enforced by the
control plane, also against them. It is not safe from a late push: an unpause
that timed out (`client.go:36` and `435`) and is served after a newer pause was
confirmed opens the switch under a Ready PlatformConfig, and a deletion or a late
request then changes edges. `ConfirmedPauseHolds` therefore ends where the switch
is moved after the confirmation, and begins again with the next confirmed push.

A crash drops the request under way in every module: it was served before or
never is. Only a client that gives up in time leaves a request that is served
later (`LateCalls`, `LateRequests`, `LatePushes`), and `LeaderFailover` has none
of those.

## 4. Proofs

Every invariant and every action property that a passing run checks, and both
refinements, are theorems for every value of the constants: any sets of
policies, names, specs, providers, probes and managers, any faults the modules'
assumptions allow and any number of disturbances. The theorems are about the
same `Spec` as the runs. Each inductive invariant was checked by TLC as an
invariant of a run before it was proved.

| Theorem | States | Assumes |
|---|---|---|
| `PolicyControllerProofs!TypeCorrect` | `[]TypeOK` | – |
| `PolicyControllerProofs!Inductive`, `NoOrphans` | `[]IInv`, `[]NoOrphanedEdges` | `~ConfigLoss`, `~LateCalls` |
| `PolicyStatusProofs!ReadyIsApplied` | `[]ReadyMeansApplied` | `~LateCalls` |
| `PolicyStatusProofs!NobodyIsForgotten` | `[]NothingForgotten` | – |
| `PolicyStatusProofs!NobodyIsReverted` | `OperatorRevertsNobody` | – |
| `PolicyStatusProofs!EvidenceIsConfirmed` | `EvidenceOnlyFromConfirmation` | – |
| `PolicyStatusProofs!PromiseIsKept` | `KeepsPromise`: implements `CREdges` | `~ConfigLoss`, `~LateCalls` |
| `PlatformConfigProofs!TypeCorrect` | `[]TypeOK` | – |
| `PlatformConfigProofs!SingletonIsDue` | `[]SingletonAlwaysDue` | – |
| `PlatformConfigProofs!NobodyIsSilent` | `[]NoSilentConfig` | `~WatchGaps` |
| `PlatformConfigProofs!SingletonsWordAlone` | `OnlyTheSingletonsWord` | – |
| `PlatformConfigProofs!VerdictsOnlyFromReads` | `HealthOnlyFromRead` | – |
| `PlatformConfigProofs!ReadyIsTrue` | `[]ReadyMeansSwitchMatches` | `~Outsiders`, `~LateCalls`, a singleton's name, `SwitchAnswersSpeak` |
| `PlatformConfigProofs!OwnersWordIsKept` | `KeepsWord`: implements `KillSwitch` | the same |
| `OperatorProofs!PauseFreezesTheGraph` | `ConfirmedPauseHolds`, with late requests, late pushes and outsiders | `SwitchAnswersSpeak` |
| `LeaderFailoverProofs!TypeCorrect` | `[]TypeOK` | – |
| `LeaderFailoverProofs!FailoverLeavesNoOrphans`, `FailoverKeepsReadyTrue` | `[]NoOrphanedEdgesInOrder`, `[]ReadyMeansAppliedInOrder` | `LeaderElect` |
| `PreflightProofs!TypeCorrect`, `ReadyIsSeen`, `AbsenceIsSeen` | `[]TypeOK`, `[]ReadyIsConfirmed`, `[]AbsenceIsConfirmed` | – |
| `AnswersProofs!OnlyConfirmationsCount`, `TwinsAnswerAlike`, `PaceIsRight` | `[]NothingConcludedFromLess`, `[]KindsDifferOnProviderOnly`, `[]OnlyHumansAreAwaitedSlowly` | – |
| `AnswersProofs!VerdictsAreTheirs`, `SilenceMeansHealth` | `[]VerdictsArePassedOn`, `[]NoTextMeansNoTrouble` | – |

The assumptions are the model's switches for behaviour the code does not
exclude, and the theorem fails without them: `~ConfigLoss`, `~LateCalls`,
`~Outsiders` and `~WatchGaps` by the counterexamples of section 3.
`LeaderElect`: without it two managers work at once although neither was ever
superseded. `SwitchAnswersSpeak` says that every 200 to a push carries the field
`paused`; without it an empty object confirms an unpause (`client.go:435-445`).
An empty `PlatformConfigName` makes every PlatformConfig a singleton, and two of
them can each be Ready for a different value. In the modules themselves, two
assumptions were added because proofs needed them: there is a required resource
(`preflight.go:56-61` lists three; with none "confirmed missing" could be said of
nothing), and a health report is a sequence of providers.

### The arguments

**`NoOrphanedEdges`** (`IInv`) is not inductive by itself. Between the `Get` of a
copy and the call that may write edges there is no write when the copy already
carries the finalizer, so nothing stops a worker with a stale copy. What saves
it: any version from which the worker can get to the call without a write
(`Callable`: finalizer, not deleted) can only be in the cache while the stored
object is guarded, because the finalizer is removed last, by an update that
requires the worker's copy to be the stored version, and that copy was read from
the cache with nothing pending behind it (`StaleVersionsGuarded`, `FreshCopy`,
`CopyGuarded`). The finalizer goes only after a confirmed close, with no write in
between (`ClosedBeforeRelease`), or unconfigured, and then nothing was ever
written (`UnconfiguredWroteNothing`, where `~ConfigLoss` is needed). `late = {}`
is where `~LateCalls` is needed.

**Status of a policy.** `CopyInv`: a copy that can still be written is the
current version but for a status about to be written, and every version left in
the cache has its intent (`CopyIsCurrent`); no version claims a later generation
than its own (`ObservedInThePast`). With `CopyFits` and what `AppliedInv` adds
it gives `ReadyMeansApplied`: once the current version is Ready for its
generation, neither the cache nor the worker holds another spec, so that no
older request can be made any more. TLC checked `CopyInv` with late requests and
lost configurations (494,112 states) and `AppliedInv` on `segmentation_safety`
(1,813,212) and `runtime_policies` (427,220). `NothingForgotten` is inductive
with `TypeOK`. `PromiseIsKept` goes through the life of an object as `CREdges` sees
it: each version the worker or a user stores is one of its moves, and `PromiseInv`
makes the move legal: `IInv`, `CopyInv`, that open edges have an intent, and that
no copy older than a guarded object's current life is still being finalized
(`OldTerminates`).

**PlatformConfig.** `DueInv` strengthens the two "somebody comes back" properties
by what the predicate may drop: only updates that bring a status
(`DroppedUpdatesSpeak`), because every status that is written says something
(`WrittenStatusSpeaks`). `AskedInv`: every
`paused` in the cache, in the worker's copy or in a late push was asked for once.
`SwitchInv` is behind `ReadyIsTrue`. Its first part, `CopyInv`, is about the
worker and its copy and holds whoever moves the switch; the second,
`SwitchMatches`, needs the switch to stay where it was put: the worker's push was confirmed from there
to the write of Ready (`PushedBeforeReady`), only a singleton gets that far, and
once the current version is Ready no version with another word is left in the
cache or in the worker (`ReadyIsOld`), since a copy that could be written back was
the only version the informer had to show (`FreshCopy`). All were checked on
851,804 states.

**Operator.** `OperatorProofs` instantiates `PlatformConfigProofs` with the
composition's variables. It shows that the PlatformConfig controller's steps in
the composition are steps of that module, and that the policy controller's steps
leave the invariant alone. `OvertakenInv` is `CopyInv` always and
`SwitchMatches` while the switch is not `overtaken`: a late push or an outsider
costs the second, and the next confirmed push gives it back, since it sets the
switch to the word of the copy that every other part is about. So the switch is
on while a confirmed pause is not overtaken; then no exchange and no late request
is served. Checked on the 449,762 states of `operator`.

**LeaderFailover.** `FailoverInv` carries the single-manager argument across
managers: `LiveStaysGuarded` is `StaleVersionsGuarded` over the common history
from `seen` on, and in order the one leader's cache shows exactly `seen`. `CopiesInOrder` says what every
worker's copy then is, `FreshIsSettled` is `ReadyIsOld`. Checked on 106,102
states with leader election and 440,734 without.

**Preflight.** A probe's facts contain, from its first step to its last, all that
is the case (`SeesTheWorld`), and one that asks the control plane has seen the
CRDs served (`DiscoveryDone`); so what it concludes is among its facts, whatever
another probe did to the shared client.

**Answers.** The decision tables and `splitProviderHealth` are proved for any
counts and any number of providers by the few kinds of answer there are.

Each proof has lemmas for appending to and dropping versions of `log`, lemmas
for what a step moves, one step per action, and below it one per conjunct that
the action can disturb.

### Only model-checked

The liveness properties, since fairness and ENABLED are out of TLAPS's reach:
`DeletionCompletes`, `Converges`, `NeverUnpausedNeverBlocks`,
`SwitchFollowsSpec`, `OnlyTimersWake` (that it is eventually quiet or timers keep
firing), `UnpausingIsEnough`, `Heals`, `EveryProbeEnds`. And the three expected
violations, which a proof cannot show.

## 5. Plan

The models of the plan are done, and so are the theorems about what they check.
What could still be proved:

1. the invariants of the policy controller in the composition, where the gate is
   the other controller's cache: `Operator` implies `NothingForgotten`,
   `OperatorRevertsNobody` and, without late requests, `NoOrphanedEdges`;
2. the safety half of liveness: after a close is confirmed and nothing disturbs
   any more, each step of the worker decreases what is left to be done;
3. `LeaderFailover` implements `CREdges` while leaders are orderly.

## 6. Not modelled

Message texts (but for what `ProviderHealth` tells apart), and with them which
status writes of the policy controllers make a new version; logging, metrics,
flag parsing, TLS and proxy settings, JSON encoding of requests, RBAC,
generated deepcopy code and manifests: none of them has state or a choice that a
property here is about. The two nil checks of a `Checker` built by hand are
unreachable from `main.go`. Renaming a PlatformConfig is a deletion and a
creation. A reconcile that runs longer than its lease is part of `Expire`, a
control plane that loses its own data is not modelled.

## 7. Running

`tlc -config SegmentationSafety.cfg MCPolicyController.tla` and so on with the
module and `.cfg` pairs of `PROJECT.json`; `tlapm X.tla` for each of the proof
modules.
