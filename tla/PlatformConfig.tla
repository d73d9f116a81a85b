---------------------------- MODULE PlatformConfig ----------------------------
(***************************************************************************)
(* The PlatformConfig controller (platformconfig_controller.go): it pushes *)
(* spec.paused of the singleton at the control plane's persisted kill      *)
(* switch, reads provider health back and reports both in status.          *)
(*                                                                         *)
(* The worker is one goroutine; one action is one of its steps between two *)
(* points where another system can be seen, as in PolicyController.  Of a  *)
(* resourceVersion only "the worker's copy is the stored version" is kept  *)
(* (w.fresh).  Whatever is not the regular course of events draws on the   *)
(* budget of disturbances.                                                 *)
(***************************************************************************)
EXTENDS BackendClient, ProviderHealth, Sequences, FiniteSets

CONSTANTS
    Names,               \* the names a PlatformConfig can have
    NoName,              \* no name: the worker is idle; or no singleton is configured
    PlatformConfigName,  \* the singleton this operator answers to
    HealthReports,       \* what the control plane can report of its providers
    SwitchFaults,        \* wire answers a disturbed control plane gives to a push
    HealthFaults,        \* wire answers it gives to a health read
    SwitchStart,         \* where the kill switch can stand at first
    StartConfigured,     \* may the operator start with (TRUE), without (FALSE) a connection?
    Outsiders,           \* does anybody else flip the kill switch?
    LateCalls,           \* may a push the client gave up on be served later?
    WatchGaps,           \* may the informer lose its watch and list again?
    MaxDisturbances      \* how many disturbances a behaviour has

ASSUME NamesAssumption == NoName \notin Names /\ PlatformConfigName \in Names \cup {NoName}
ASSUME ReportsAssumption ==
    /\ HealthReports \subseteq Seq(ReportedProviders)
    /\ \A wire \in HealthFaults :
          wire.body.shape = "health" => wire.body.Providers \in Seq(ReportedProviders)
ASSUME FlagsAssumption ==
    /\ SwitchStart \subseteq BOOLEAN
    /\ StartConfigured \subseteq BOOLEAN
    /\ Outsiders \in BOOLEAN
    /\ LateCalls \in BOOLEAN
    /\ WatchGaps \in BOOLEAN
ASSUME MaxDisturbancesAssumption == MaxDisturbances \in Nat

VARIABLES
    log,           \* per name: its stored versions, from the one the informer cache holds to the current one
    queue,         \* keys in the workqueue
    delayed,       \* keys a timer or the rate limiter will put back
    w,             \* the worker
    configured,    \* was the client built by New (TRUE) or NewUnconfigured (FALSE)?
    serverPaused,  \* the control plane's persisted kill switch
    late,          \* values of pushes the client gave up on that are still under way
    asked,         \* (history) every value a singleton's spec has had
    budget         \* disturbances left

vars == <<log, queue, delayed, w, configured, serverPaused, late, asked, budget>>

-----------------------------------------------------------------------------
(* Objects, the cache and the worker's copy. *)

ReasonsOfConfig ==
    {"", "Reconciled", "NotTheConfiguredSingleton", "AwaitingConfiguration", "ReconcileFailed",
     "BackendUnreachable", "WriteNotVerified", "ProviderHealthUndetermined"}

\* The Ready condition with its reason, the ProviderHealthKnown condition,
\* observedGeneration and the entries.
ConfigStatuses ==
    [ready : {"none", "True", "False"}, reason : ReasonsOfConfig,
     healthKnown : {"none", "True", "False"}, observedGeneration : Nat,
     providerHealth : Seq(HealthEntries)]

NoConfigStatus == [ready |-> "none", reason |-> "", healthKnown |-> "none",
                   observedGeneration |-> 0, providerHealth |-> << >>]

Configs == [exists : {TRUE}, paused : BOOLEAN, generation : Nat, status : ConfigStatuses]

NoConfig == [exists |-> FALSE, paused |-> TRUE, generation |-> 0, status |-> NoConfigStatus]

Current(n) == log[n][Len(log[n])]
Cached(n)  == log[n][1]

\* Does the operator answer to the object of that name?
Governs(n) == PlatformConfigName = NoName \/ n = PlatformConfigName

Idle == [at |-> "idle", name |-> NoName, cr |-> NoConfig, fresh |-> FALSE]

Workers ==
    {Idle} \cup [at : {"setPaused", "providerHealth", "writeStatus"}, name : Names,
                 cr : Configs, fresh : BOOLEAN]

TypeOK ==
    /\ log \in [Names -> Seq(Configs \cup {NoConfig}) \ {<< >>}]
    /\ queue \subseteq Names
    /\ delayed \subseteq Names
    /\ w \in Workers
    /\ configured \in BOOLEAN
    /\ serverPaused \in BOOLEAN
    /\ late \subseteq BOOLEAN
    /\ asked \subseteq BOOLEAN
    /\ budget \in Nat

\* A control plane whose switch was never written defaults to paused; it may
\* also have been left as an earlier operator set it.
Init ==
    /\ log = [n \in Names |-> <<NoConfig>>]
    /\ queue = {}
    /\ delayed = {}
    /\ w = Idle
    /\ configured \in StartConfigured
    /\ serverPaused \in SwitchStart
    /\ late = {}
    /\ asked = {}
    /\ budget = MaxDisturbances

-----------------------------------------------------------------------------
(* Users, outsiders and the network. *)

Disturb == budget > 0 /\ budget' = budget - 1

\* Store a new version of n; the worker's copy of n is then out of date.
Store(n, cr) ==
    /\ log' = [log EXCEPT ![n] = Append(@, cr)]
    /\ w' = [w EXCEPT !.fresh = @ /\ w.name # n]
    /\ UNCHANGED <<queue, delayed, configured, serverPaused, late>>

Create(n) ==
    /\ Disturb
    /\ ~Current(n).exists
    /\ \E v \in BOOLEAN :
          /\ Store(n, [NoConfig EXCEPT !.exists = TRUE, !.paused = v, !.generation = 1])
          /\ asked' = IF Governs(n) THEN asked \cup {v} ELSE asked

\* An edit of spec.paused, or of spec.flowProvider alone: both bump the generation.
Edit(n) ==
    /\ Disturb
    /\ Current(n).exists
    /\ \E v \in BOOLEAN :
          /\ Store(n, [Current(n) EXCEPT !.paused = v, !.generation = @ + 1])
          /\ asked' = IF Governs(n) THEN asked \cup {v} ELSE asked

\* There is no finalizer, so a deleted object is gone.
Delete(n) ==
    /\ Disturb
    /\ Current(n).exists
    /\ Store(n, NoConfig)
    /\ UNCHANGED asked

\* Somebody sets the switch without going through the PlatformConfig.
Flip ==
    /\ Outsiders
    /\ Disturb
    /\ serverPaused' = ~serverPaused
    /\ UNCHANGED <<log, queue, delayed, w, configured, late, asked>>

\* A push the client gave up on is served after all.
LateService(v) ==
    /\ v \in late
    /\ late' = late \ {v}
    /\ serverPaused' = v
    /\ UNCHANGED <<log, queue, delayed, w, configured, asked, budget>>

-----------------------------------------------------------------------------
(* The controller runtime. *)

\* Mutant of Wakes: the watch has no GenerationChangedPredicate.
Wakes_Always(old, new) == TRUE

\* Does the event that takes the cache from old to new pass
\* GenerationChangedPredicate?  Creations and deletions do; an update does when
\* the generation differs.
Wakes(old, new) == old.exists # new.exists \/ old.generation # new.generation

\* Mutant of Deliver: a watch predicate drops what the operator does not answer to.
Deliver_NamePredicate(n, k) ==
    /\ log' = [log EXCEPT ![n] = SubSeq(@, k, Len(@))]
    /\ queue' = IF Governs(n) /\ Wakes(Cached(n), log[n][k]) THEN queue \cup {n} ELSE queue
    /\ UNCHANGED <<delayed, w, configured, serverPaused, late, asked>>

\* The cache moves from its version of n to the k-th one, in a single event.
Deliver(n, k) ==
    /\ log' = [log EXCEPT ![n] = SubSeq(@, k, Len(@))]
    /\ queue' = IF Wakes(Cached(n), log[n][k]) THEN queue \cup {n} ELSE queue
    /\ UNCHANGED <<delayed, w, configured, serverPaused, late, asked>>

\* The informer delivers the next version.
Observe(n) == Len(log[n]) > 1 /\ Deliver(n, 2) /\ UNCHANGED budget

\* The watch was lost; the list that follows skips versions, and a deletion and
\* a creation in the gap arrive as one update.
Relist(n) == WatchGaps /\ Disturb /\ \E k \in 3..Len(log[n]) : Deliver(n, k)

\* A requeue timer or a backoff expires.
Fire(n) ==
    /\ n \in delayed
    /\ delayed' = delayed \ {n}
    /\ queue' = queue \cup {n}
    /\ UNCHANGED <<log, w, configured, serverPaused, late, asked, budget>>

\* The manager stops at any point and a new one starts, with or without a
\* connection; every listed object is queued.  The new cache is not older than
\* the lost one, and what it skips is what Observe would have delivered before.
\* A push under way was served before or never is (LateCalls has those that time
\* out).
Restart ==
    /\ Disturb
    /\ configured' \in StartConfigured
    /\ queue' = {n \in Names : Cached(n).exists}
    /\ delayed' = {}
    /\ w' = Idle
    /\ UNCHANGED <<log, serverPaused, late, asked>>

-----------------------------------------------------------------------------
(* The worker. *)

\* Mutant of ReturnAndComeBack: the copy of one pass survives into the next.
ReturnAndComeBack_KeepsCopy == w' = [w EXCEPT !.at = "idle"] /\ delayed' = delayed \cup {w.name}

\* A reconcile returns: with RequeueAfter or an error ...
ReturnAndComeBack == w' = Idle /\ delayed' = delayed \cup {w.name}

\* ... or with ctrl.Result{} and no error.
ReturnForGood == w' = Idle /\ UNCHANGED delayed

\* The copy's status is set and Status().Update is what is left to do.
ToWriteStatus(status) == w' = [w EXCEPT !.at = "writeStatus", !.cr.status = status]

\* observedGeneration, the entries and ProviderHealthKnown are left alone.
notReady(status, reason) == [status EXCEPT !.ready = "False", !.reason = reason]

pauseErrorReason(err) ==
    CASE IsUnconfigured(err) -> "AwaitingConfiguration"
      [] IsAPIError(err)     -> "ReconcileFailed"
      [] OTHER               -> "BackendUnreachable"

healthErrorReason(err) ==
    CASE IsUnconfigured(err) -> "AwaitingConfiguration"
      [] IsAPIError(err)     -> "ProviderHealthUndetermined"
      [] OTHER               -> "BackendUnreachable"

\* Mutant of Get: the reconciler does not know which name it answers to.
Get_AnyName(n) ==
    /\ w.at = "idle" /\ n \in queue
    /\ queue' = queue \ {n}
    /\ w' = IF Cached(n).exists
            THEN [at |-> "setPaused", name |-> n, cr |-> Cached(n), fresh |-> Len(log[n]) = 1]
            ELSE Idle
    /\ UNCHANGED <<log, delayed, configured, serverPaused, late, asked, budget>>

\* Take n from the workqueue and read it from the cache.  Only the singleton
\* goes on; another object is told that it governs nothing.
Get(n) ==
    /\ w.at = "idle" /\ n \in queue
    /\ queue' = queue \ {n}
    /\ LET cr == Cached(n)
           copy == [at |-> "setPaused", name |-> n, cr |-> cr, fresh |-> Len(log[n]) = 1]
       IN \/ ~cr.exists /\ w' = Idle
          \/ cr.exists /\ Governs(n) /\ w' = copy
          \/ /\ cr.exists /\ ~Governs(n)
             /\ w' = [copy EXCEPT !.at = "writeStatus",
                                  !.cr.status = notReady(@, "NotTheConfiguredSingleton")]
    /\ UNCHANGED <<log, delayed, configured, serverPaused, late, asked, budget>>

\* The read fails with something else than NotFound.
GetFails(n) ==
    /\ Disturb
    /\ w.at = "idle" /\ n \in queue
    /\ queue' = queue \ {n}
    /\ delayed' = delayed \cup {n}
    /\ UNCHANGED <<log, w, configured, serverPaused, late, asked>>

PausedBody(v)         == [shape |-> "paused", Paused |-> v]
HealthBody(providers) == [shape |-> "health", Providers |-> providers]
Ok(body)              == [answered |-> TRUE, code |-> 200, body |-> body]

\* Client.SetPaused and Client.ProviderHealth: a 200 that decodes fills the
\* fields it has, the others keep Go's zero value.
setPausedReply(wire) ==
    [err |-> do(configured, wire).err,
     Paused |-> wire.body.shape = "paused" /\ wire.body.Paused]

providerHealthReply(wire) ==
    [err |-> do(configured, wire).err,
     Providers |-> IF wire.body.shape = "health" THEN wire.body.Providers ELSE << >>]

\* One PUT of the switch, which nothing gates.  A disturbed control plane has
\* done it or not, and what a 200 says of the switch is where it stands.
Push(v, wire) ==
    \/ wire = Ok(PausedBody(v)) /\ serverPaused' = v /\ UNCHANGED <<late, budget>>
    \/ /\ Disturb
       /\ wire \in SwitchFaults
       /\ \/ serverPaused' \in {v, serverPaused} /\ UNCHANGED late
          \/ LateCalls /\ ~wire.answered /\ late' = late \cup {v} /\ UNCHANGED serverPaused
       /\ wire.body.shape = "paused" => wire.body.Paused = serverPaused'

\* Mutant of AfterSetPaused: a 200 is enough, whatever it says of the switch.
AfterSetPaused_TrustsStatus(reply) ==
    \/ reply.err # NoError /\ ToWriteStatus(notReady(w.cr.status, pauseErrorReason(reply.err)))
    \/ reply.err = NoError /\ w' = [w EXCEPT !.at = "providerHealth"]

AfterSetPaused(reply) ==
    \/ reply.err # NoError /\ ToWriteStatus(notReady(w.cr.status, pauseErrorReason(reply.err)))
    \/ /\ reply.err = NoError /\ reply.Paused # w.cr.paused
       /\ ToWriteStatus(notReady(w.cr.status, "WriteNotVerified"))
    \/ /\ reply.err = NoError /\ reply.Paused = w.cr.paused
       /\ w' = [w EXCEPT !.at = "providerHealth"]

NotAnswered == [answered |-> FALSE, code |-> 200, body |-> [shape |-> "opaque", key |-> ""]]

SetPaused ==
    /\ w.at = "setPaused"
    /\ \/ /\ configured
          /\ \E wire \in {Ok(PausedBody(w.cr.paused))} \cup SwitchFaults :
                Push(w.cr.paused, wire) /\ AfterSetPaused(setPausedReply(wire))
       \/ /\ ~configured
          /\ AfterSetPaused(setPausedReply(NotAnswered))
          /\ UNCHANGED <<serverPaused, late, budget>>
    /\ UNCHANGED <<log, queue, delayed, configured, asked>>

\* Mutant of AfterProviderHealth: a failed read empties the list.
AfterProviderHealth_Clears(reply) ==
    LET health == splitProviderHealth(reply.Providers)
    IN \/ /\ reply.err # NoError
          /\ ToWriteStatus(notReady([w.cr.status EXCEPT !.healthKnown = "False",
                                                        !.providerHealth = << >>],
                                    healthErrorReason(reply.err)))
       \/ /\ reply.err = NoError
          /\ ToWriteStatus([ready |-> "True", reason |-> "Reconciled",
                            healthKnown |-> IF health.undetermined = {} THEN "True" ELSE "False",
                            observedGeneration |-> w.cr.generation,
                            providerHealth |-> health.entries])

AfterProviderHealth(reply) ==
    LET health == splitProviderHealth(reply.Providers)
    IN \/ /\ reply.err # NoError
          /\ ToWriteStatus(notReady([w.cr.status EXCEPT !.healthKnown = "False"],
                                    healthErrorReason(reply.err)))
       \/ /\ reply.err = NoError
          /\ ToWriteStatus([ready |-> "True", reason |-> "Reconciled",
                            healthKnown |-> IF health.undetermined = {} THEN "True" ELSE "False",
                            observedGeneration |-> w.cr.generation,
                            providerHealth |-> health.entries])

\* The health read changes nothing at the control plane.
ProviderHealthRead ==
    /\ w.at = "providerHealth"
    /\ \/ \E report \in HealthReports :
             AfterProviderHealth(providerHealthReply(Ok(HealthBody(report)))) /\ UNCHANGED budget
       \/ Disturb /\ \E wire \in HealthFaults : AfterProviderHealth(providerHealthReply(wire))
    /\ UNCHANGED <<log, queue, delayed, configured, serverPaused, late, asked>>

\* Mutant of WriteStatus: notReady records the condition and returns no error.
WriteStatus_SwallowsError ==
    /\ w.at = "writeStatus"
    /\ \/ w.fresh /\ log' = [log EXCEPT ![w.name] = Append(@, w.cr)]
       \/ ~w.fresh /\ UNCHANGED log
    /\ IF w.fresh /\ w.cr.status.ready = "False" THEN ReturnForGood ELSE ReturnAndComeBack
    /\ UNCHANGED <<queue, configured, serverPaused, late, asked, budget>>

\* Mutant of WriteStatus: a confirmed pass asks for no health poll.
WriteStatus_NoPoll ==
    /\ w.at = "writeStatus"
    /\ \/ w.fresh /\ log' = [log EXCEPT ![w.name] = Append(@, w.cr)]
       \/ ~w.fresh /\ UNCHANGED log
    /\ IF w.fresh /\ w.cr.status.ready = "True" THEN ReturnForGood ELSE ReturnAndComeBack
    /\ UNCHANGED <<queue, configured, serverPaused, late, asked, budget>>

\* Mutant of WriteStatus: the status is patched onto whatever object has the name.
WriteStatus_Unconditional ==
    /\ w.at = "writeStatus"
    /\ \/ /\ Current(w.name).exists
          /\ log' = [log EXCEPT ![w.name] = Append(@, [Current(w.name) EXCEPT !.status = w.cr.status])]
       \/ ~Current(w.name).exists /\ UNCHANGED log
    /\ IF w.fresh /\ w.cr.status.reason = "NotTheConfiguredSingleton"
       THEN ReturnForGood ELSE ReturnAndComeBack
    /\ UNCHANGED <<queue, configured, serverPaused, late, asked, budget>>

\* Status().Update, accepted only while the copy is fresh.  It makes a new
\* version even when the model sees no difference (observedAt, a message), or
\* none when nothing differs.  All that does not come back is the object that
\* was told that it governs nothing.
WriteStatus ==
    /\ w.at = "writeStatus"
    /\ \/ w.fresh /\ log' = [log EXCEPT ![w.name] = Append(@, w.cr)]
       \/ (w.cr = Current(w.name) \/ ~w.fresh) /\ UNCHANGED log
    /\ IF w.fresh /\ w.cr.status.reason = "NotTheConfiguredSingleton"
       THEN ReturnForGood ELSE ReturnAndComeBack
    /\ UNCHANGED <<queue, configured, serverPaused, late, asked, budget>>

\* The update is reported as failed: it was not applied, or its reply was lost.
WriteStatusFails ==
    /\ Disturb
    /\ w.at = "writeStatus"
    /\ \/ UNCHANGED log
       \/ w.fresh /\ log' = [log EXCEPT ![w.name] = Append(@, w.cr)]
    /\ ReturnAndComeBack
    /\ UNCHANGED <<queue, configured, serverPaused, late, asked>>

-----------------------------------------------------------------------------

User == (\E n \in Names : Create(n) \/ Edit(n) \/ Delete(n)) \/ Flip

ControllerRuntime == \E n \in Names : Observe(n) \/ Relist(n) \/ Fire(n)

Worker ==
    \/ \E n \in Names : Get(n) \/ GetFails(n)
    \/ SetPaused \/ ProviderHealthRead \/ WriteStatus \/ WriteStatusFails

Next ==
    \/ User
    \/ ControllerRuntime
    \/ Restart
    \/ Worker
    \/ \E v \in BOOLEAN : LateService(v)

Spec == Init /\ [][Next]_vars

\* As in PolicyController: informers deliver, timers fire, calls are bounded and
\* the queue is FIFO; nothing is assumed of users, outsiders, late pushes and
\* faults.
Fairness ==
    /\ \A n \in Names : WF_vars(Observe(n)) /\ WF_vars(Fire(n)) /\ SF_vars(Get(n))
    /\ WF_vars(SetPaused) /\ WF_vars(ProviderHealthRead) /\ WF_vars(WriteStatus)

FairSpec == Spec /\ Fairness

\* The same without any promise that a timer ever fires.
UntimedSpec ==
    /\ Spec
    /\ \A n \in Names : WF_vars(Observe(n)) /\ SF_vars(Get(n))
    /\ WF_vars(SetPaused) /\ WF_vars(ProviderHealthRead) /\ WF_vars(WriteStatus)

-----------------------------------------------------------------------------
(* Safety. *)

\* Ready=True for the generation a reader looks at means that the kill switch
\* stands where this spec wants it (platformconfig_controller.go:127-128),
\* although the push was made from a cached copy some steps before.
ReadyFor(cr) == cr.exists /\ cr.status.ready = "True" /\ cr.status.observedGeneration = cr.generation
ReadyMeansSwitchMatches ==
    \A n \in Names : Governs(n) /\ ReadyFor(Current(n)) => serverPaused = Current(n).paused

\* Whatever is created, deleted, recreated or restarted, the operator moves the
\* switch only to a value some singleton's spec has asked for: no other object,
\* no missing one and no default ever unpauses the control plane
\* (platformconfig_controller.go:24-27 and 36-43).
OnlyTheSingletonsWord ==
    [][serverPaused' # serverPaused => Flip \/ serverPaused' \in asked]_vars

\* Something always leads back to the singleton, on every exit of a pass and
\* although an event can be dropped by the predicate: the poll is what repairs
\* the switch (platformconfig_controller.go:72 and 143).
Due(n) == n \in queue \cup delayed \cup {w.name}
SingletonAlwaysDue == \A n \in Names : Governs(n) /\ Cached(n).exists => Due(n)

\* No PlatformConfig sits in the cluster with an empty status and no
\* explanation (platformconfig_controller.go:58-63).
NoSilentConfig ==
    \A n \in Names : Cached(n).exists /\ Len(log[n]) = 1 /\ Cached(n).status.ready = "none" => Due(n)

\* The entries change only with a completed health read of a confirmed pass,
\* and ProviderHealthKnown then says whether one of them is Unknown: no failure
\* fabricates or erases a verdict (platformconfig_controller.go:88-125).
SomeUnknown(status) ==
    \E n \in DOMAIN status.providerHealth : status.providerHealth[n].Health = "Unknown"
HealthOnlyFromRead ==
    [][\A n \in Names :
            LET old == Current(n)
                new == Current(n)'
            IN old.exists /\ new.exists /\ new.status.providerHealth # old.status.providerHealth
               => /\ ReadyFor(new)
                  /\ new.status.healthKnown = IF SomeUnknown(new.status) THEN "False" ELSE "True"]_vars

-----------------------------------------------------------------------------
(* Liveness. *)

\* Once the singleton stays as it is, the switch follows it for good, whatever
\* was flipped, timed out, served late or restarted before.
SwitchFollowsSpec ==
    \A n \in Names, v \in BOOLEAN : Governs(n) =>
        (<>[](Current(n).exists /\ Current(n).paused = v /\ configured)
            => <>[](serverPaused = v /\ ReadyFor(Current(n))))

\* The controller does not wake itself: unless timers keep firing it comes to
\* rest, although every pass writes status and the object is watched
\* (platformconfig_controller.go:286-299).
OnlyTimersWake ==
    []<><<\E n \in Names : Fire(n)>>_vars \/ <>[](queue = {} /\ w = Idle)

-----------------------------------------------------------------------------
(* Refinement: the controller implements a kill switch that only its        *)
(* owner's word moves.                                                      *)

owner == Current(PlatformConfigName)

Switch == INSTANCE KillSwitch WITH
    wish    <- IF owner.exists THEN {owner.paused} ELSE {},
    words   <- asked,
    claimed <- ReadyFor(owner),
    flag    <- serverPaused

\* Every behaviour is one of KillSwitch.
KeepsWord == Switch!Spec
=============================================================================
