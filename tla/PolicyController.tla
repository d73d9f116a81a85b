--------------------------- MODULE PolicyController ---------------------------
(***************************************************************************)
(* One policy controller of the operator (SegmentationPolicy or            *)
(* RuntimeSecurityPolicy, chosen by Kind) between two remote systems: the  *)
(* Kubernetes API server, whose objects it reads through an informer cache *)
(* that lags, and the K8Boss control plane, whose Knowledge Graph it asks  *)
(* to write and close the edges of each custom resource (CR).              *)
(*                                                                         *)
(* The worker is one goroutine (MaxConcurrentReconciles is left at 1); one *)
(* action is one of its steps between two points where another system can  *)
(* be seen: a Get, the gate's Get, an Update, an HTTP exchange, a status   *)
(* Update.  Everything else moves between those steps.                     *)
(*                                                                         *)
(* Abstractions.  A spec is a model value.  A resourceVersion is reduced   *)
(* to the one thing the code uses it for: does the worker's copy (w.cr)    *)
(* still have the version that is stored (w.fresh)?  Requeue timers and    *)
(* the rate limiter are a set of keys that will come back (delayed).  The  *)
(* actions of users, of the network and of the control plane that are not  *)
(* the regular course of events draw on one budget, MaxDisturbances.       *)
(***************************************************************************)
EXTENDS SegmentationPolicy, RuntimeSecurityPolicy, Sequences, FiniteSets

CONSTANTS
    Kind,             \* "SegmentationPolicy" or "RuntimeSecurityPolicy"
    Policies,         \* the names a CR of this kind can have
    NoPolicy,         \* no name: the worker is idle
    Specs,            \* the specs users write
    NoSpec,           \* no intent recorded in the graph
    ProviderRef,      \* the spec.providerRef of each spec
    PlatformConfigs,  \* what the gate's Get of the singleton can yield
    Foreign,          \* may a CR also carry another controller's finalizer?
    StartConfigured,  \* may the operator start with (TRUE), without (FALSE) a connection?
    Faults,           \* wire answers a disturbed control plane can give
    ConfigLoss,       \* may a restart lose the connection settings?
    LateCalls,        \* may a request the client gave up on be served later?
    MaxDisturbances   \* how many disturbances a behaviour has

ASSUME KindAssumption == Kind \in {"SegmentationPolicy", "RuntimeSecurityPolicy"}
ASSUME NamesAssumption == NoPolicy \notin Policies /\ NoSpec \notin Specs
ASSUME SpecsAssumption == ProviderRef \in [Specs -> Providers \cup {NoProvider}]
ASSUME ProvidersAssumption == NoProvider \notin Providers
ASSUME PlatformConfigsAssumption == PlatformConfigs \subseteq PlatformConfigReads
ASSUME FaultsAssumption == Faults \subseteq WireAnswers
ASSUME FlagsAssumption ==
    /\ Foreign \subseteq BOOLEAN
    /\ StartConfigured \subseteq BOOLEAN
    /\ ConfigLoss \in BOOLEAN
    /\ LateCalls \in BOOLEAN
ASSUME MaxDisturbancesAssumption == MaxDisturbances \in Nat

VARIABLES
    log,             \* per CR: its stored versions, from the one the informer cache holds to the current one
    queue,           \* keys in the workqueue
    delayed,         \* keys a timer or the rate limiter will put back
    w,               \* the worker
    configured,      \* was the client built by New (TRUE) or NewUnconfigured (FALSE)?
    platformConfig,  \* what the cache holds of the PlatformConfig singleton
    serverPaused,    \* the control plane's persisted kill switch
    workloads,       \* per CR: how many workloads its selector matches now
    graph,           \* per CR: the intent the Knowledge Graph holds and its open edges
    late,            \* requests the client gave up on that are still under way
    budget           \* disturbances left

cluster == <<log, platformConfig, workloads>>
manager == <<queue, delayed, w, configured>>
plane   == <<serverPaused, graph, late>>
vars    == <<log, queue, delayed, w, configured, platformConfig, serverPaused,
             workloads, graph, late, budget>>

-----------------------------------------------------------------------------
(* Objects, the cache and the worker's copy. *)

CRs ==
    [exists : {TRUE}, spec : Specs, generation : Nat, deleting : BOOLEAN,
     finalizer : BOOLEAN, foreign : BOOLEAN, status : Statuses(Counts)]

Absent == [exists |-> FALSE, spec |-> NoSpec, generation |-> 0, deleting |-> FALSE,
           finalizer |-> FALSE, foreign |-> FALSE, status |-> NoStatus]

Objects == CRs \cup {Absent}

Current(p) == log[p][Len(log[p])]
Cached(p)  == log[p][1]

\* A CR whose edges something is committed to close.
Guarded(p) == Current(p).exists /\ Current(p).finalizer

\* Nothing of the CR's intent is in the graph.
Closed == [spec |-> NoSpec, edges |-> 0]
IsOpen(p) == graph[p] # Closed

\* The API server drops an object that is being deleted and has no finalizer left.
Settled(cr) == IF cr.deleting /\ ~cr.finalizer /\ ~cr.foreign THEN Absent ELSE cr

\* Where the worker is: between two reconciles, or before the step named, with
\* its copy of the CR and the provider the gate read.
Steps == {"gate", "addFinalizer", "reconcileCall", "writeStatus", "closeCall", "removeFinalizer"}

Idle == [at |-> "idle", key |-> NoPolicy, cr |-> Absent, fresh |-> FALSE, provider |-> NoProvider]

Workers ==
    {Idle} \cup [at : Steps, key : Policies, cr : CRs, fresh : BOOLEAN,
                 provider : Providers \cup {NoProvider}]

\* A request the control plane may serve: NoSpec asks to close the CR's edges.
Requests == [key : Policies, spec : Specs \cup {NoSpec}]

TypeOK ==
    /\ log \in [Policies -> Seq(Objects) \ {<< >>}]
    /\ queue \subseteq Policies
    /\ delayed \subseteq Policies
    /\ w \in Workers
    /\ configured \in BOOLEAN
    /\ platformConfig \in PlatformConfigReads
    /\ serverPaused \in BOOLEAN
    /\ workloads \in [Policies -> Counts]
    /\ graph \in [Policies -> [spec : Specs \cup {NoSpec}, edges : Counts]]
    /\ late \subseteq Requests
    /\ budget \in Nat

Init ==
    /\ log = [p \in Policies |-> <<Absent>>]
    /\ queue = {}
    /\ delayed = {}
    /\ w = Idle
    /\ configured \in StartConfigured
    /\ platformConfig \in PlatformConfigs
    /\ serverPaused \in BOOLEAN
    /\ workloads \in [Policies -> Counts]
    /\ graph = [p \in Policies |-> Closed]
    /\ late = {}
    /\ budget = MaxDisturbances

-----------------------------------------------------------------------------
(* Users, other controllers and time. *)

Disturb == budget > 0 /\ budget' = budget - 1

\* Store a new version of p; the worker's copy of p is then out of date.
Store(p, cr) ==
    /\ log' = [log EXCEPT ![p] = Append(@, cr)]
    /\ w' = [w EXCEPT !.fresh = @ /\ w.key # p]

Create(p) ==
    /\ Disturb
    /\ ~Current(p).exists
    /\ \E s \in Specs, f \in Foreign :
          Store(p, [Absent EXCEPT !.exists = TRUE, !.spec = s, !.generation = 1, !.foreign = f])
    /\ UNCHANGED <<queue, delayed, configured, platformConfig, workloads, plane>>

Edit(p) ==
    /\ Disturb
    /\ Current(p).exists
    /\ \E s \in Specs \ {Current(p).spec} :
          Store(p, [Current(p) EXCEPT !.spec = s, !.generation = @ + 1])
    /\ UNCHANGED <<queue, delayed, configured, platformConfig, workloads, plane>>

\* Setting the deletion timestamp bumps the generation.
Delete(p) ==
    /\ Disturb
    /\ Current(p).exists /\ ~Current(p).deleting
    /\ Store(p, Settled([Current(p) EXCEPT !.deleting = TRUE, !.generation = @ + 1]))
    /\ UNCHANGED <<queue, delayed, configured, platformConfig, workloads, plane>>

ForeignRelease(p) ==
    /\ Disturb
    /\ Current(p).exists /\ Current(p).foreign
    /\ Store(p, Settled([Current(p) EXCEPT !.foreign = FALSE]))
    /\ UNCHANGED <<queue, delayed, configured, platformConfig, workloads, plane>>

\* The cached PlatformConfig changes, or cannot be read any more.
ChangePlatformConfig ==
    /\ Disturb
    /\ platformConfig' \in PlatformConfigs \ {platformConfig}
    /\ UNCHANGED <<manager, log, workloads, plane>>

\* Somebody flips the control plane's own switch.
ChangeServerPaused ==
    /\ Disturb
    /\ serverPaused' = ~serverPaused
    /\ UNCHANGED <<manager, cluster, graph, late>>

\* The workload set changes without a write to the CR.
ChangeWorkloads(p) ==
    /\ Disturb
    /\ \E n \in Counts \ {workloads[p]} : workloads' = [workloads EXCEPT ![p] = n]
    /\ UNCHANGED <<manager, log, platformConfig, plane>>

\* Edges are closed out of band.
EdgeDrift(p) ==
    /\ Disturb
    /\ graph[p].edges # 0
    /\ graph' = [graph EXCEPT ![p].edges = 0]
    /\ UNCHANGED <<manager, cluster, serverPaused, late>>

-----------------------------------------------------------------------------
(* The controller runtime. *)

\* The informer delivers the next version of p and enqueues its key.
Observe(p) ==
    /\ Len(log[p]) > 1
    /\ log' = [log EXCEPT ![p] = Tail(@)]
    /\ queue' = queue \cup {p}
    /\ UNCHANGED <<delayed, w, configured, platformConfig, workloads, plane, budget>>

\* A requeue timer or a backoff expires.
Fire(p) ==
    /\ p \in delayed
    /\ delayed' = delayed \ {p}
    /\ queue' = queue \cup {p}
    /\ UNCHANGED <<w, configured, cluster, plane, budget>>

\* What is left of p's versions when a prefix of them is skipped.
Suffixes(p) == {SubSeq(log[p], n, Len(log[p])) : n \in 1..Len(log[p])}

\* The manager stops at any point and a new one starts: queue, timers and the
\* reconcile under way are gone, every listed object is queued.  The new cache
\* is not older than the one that was lost.  A request under way at that moment
\* was served before or never is; only a client that gives up in time leaves one
\* that is served later (LateCalls).
Restart ==
    /\ Disturb
    /\ configured' \in (IF configured THEN {TRUE} \cup {~ConfigLoss} ELSE BOOLEAN)
    /\ \E listed \in [Policies -> UNION {Suffixes(p) : p \in Policies}] :
          /\ \A p \in Policies : listed[p] \in Suffixes(p)
          /\ log' = listed
          /\ queue' = {p \in Policies : listed[p][1].exists}
    /\ delayed' = {}
    /\ w' = Idle
    /\ UNCHANGED <<platformConfig, workloads, plane>>

-----------------------------------------------------------------------------
(* The worker. *)

\* Mutant of ReturnAndComeBack: the worker's key outlives the reconcile.
ReturnAndComeBack_KeepsKey ==
    /\ w' = [w EXCEPT !.at = "idle"]
    /\ delayed' = delayed \cup {w.key}

\* Mutant of ReturnAndComeBack: a paused reconcile asks for no requeue.
ReturnAndComeBack_ForgetsPause ==
    /\ w' = Idle
    /\ delayed' = IF w.at = "writeStatus" /\ w.fresh /\ w.cr.status.reason = "Paused"
                  THEN delayed ELSE delayed \cup {w.key}

\* A reconcile returns: with a result that comes back later or an error ...
ReturnAndComeBack ==
    /\ w' = Idle
    /\ delayed' = delayed \cup {w.key}

\* ... or with ctrl.Result{} and no error: nothing will come back by itself.
ReturnForGood ==
    /\ w' = Idle
    /\ UNCHANGED delayed

\* Mutant of Get: a CR under deletion passes the pause gate as well.
Get_GatesDeletion(p) ==
    /\ w.at = "idle"
    /\ p \in queue
    /\ queue' = queue \ {p}
    /\ LET cr == Cached(p)
           to(step) == w' = [Idle EXCEPT !.at = step, !.key = p, !.cr = cr,
                                         !.fresh = Len(log[p]) = 1]
       IN \/ ~cr.exists /\ w' = Idle
          \/ /\ cr.exists /\ cr.deleting /\ cr.finalizer
             /\ IF checkPauseGate(platformConfig).Paused THEN to("writeStatus") ELSE to("closeCall")
          \/ cr.exists /\ cr.deleting /\ ~cr.finalizer /\ w' = Idle
          \/ cr.exists /\ ~cr.deleting /\ to("gate")
    /\ UNCHANGED <<delayed, configured, cluster, plane, budget>>

\* Take p from the workqueue and read it from the cache.
Get(p) ==
    /\ w.at = "idle"
    /\ p \in queue
    /\ queue' = queue \ {p}
    /\ LET cr == Cached(p)
           to(step) == w' = [Idle EXCEPT !.at = step, !.key = p, !.cr = cr,
                                         !.fresh = Len(log[p]) = 1]
       IN \/ ~cr.exists /\ w' = Idle
          \/ cr.exists /\ cr.deleting /\ ~cr.finalizer /\ w' = Idle
          \/ cr.exists /\ cr.deleting /\ cr.finalizer /\ to("closeCall")
          \/ cr.exists /\ ~cr.deleting /\ to("gate")
    /\ UNCHANGED <<delayed, configured, cluster, plane, budget>>

\* The read fails with something else than NotFound.
GetFails(p) ==
    /\ Disturb
    /\ w.at = "idle"
    /\ p \in queue
    /\ queue' = queue \ {p}
    /\ delayed' = delayed \cup {p}
    /\ UNCHANGED <<w, configured, cluster, plane>>

\* What notReady leaves in the worker's copy before it is written.
NotReadyStatus(reason) ==
    IF Kind = "SegmentationPolicy"
    THEN segmentationNotReady(w.cr.status, w.cr.generation, reason)
    ELSE runtimeNotReady(w.cr.status, w.cr.generation, reason)

\* The copy's status is set and the status Update is what is left to do.
ToWriteStatus(status) == w' = [w EXCEPT !.at = "writeStatus", !.cr.status = status]

\* Mutant of CheckPauseGate: the backend is called before the finalizer is stored.
CheckPauseGate_SkipsFinalizer ==
    /\ w.at = "gate"
    /\ LET gate == checkPauseGate(platformConfig)
       IN \/ gate.Paused /\ ToWriteStatus(NotReadyStatus(gate.Reason))
          \/ ~gate.Paused /\ w' = [w EXCEPT !.at = "reconcileCall", !.provider = gate.FlowProvider]
    /\ UNCHANGED <<queue, delayed, configured, cluster, plane, budget>>

\* Mutant of CheckPauseGate: the finalizer is attached above the gate.
CheckPauseGate_FinalizerFirst ==
    /\ w.at = "gate"
    /\ LET gate == checkPauseGate(platformConfig)
       IN \/ gate.Paused /\ w.cr.finalizer /\ ToWriteStatus(NotReadyStatus(gate.Reason))
          \/ /\ ~(gate.Paused /\ w.cr.finalizer)
             /\ w' = [w EXCEPT !.at = IF w.cr.finalizer THEN "reconcileCall" ELSE "addFinalizer",
                               !.provider = gate.FlowProvider]
    /\ UNCHANGED <<queue, delayed, configured, cluster, plane, budget>>

CheckPauseGate ==
    /\ w.at = "gate"
    /\ LET gate == checkPauseGate(platformConfig)
       IN \/ gate.Paused /\ ToWriteStatus(NotReadyStatus(gate.Reason))
          \/ /\ ~gate.Paused
             /\ w' = [w EXCEPT !.at = IF w.cr.finalizer THEN "reconcileCall" ELSE "addFinalizer",
                               !.provider = gate.FlowProvider]
    /\ UNCHANGED <<queue, delayed, configured, cluster, plane, budget>>

\* Mutant of Update: the write is not conditioned on the resourceVersion.
Update_Unconditional(cr) == log' = [log EXCEPT ![w.key] = Append(@, cr)]

\* A write of the worker's copy: accepted only while the copy is fresh.
Update(cr) ==
    /\ w.fresh
    /\ log' = [log EXCEPT ![w.key] = Append(@, cr)]

AddFinalizer ==
    /\ w.at = "addFinalizer"
    /\ \/ LET cr == [w.cr EXCEPT !.finalizer = TRUE]
          IN /\ Update(cr)
             /\ w' = [w EXCEPT !.at = "reconcileCall", !.cr = cr]
             /\ UNCHANGED delayed
       \/ ~w.fresh /\ UNCHANGED log /\ ReturnAndComeBack
    /\ UNCHANGED <<queue, configured, platformConfig, workloads, plane, budget>>

\* An Update is reported as failed: it was not applied, or it was and the
\* reply was lost.
UpdateFails ==
    /\ Disturb
    /\ w.at \in {"addFinalizer", "removeFinalizer", "writeStatus"}
    /\ \/ UNCHANGED log
       \/ /\ w.at = "addFinalizer"
          /\ Update([w.cr EXCEPT !.finalizer = TRUE])
       \/ /\ w.at = "removeFinalizer"
          /\ Update(Settled([w.cr EXCEPT !.finalizer = FALSE]))
       \/ /\ w.at = "writeStatus"
          /\ w.cr # Current(w.key)
          /\ Update(w.cr)
    /\ ReturnAndComeBack
    /\ UNCHANGED <<queue, configured, platformConfig, workloads, plane>>

\* What the reconciler makes of the reply to its reconcile call.
AfterReconcileCall(reply) ==
    LET segmentation == Kind = "SegmentationPolicy"
        decision == IF segmentation THEN segmentationReconcileDecision(reply)
                                    ELSE runtimeReconcileDecision(reply)
        success  == IF segmentation
                    THEN segmentationSuccessStatus(w.cr.status, w.cr.generation,
                                                   ProviderRef[w.cr.spec], w.provider)
                    ELSE runtimeSuccessStatus(w.cr.status, w.cr.generation, reply.res)
    IN ToWriteStatus(IF decision.ready = "True" THEN success ELSE NotReadyStatus(decision.reason))

\* What finalize makes of the reply to its close call.
AfterCloseCall(reply) ==
    LET segmentation == Kind = "SegmentationPolicy"
        releases == IF segmentation THEN segmentationReleases(reply) ELSE runtimeReleases(reply)
        hold     == IF segmentation THEN segmentationHold(reply) ELSE runtimeHold(reply)
    IN \/ releases  /\ w' = [w EXCEPT !.at = "removeFinalizer"]
       \/ ~releases /\ ToWriteStatus(NotReadyStatus(hold.reason))

-----------------------------------------------------------------------------
(* The control plane, as the contract the client relies on describes it. *)

\* Serve a request: the graph then holds exactly what was asked for.
Served(request) ==
    [graph EXCEPT ![request.key] =
        IF request.spec = NoSpec THEN Closed
        ELSE [spec |-> request.spec, edges |-> workloads[request.key]]]

OkBody(n) == [shape |-> "result", Status |-> "ok", EdgesUpserted |-> n, MatchedWorkloads |-> n,
              Unverified |-> FALSE, ProviderInstalled |-> "true"]

OkAnswer(request) ==
    [answered |-> TRUE, code |-> 200,
     body |-> OkBody(IF request.spec = NoSpec THEN 0 ELSE workloads[request.key])]

PausedAnswer == [answered |-> TRUE, code |-> 423, body |-> [shape |-> "structured", key |-> "paused"]]

\* A confirmation is only given for what was done; a refusal says nothing was.
Confirms(wire) ==
    /\ wire.answered /\ wire.code = 200
    /\ wire.body.shape = "result" /\ wire.body.Status = "ok" /\ ~wire.body.Unverified

Refuses(wire) ==
    /\ wire.answered
    /\ \/ wire.code = 423
       \/ /\ wire.body.shape = "structured"
          /\ wire.body.key \in {"paused", "provider_unavailable", "operator_token_not_configured"}

\* One exchange: request in, wire answer out.  The regular course is Done or
\* Paused; a fault is any of Faults, with or without the write, and may leave
\* the request under way.
Exchange(request, wire) ==
    \/ /\ ~serverPaused
       /\ wire = OkAnswer(request)
       /\ graph' = Served(request)
       /\ UNCHANGED <<late, budget>>
    \/ /\ serverPaused
       /\ wire = PausedAnswer
       /\ UNCHANGED <<graph, late, budget>>
    \/ /\ Disturb
       /\ wire \in Faults
       /\ \/ ~serverPaused /\ ~Refuses(wire) /\ graph' = Served(request) /\ UNCHANGED late
          \/ ~Confirms(wire) /\ UNCHANGED <<graph, late>>
          \/ LateCalls /\ ~wire.answered /\ late' = late \cup {request} /\ UNCHANGED graph

\* A request the client gave up on is served after all.
LateService(request) ==
    /\ request \in late
    /\ late' = late \ {request}
    /\ graph' = IF serverPaused THEN graph ELSE Served(request)
    /\ UNCHANGED <<manager, cluster, serverPaused, budget>>

WireReplies(request) == {OkAnswer(request), PausedAnswer} \cup Faults

ReconcileCall ==
    /\ w.at = "reconcileCall"
    /\ \/ /\ configured
          /\ LET request == [key |-> w.key, spec |-> w.cr.spec]
             IN \E wire \in WireReplies(request) :
                   /\ Exchange(request, wire)
                   /\ AfterReconcileCall(do(TRUE, wire))
       \/ /\ ~configured
          /\ AfterReconcileCall(Failed(UnconfiguredError))
          /\ UNCHANGED <<graph, late, budget>>
    /\ UNCHANGED <<queue, delayed, configured, cluster, serverPaused>>

CloseCall ==
    /\ w.at = "closeCall"
    /\ \/ /\ configured
          /\ LET request == [key |-> w.key, spec |-> NoSpec]
             IN \E wire \in WireReplies(request) :
                   /\ Exchange(request, wire)
                   /\ AfterCloseCall(do(TRUE, wire))
       \/ /\ ~configured
          /\ AfterCloseCall(Failed(UnconfiguredError))
          /\ UNCHANGED <<graph, late, budget>>
    /\ UNCHANGED <<queue, delayed, configured, cluster, serverPaused>>

\* Mutant of WriteStatus: a confirmed reconcile asks for no resync.
WriteStatus_NoResync ==
    /\ w.at = "writeStatus"
    /\ \/ w.cr # Current(w.key) /\ Update(w.cr)
       \/ (w.cr = Current(w.key) \/ ~w.fresh) /\ UNCHANGED log
    /\ IF w.fresh /\ w.cr.status.ready = "True" THEN ReturnForGood ELSE ReturnAndComeBack
    /\ UNCHANGED <<queue, configured, platformConfig, workloads, plane, budget>>

\* Mutant of WriteStatus: on a conflict the object is read again and the status
\* set on it, with the generation it has now.
WriteStatus_RetriesOnConflict ==
    /\ w.at = "writeStatus"
    /\ LET cr     == Current(w.key)
           status == IF w.cr.status.ready = "True"
                     THEN [w.cr.status EXCEPT !.observedGeneration = cr.generation]
                     ELSE w.cr.status
       IN IF cr.exists /\ cr.status # status
          THEN log' = [log EXCEPT ![w.key] = Append(@, [cr EXCEPT !.status = status])]
          ELSE UNCHANGED log
    /\ ReturnAndComeBack
    /\ UNCHANGED <<queue, configured, platformConfig, workloads, plane, budget>>

\* Status().Update: changes status only; writing what is already stored makes
\* no new version.  Every reconcile that ends here comes back.
WriteStatus ==
    /\ w.at = "writeStatus"
    /\ \/ w.cr # Current(w.key) /\ Update(w.cr)
       \/ (w.cr = Current(w.key) \/ ~w.fresh) /\ UNCHANGED log
    /\ ReturnAndComeBack
    /\ UNCHANGED <<queue, configured, platformConfig, workloads, plane, budget>>

RemoveFinalizer ==
    /\ w.at = "removeFinalizer"
    /\ \/ /\ Update(Settled([w.cr EXCEPT !.finalizer = FALSE]))
          /\ ReturnForGood
       \/ /\ ~w.fresh
          /\ UNCHANGED log
          /\ ReturnAndComeBack
    /\ UNCHANGED <<queue, configured, platformConfig, workloads, plane, budget>>

-----------------------------------------------------------------------------

User ==
    \/ \E p \in Policies : \/ Create(p) \/ Edit(p) \/ Delete(p) \/ ForeignRelease(p)
                           \/ ChangeWorkloads(p) \/ EdgeDrift(p)
    \/ ChangePlatformConfig
    \/ ChangeServerPaused

ControllerRuntime == \E p \in Policies : Observe(p) \/ Fire(p)

Worker ==
    \/ \E p \in Policies : Get(p) \/ GetFails(p)
    \/ CheckPauseGate \/ AddFinalizer \/ ReconcileCall \/ WriteStatus
    \/ CloseCall \/ RemoveFinalizer \/ UpdateFails

Next ==
    \/ User
    \/ ControllerRuntime
    \/ Restart
    \/ Worker
    \/ \E request \in Requests : LateService(request)

Spec == Init /\ [][Next]_vars

-----------------------------------------------------------------------------
(* Fairness.  The informer delivers every version and every timer fires;   *)
(* a worker that has taken a key goes on, since every call it makes is     *)
(* bounded (the HTTP client by its 30 s timeout).  The workqueue is FIFO:  *)
(* a key that keeps being in it is taken in the end even though the worker *)
(* is busy in between, hence strong fairness for Get.  Nothing is assumed  *)
(* of users, of the kill switches or of the faults.                        *)

Fairness ==
    /\ \A p \in Policies : WF_vars(Observe(p)) /\ WF_vars(Fire(p)) /\ SF_vars(Get(p))
    /\ WF_vars(CheckPauseGate) /\ WF_vars(AddFinalizer) /\ WF_vars(ReconcileCall)
    /\ WF_vars(WriteStatus) /\ WF_vars(CloseCall) /\ WF_vars(RemoveFinalizer)

FairSpec == Spec /\ Fairness

-----------------------------------------------------------------------------
(* Safety. *)

\* The finalizer's promise: as long as the graph holds intent of a CR, the CR
\* exists and carries the finalizer, whatever the cache, the calls and the
\* restarts do (segmentationpolicy_controller.go:63-69, common.go:27-32).
NoOrphanedEdges == \A p \in Policies : IsOpen(p) => Guarded(p)

\* A reader who sees Ready=True for the generation of the spec they look at may
\* conclude that the graph holds exactly this spec (common.go:35-39): an edit
\* between the call and the status write must not leave Ready on a spec that
\* was never pushed.
ReadyFor(cr) == cr.exists /\ cr.status.ready = "True" /\ cr.status.observedGeneration = cr.generation
ReadyMeansApplied == \A p \in Policies : ReadyFor(Current(p)) => graph[p].spec = Current(p).spec

\* A CR the operator still owes something is never forgotten: an event, the
\* queue, a timer or the worker leads back to it, on every exit of a reconcile.
NothingForgotten ==
    \A p \in Policies :
        Current(p).exists /\ (Current(p).deleting => Current(p).finalizer)
            => Len(log[p]) > 1 \/ p \in queue \cup delayed \/ w.key = p

\* The worker writes whole objects from an old copy, yet no write of it undoes
\* what users or other controllers did meanwhile, and what status says was
\* observed never goes back (the resourceVersion check behind r.Update and
\* r.Status().Update).
SameIntent(old, new) ==
    /\ new.spec = old.spec /\ new.generation = old.generation
    /\ new.deleting = old.deleting /\ new.foreign = old.foreign
    /\ new.status.observedGeneration >= old.status.observedGeneration
OperatorRevertsNobody ==
    [][Worker => \A p \in Policies :
            Current(p)'.exists => Current(p).exists /\ SameIntent(Current(p), Current(p)')]_vars

\* status.correlatedEvidenceCount changes only together with a confirmed
\* reconcile of the very generation it is stored with: no failure, pause,
\* provider outage or held deletion ever turns "unknown" into a number
\* (runtimesecuritypolicy_controller.go:178-183).
EvidenceOnlyFromConfirmation ==
    [][\A p \in Policies :
            LET old == Current(p)
                new == Current(p)'
            IN old.exists /\ new.exists
                 /\ new.status.correlatedEvidenceCount # old.status.correlatedEvidenceCount
               => ReadyFor(new)]_vars

-----------------------------------------------------------------------------
(* Liveness. *)

\* Unless the control plane stays paused, a deletion the operator holds is
\* released in the end: whatever failed, conflicted or was restarted before
\* (finalize, segmentationpolicy_controller.go:230-282).
DeletionCompletes ==
    <>[](~serverPaused) =>
        \A p \in Policies : Guarded(p) /\ Current(p).deleting ~> ~Guarded(p)

\* Once a CR stays and both switches stay off, its intent is pushed, recorded
\* as Ready for its generation, and every drift is repaired by the resync
\* (ResyncInterval, common.go:81-85).
Permitted(p) == /\ Current(p).exists /\ ~Current(p).deleting
                /\ configured /\ ~serverPaused /\ ~checkPauseGate(platformConfig).Paused
Converged(p) == /\ ReadyFor(Current(p))
                /\ graph[p] = [spec |-> Current(p).spec, edges |-> workloads[p]]
Converges == \A p \in Policies : <>[]Permitted(p) => <>[]Converged(p)

\* An operator whose gate was never open blocks no deletion, not even while the
\* control plane stays paused: the deadlock the order "gate first, finalizer
\* after" is there to avoid (segmentationpolicy_controller.go:71-77).
NeverUnpausedNeverBlocks ==
    [](checkPauseGate(platformConfig).Paused) =>
        \A p \in Policies : Current(p).deleting ~> ~Guarded(p)

-----------------------------------------------------------------------------
(* Refinement: the controller implements what its finalizer promises.      *)

life == [p \in Policies |->
            CASE ~Current(p).exists -> "absent"
              [] Current(p).exists /\ ~Current(p).finalizer -> "unguarded"
              [] Guarded(p) /\ ~Current(p).deleting -> "guarded"
              [] OTHER -> "terminating"]

Promise == INSTANCE CREdges WITH open <- {p \in Policies : IsOpen(p)}

\* Every behaviour of the controller is one of CREdges: in particular the
\* finalizer leaves only after the close was done (common.go:28), and intent is
\* written only behind it.
KeepsPromise == Promise!Spec

-----------------------------------------------------------------------------
(* The inductive invariant behind NoOrphanedEdges, when no configuration is *)
(* lost and no request is served late.                                      *)

\* A version that still may make a worker call the control plane: the object
\* has its finalizer and nobody asked to delete it.
Callable(cr) == cr.exists /\ cr.finalizer /\ ~cr.deleting

\* A stale version that lets the worker through without a write in between can
\* only be in the cache while the current object is still guarded.
StaleVersionsGuarded ==
    \A p \in Policies : \A n \in 1..Len(log[p]) : Callable(log[p][n]) => Guarded(p)

\* The same for the copy the worker holds.
CopyGuarded ==
    \/ w.at = "gate" /\ w.cr.finalizer
    \/ w.at = "reconcileCall"
    => Guarded(w.key)

\* A fresh copy is the current version up to the status the worker is about to
\* write, and a fresh copy that finalize works on is all there is in the cache.
FreshCopy ==
    /\ w.at # "idle" /\ w.fresh => w.cr = [Current(w.key) EXCEPT !.status = w.cr.status]
    /\ w.at \in {"gate", "addFinalizer", "reconcileCall"} => ~w.cr.deleting
    /\ w.at \in {"closeCall", "removeFinalizer"}
          => w.cr.deleting /\ (w.fresh => log[w.key] = <<w.cr>>)

\* Finalize removes the finalizer only when nothing is open any more.
ClosedBeforeRelease == w.at = "removeFinalizer" => ~IsOpen(w.key)

UnconfiguredWroteNothing == ~configured => \A p \in Policies : ~IsOpen(p)

IInv ==
    /\ TypeOK
    /\ NoOrphanedEdges
    /\ StaleVersionsGuarded
    /\ CopyGuarded
    /\ FreshCopy
    /\ ClosedBeforeRelease
    /\ UnconfiguredWroteNothing
    /\ late = {}
=============================================================================
