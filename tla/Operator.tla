------------------------------- MODULE Operator -------------------------------
(***************************************************************************)
(* The operator as main.go puts it together: a policy controller and the   *)
(* PlatformConfig controller in one manager.  They never call each other;  *)
(* they meet in the PlatformConfig object, which one reconciles and the    *)
(* other's pause gate reads from the same cache, and in the control        *)
(* plane's kill switch, which one pushes and the other's calls run into.   *)
(*                                                                         *)
(* A step is a step of one of them while the other's variables stay, or a  *)
(* restart of the manager, which hits both.  What is fixed per process     *)
(* (configured) and the budget of disturbances are shared.  Requests of    *)
(* both controllers that the client gave up on may be served later, and    *)
(* somebody else may move the kill switch; the informers keep their watch. *)
(***************************************************************************)
EXTENDS Integers, Sequences, FiniteSets

CONSTANTS
    Kind, Policies, NoPolicy, Specs, NoSpec, ProviderRef, Providers, NoProvider,
    Counts, Faults,                                     \* as in PolicyController
    Names, NoName, PlatformConfigName, HealthReports, SwitchFaults, HealthFaults,
    SwitchStart,                                        \* as in PlatformConfig
    StartConfigured,
    LateRequests,        \* may a reconcile or close the client gave up on be served later?
    LatePushes,          \* may a push of the switch the client gave up on be served later?
    Outsiders,           \* does anybody else flip the kill switch?
    MaxDisturbances

VARIABLES
    log, queue, delayed, w, workloads, graph, late,            \* the policy controller's
    configLog, configQueue, configDelayed, configW, latePush, asked,  \* the PlatformConfig controller's
    configured, serverPaused, budget,                          \* shared
    overtaken  \* (history) has somebody else moved the switch since the last confirmed push?

policy == <<log, queue, delayed, w, workloads, graph, late>>
config == <<configLog, configQueue, configDelayed, configW, latePush, asked, overtaken>>
vars   == <<policy, config, configured, serverPaused, budget>>

C == INSTANCE PlatformConfig WITH
        log <- configLog, queue <- configQueue, delayed <- configDelayed, w <- configW,
        late <- latePush, LateCalls <- LatePushes, WatchGaps <- FALSE

\* What checkPauseGate's Get finds in the cache the two controllers share.
GateRead ==
    LET cr == C!Cached(PlatformConfigName)
    IN IF cr.exists THEN [found |-> "found", paused |-> cr.paused, flowProvider |-> NoProvider]
                    ELSE [found |-> "notFound", paused |-> TRUE, flowProvider |-> NoProvider]

P == INSTANCE PolicyController WITH
        platformConfig <- GateRead, PlatformConfigs <- {}, Foreign <- {FALSE},
        ConfigLoss <- FALSE, LateCalls <- LateRequests

owner == C!Current(PlatformConfigName)

ASSUME NamesAssumption == PlatformConfigName \in Names /\ NoName \notin Names
ASSUME CountsAssumption == Counts \subseteq Nat /\ 0 \in Counts
ASSUME ReportsAssumption ==
    /\ HealthReports \subseteq Seq(C!ReportedProviders)
    /\ \A wire \in HealthFaults :
          wire.body.shape = "health" => wire.body.Providers \in Seq(C!ReportedProviders)
ASSUME FlagsAssumption ==
    /\ SwitchStart \subseteq BOOLEAN
    /\ StartConfigured \subseteq BOOLEAN
    /\ LatePushes \in BOOLEAN
    /\ Outsiders \in BOOLEAN
ASSUME MaxDisturbancesAssumption == MaxDisturbances \in Nat

\* Both controllers start with empty queues on the same process state.
Init ==
    /\ C!Init
    /\ log = [p \in Policies |-> <<P!Absent>>]
    /\ queue = {} /\ delayed = {} /\ w = P!Idle /\ late = {}
    /\ workloads = [p \in Policies |-> 1]
    /\ graph = [p \in Policies |-> P!Closed]
    /\ overtaken = FALSE

\* The worker of the PlatformConfig controller goes on; a push it sees confirmed
\* puts an end to what moved the switch before.
PushIsConfirmed == configW.at = "setPaused" /\ configW'.at = "providerHealth"
Track           == overtaken' = IF PushIsConfirmed THEN FALSE ELSE overtaken

\* One of the two controllers moves, or somebody around it; the other's
\* variables stay.  (The order of the conjuncts lets the gate's next value be
\* computed.)
PolicyUser(p)  == UNCHANGED config /\ (P!Create(p) \/ P!Edit(p) \/ P!Delete(p))
ConfigUser(n)  == UNCHANGED <<policy, overtaken>> /\ (C!Create(n) \/ C!Edit(n) \/ C!Delete(n))
PolicyEvent(p) == UNCHANGED config /\ (P!Observe(p) \/ P!Fire(p))
ConfigEvent(n) == UNCHANGED <<policy, overtaken>> /\ (C!Observe(n) \/ C!Fire(n))
PolicyWorker   == UNCHANGED config /\ P!Worker
ConfigWorker   == UNCHANGED policy /\ C!Worker /\ Track
LateRequest    == UNCHANGED config /\ \E request \in P!Requests : P!LateService(request)

\* A push the client gave up on, or somebody else, moves the switch.
LatePush     == UNCHANGED policy /\ (\E v \in BOOLEAN : C!LateService(v)) /\ overtaken' = TRUE
SwitchMoves  == UNCHANGED policy /\ C!Flip /\ overtaken' = TRUE

\* The process stops and a new one starts with the same settings.
Restart ==
    /\ C!Restart /\ UNCHANGED configured
    /\ queue' = {p \in Policies : P!Cached(p).exists}
    /\ delayed' = {}
    /\ w' = P!Idle
    /\ UNCHANGED <<log, workloads, graph, late, overtaken>>

Next ==
    \/ \E p \in Policies : PolicyUser(p) \/ PolicyEvent(p)
    \/ \E n \in Names : ConfigUser(n) \/ ConfigEvent(n)
    \/ Restart
    \/ PolicyWorker \/ ConfigWorker
    \/ LateRequest \/ LatePush \/ SwitchMoves

Spec == Init /\ [][Next]_vars

\* What the two workers, separate goroutines, do without a disturbance once they
\* have taken a key; of these steps only one is ever enabled per worker.
PolicySteps ==
    /\ UNCHANGED config
    /\ \/ P!CheckPauseGate \/ P!AddFinalizer \/ P!ReconcileCall
       \/ P!WriteStatus \/ P!CloseCall \/ P!RemoveFinalizer
ConfigSteps ==
    /\ UNCHANGED policy
    /\ C!SetPaused \/ C!ProviderHealthRead \/ C!WriteStatus
    /\ Track

\* Each controller's own fairness, as in PolicyController and PlatformConfig.
Fairness ==
    /\ \A p \in Policies :
          /\ WF_vars(UNCHANGED config /\ P!Observe(p))
          /\ WF_vars(UNCHANGED config /\ P!Fire(p))
          /\ SF_vars(UNCHANGED config /\ P!Get(p))
    /\ \A n \in Names :
          /\ WF_vars(UNCHANGED <<policy, overtaken>> /\ C!Observe(n))
          /\ WF_vars(UNCHANGED <<policy, overtaken>> /\ C!Fire(n))
          /\ SF_vars(UNCHANGED <<policy, overtaken>> /\ C!Get(n))
    /\ WF_vars(PolicySteps) /\ WF_vars(ConfigSteps)

FairSpec == Spec /\ Fairness

-----------------------------------------------------------------------------

\* A pause that is confirmed on the singleton holds in the graph: from then on
\* no call that passed the gate before, no deletion and no late request changes
\* an edge (platformconfig_controller.go:127-128, platformconfig_types.go:36-41),
\* unless the switch is moved after it was confirmed, by an older push the
\* client gave up on or by somebody else; then the next confirmed push restores
\* the promise.
ConfirmedPauseHolds ==
    [][C!ReadyFor(owner) /\ owner.paused /\ ~overtaken => graph' = graph]_vars

\* Unpausing is one edit: once the singleton stays unpaused, the switch follows,
\* the gate opens and, when the last disturbance is over, what policies there
\* are are in the graph and what is being deleted is gone
\* (platformconfig_types.go:36-43).
Unpaused == owner.exists /\ ~owner.paused /\ configured
Settled(p) ==
    LET cr == P!Current(p)
    IN IF cr.exists /\ ~cr.deleting THEN P!Converged(p) ELSE ~P!Guarded(p)
UnpausingIsEnough == <>[]Unpaused => <>[](\A p \in Policies : Settled(p))
=============================================================================
