---------------------------- MODULE OperatorProofs ----------------------------
(***************************************************************************)
(* A theorem about Operator: a confirmed pause freezes the graph.          *)
(*                                                                         *)
(* It joins what each controller brings along.  A confirmed push puts the  *)
(* control plane's switch where every Ready=True says it is, and only a    *)
(* push the client gave up on or somebody else can take it away again:     *)
(* that is what PlatformConfigProofs shows, taken over by an instance of   *)
(* that module for the composition's variables.  Then nothing the policy   *)
(* controller does, or has done, gets past the control plane.              *)
(***************************************************************************)
EXTENDS Operator, TLAPS

CP == INSTANCE PlatformConfigProofs WITH
        log <- configLog, queue <- configQueue, delayed <- configDelayed, w <- configW,
        late <- latePush, LateCalls <- LatePushes, WatchGaps <- FALSE

-----------------------------------------------------------------------------
(* The PlatformConfig controller in the composition is the one of          *)
(* PlatformConfigProofs.                                                   *)

LEMMA SameReports == CP!ReportedProviders = C!ReportedProviders
  BY DEF CP!ReportedProviders, C!ReportedProviders

LEMMA SameUsers ==
    ASSUME NEW n \in Names
    PROVE  /\ C!Create(n) => CP!Create(n)
           /\ C!Edit(n) => CP!Edit(n)
           /\ C!Delete(n) => CP!Delete(n)
  BY DEF C!Create, C!Edit, C!Delete, C!Disturb, C!Store, C!Current, C!Governs,
         C!NoConfig, C!NoConfigStatus,
         CP!Create, CP!Edit, CP!Delete, CP!Disturb, CP!Store, CP!Current, CP!Governs,
         CP!NoConfig, CP!NoConfigStatus

LEMMA SameRuntime ==
    /\ \A n \in Names : (C!Observe(n) => CP!Observe(n)) /\ (C!Fire(n) => CP!Fire(n))
    /\ C!Restart => CP!Restart
    /\ C!Flip => CP!Flip
    /\ \A v \in BOOLEAN : C!LateService(v) => CP!LateService(v)
  BY DEF C!Flip, CP!Flip, C!LateService, CP!LateService,
          C!Observe, C!Fire, C!Deliver, C!Wakes, C!Cached, C!Restart, C!Disturb, C!Idle,
         C!NoConfig, C!NoConfigStatus,
         CP!Observe, CP!Fire, CP!Deliver, CP!Wakes, CP!Cached, CP!Restart, CP!Disturb, CP!Idle,
         CP!NoConfig, CP!NoConfigStatus

LEMMA SameReads ==
    ASSUME NEW n \in Names
    PROVE  (C!Get(n) => CP!Get(n)) /\ (C!GetFails(n) => CP!GetFails(n))
  BY DEF C!Get, C!GetFails, C!Cached, C!Idle, C!Governs, C!notReady, C!NoConfig,
         C!NoConfigStatus, C!Disturb,
         CP!Get, CP!GetFails, CP!Cached, CP!Idle, CP!Governs, CP!notReady, CP!NoConfig,
         CP!NoConfigStatus, CP!Disturb

LEMMA SameErrors ==
    /\ C!NoError = CP!NoError
    /\ \A err : /\ C!pauseErrorReason(err) = CP!pauseErrorReason(err)
                /\ C!healthErrorReason(err) = CP!healthErrorReason(err)
    /\ \A c, wire : C!do(c, wire) = CP!do(c, wire)
<1>1. /\ C!NoError = CP!NoError
      /\ C!UnconfiguredError = CP!UnconfiguredError
      /\ C!PlainError = CP!PlainError
      /\ C!ZeroResult = CP!ZeroResult
  BY DEF C!NoError, CP!NoError, C!UnconfiguredError, CP!UnconfiguredError,
         C!PlainError, CP!PlainError, C!ZeroResult, CP!ZeroResult
<1>2. \A err : /\ C!pauseErrorReason(err) = CP!pauseErrorReason(err)
               /\ C!healthErrorReason(err) = CP!healthErrorReason(err)
  BY DEF C!pauseErrorReason, CP!pauseErrorReason, C!healthErrorReason, CP!healthErrorReason,
         C!IsUnconfigured, CP!IsUnconfigured, C!IsAPIError, CP!IsAPIError
<1>3. \A c, wire : C!do(c, wire) = CP!do(c, wire)
  BY <1>1 DEF C!do, CP!do, C!Failed, CP!Failed, C!Decoded, CP!Decoded,
              C!parseAPIError, CP!parseAPIError
<1> QED
  BY <1>1, <1>2, <1>3

LEMMA SameHealth == \A providers : C!splitProviderHealth(providers) = CP!splitProviderHealth(providers)
<1>1. \A p : C!Determinate(p) <=> CP!Determinate(p)
  BY DEF C!Determinate, CP!Determinate
<1>2. \A p : C!healthEntry(p) = CP!healthEntry(p)
  BY <1>1 DEF C!healthEntry, CP!healthEntry, C!why, CP!why, C!lastQueryError, CP!lastQueryError
<1> QED
  BY <1>1, <1>2 DEF C!splitProviderHealth, CP!splitProviderHealth

LEMMA SameCalls ==
    /\ C!SetPaused => CP!SetPaused
    /\ C!ProviderHealthRead => CP!ProviderHealthRead
<1>1. \A reply : C!AfterSetPaused(reply) => CP!AfterSetPaused(reply)
  BY SameErrors DEF C!AfterSetPaused, CP!AfterSetPaused, C!ToWriteStatus, CP!ToWriteStatus,
                    C!notReady, CP!notReady
<1>2. \A reply : C!AfterProviderHealth(reply) => CP!AfterProviderHealth(reply)
  BY SameErrors, SameHealth
     DEF C!AfterProviderHealth, CP!AfterProviderHealth, C!ToWriteStatus, CP!ToWriteStatus,
         C!notReady, CP!notReady
<1>3. \A wire : /\ C!setPausedReply(wire) = CP!setPausedReply(wire)
                /\ C!providerHealthReply(wire) = CP!providerHealthReply(wire)
  BY SameErrors DEF C!setPausedReply, CP!setPausedReply, C!providerHealthReply, CP!providerHealthReply
<1>4. /\ \A body : C!Ok(body) = CP!Ok(body)
      /\ \A v : C!PausedBody(v) = CP!PausedBody(v) /\ C!HealthBody(v) = CP!HealthBody(v)
      /\ C!NotAnswered = CP!NotAnswered
  BY DEF C!Ok, CP!Ok, C!PausedBody, CP!PausedBody, C!HealthBody, CP!HealthBody,
         C!NotAnswered, CP!NotAnswered
<1>5. \A v, wire : C!Push(v, wire) => CP!Push(v, wire)
  BY <1>4 DEF C!Push, CP!Push, C!Disturb, CP!Disturb
<1> QED
  BY <1>1, <1>2, <1>3, <1>4, <1>5
     DEF C!SetPaused, CP!SetPaused, C!ProviderHealthRead, CP!ProviderHealthRead,
         C!Disturb, CP!Disturb

LEMMA SameWrites ==
    /\ C!WriteStatus => CP!WriteStatus
    /\ C!WriteStatusFails => CP!WriteStatusFails
  BY DEF C!WriteStatus, CP!WriteStatus, C!WriteStatusFails, CP!WriteStatusFails,
         C!ReturnForGood, CP!ReturnForGood, C!ReturnAndComeBack, CP!ReturnAndComeBack,
         C!Idle, CP!Idle, C!NoConfig, CP!NoConfig, C!NoConfigStatus, CP!NoConfigStatus,
         C!Current, CP!Current, C!Disturb, CP!Disturb

LEMMA SameInit == Init => CP!Init
  BY DEF Init, C!Init, CP!Init, C!Idle, CP!Idle, C!NoConfig, CP!NoConfig,
         C!NoConfigStatus, CP!NoConfigStatus

-----------------------------------------------------------------------------
(* What is true of the switch while two controllers are at work.           *)

\* The facts the theorems of PlatformConfigProofs ask of the constants.
LEMMA ConfigConstants ==
    /\ PlatformConfigName # NoName
    /\ PlatformConfigName \in Names \cup {NoName}
    /\ HealthReports \subseteq Seq(CP!ReportedProviders)
    /\ \A wire \in HealthFaults :
          wire.body.shape = "health" => wire.body.Providers \in Seq(CP!ReportedProviders)
    /\ FALSE \in BOOLEAN
  BY NamesAssumption, ReportsAssumption, SameReports

LEMMA CopiesKept ==
    ASSUME CP!CopyInv, [CP!Next]_(CP!vars)
    PROVE  CP!CopyInv'
  BY ConfigConstants, NamesAssumption, CountsAssumption, FlagsAssumption,
     MaxDisturbancesAssumption, CP!CopyKept

LEMMA ClaimsMade ==
    ASSUME CP!SwitchAnswersSpeak, CP!CopyInv, CP!SetPaused, configW'.at = "providerHealth"
    PROVE  CP!SwitchMatches'
  BY ConfigConstants, NamesAssumption, CountsAssumption, FlagsAssumption,
     MaxDisturbancesAssumption, CP!MatchesMade

LEMMA ClaimsKept ==
    ASSUME CP!SwitchAnswersSpeak, CP!CopyInv, CP!SwitchMatches, [CP!OwnSteps]_(CP!vars)
    PROVE  CP!SwitchMatches'
  BY ConfigConstants, NamesAssumption, CountsAssumption, FlagsAssumption,
     MaxDisturbancesAssumption, CP!MatchesKept

LEMMA StartsTrue == CP!Init => CP!CopyInv /\ CP!SwitchMatches
<1>1. CP!Init => CP!SwitchInv
  BY ConfigConstants, NamesAssumption, CountsAssumption, FlagsAssumption,
     MaxDisturbancesAssumption, CP!InitSwitch
<1> QED
  BY <1>1 DEF CP!SwitchInv

LEMMA Aside ==
    ASSUME CP!CopyInv, budget' \in Nat, UNCHANGED <<config, configured, serverPaused>>
    PROVE  CP!CopyInv' /\ (CP!SwitchMatches => CP!SwitchMatches')
<1>1. UNCHANGED <<configLog, configQueue, configDelayed, configW, latePush, asked, configured, serverPaused>>
  BY DEF config
<1>2. latePush \subseteq BOOLEAN /\ serverPaused \in BOOLEAN
  BY DEF CP!CopyInv, CP!TypeOK
<1>3. CP!CopyInv'
  BY <1>1, <1>2, ConfigConstants, NamesAssumption, CountsAssumption, FlagsAssumption,
     MaxDisturbancesAssumption, CP!CopyAside
<1>4. ASSUME CP!SwitchMatches PROVE CP!SwitchMatches'
  BY <1>1, <1>4, ConfigConstants, NamesAssumption, CountsAssumption, FlagsAssumption,
     MaxDisturbancesAssumption, CP!MatchesAside
<1> QED
  BY <1>3, <1>4

\* The inductive invariant: the copies are in step, and unless the switch was
\* moved since the last confirmed push, what is claimed of it is true.
OvertakenInv == CP!CopyInv /\ (~overtaken => CP!SwitchMatches)

\* What users, the controller runtime, a restart and the worker do to the
\* PlatformConfig controller; none of it touches the graph.
LEMMA ConfigMoves ==
    ASSUME \/ \E n \in Names : ConfigUser(n) \/ ConfigEvent(n)
           \/ ConfigWorker
           \/ Restart
    PROVE  /\ CP!OwnSteps /\ graph' = graph
           /\ \/ overtaken' = overtaken
              \/ CP!SetPaused /\ configW'.at = "providerHealth"
<1>1. ASSUME NEW n \in Names, ConfigUser(n)
      PROVE  CP!OwnSteps /\ UNCHANGED <<graph, overtaken>>
  BY <1>1, SameUsers DEF ConfigUser, CP!OwnSteps, policy
<1>2. ASSUME NEW n \in Names, ConfigEvent(n)
      PROVE  CP!OwnSteps /\ UNCHANGED <<graph, overtaken>>
  BY <1>2, SameRuntime DEF ConfigEvent, CP!OwnSteps, CP!ControllerRuntime, policy
<1>3. ASSUME ConfigWorker
      PROVE  /\ CP!Worker /\ graph' = graph
             /\ overtaken' = overtaken \/ (CP!SetPaused /\ configW'.at = "providerHealth")
  <2>1. C!Worker /\ graph' = graph /\ Track
    BY <1>3 DEF ConfigWorker, policy
  <2>2. CP!Worker
    BY <2>1, SameReads, SameCalls, SameWrites DEF C!Worker, CP!Worker
  <2>3. CASE PushIsConfirmed
    <3>1. C!SetPaused
      BY <2>1, <2>3
         DEF PushIsConfirmed, C!Worker, C!Get, C!GetFails, C!ProviderHealthRead, C!WriteStatus,
             C!WriteStatusFails
    <3> QED
      BY <2>1, <2>2, <2>3, <3>1, SameCalls DEF PushIsConfirmed
  <2>4. CASE ~PushIsConfirmed
    BY <2>1, <2>2, <2>4 DEF Track
  <2> QED
    BY <2>3, <2>4
<1>4. ASSUME Restart PROVE CP!Restart /\ UNCHANGED <<graph, overtaken>>
  BY <1>4, SameRuntime DEF Restart
<1> QED
  BY <1>1, <1>2, <1>3, <1>4 DEF CP!OwnSteps

\* Somebody else, or a push the client gave up on, moves the switch.
LEMMA OtherMoves ==
    ASSUME LatePush \/ SwitchMoves
    PROVE  CP!Next /\ graph' = graph /\ overtaken' = TRUE
  BY SameRuntime DEF LatePush, SwitchMoves, CP!Next, CP!User, policy

\* A call is served, at once or late, only while the switch is off.
LEMMA CallsAreGated ==
    ASSUME budget \in Nat, NEW request, NEW wire, P!Exchange(request, wire)
    PROVE  budget' \in Nat /\ (serverPaused => graph' = graph)
  BY DEF P!Exchange, P!Disturb

\* A step of the policy controller or around it leaves the switch alone, and
\* with the switch on the graph as well.
LEMMA PolicyMoves ==
    ASSUME budget \in Nat, serverPaused \in BOOLEAN,
           \/ \E p \in Policies : PolicyUser(p) \/ PolicyEvent(p)
           \/ PolicyWorker
           \/ LateRequest
    PROVE  /\ UNCHANGED <<config, configured, serverPaused>>
           /\ budget' \in Nat
           /\ serverPaused => graph' = graph
<1>0. P!Disturb => budget' \in Nat
  BY DEF P!Disturb
<1>1. ASSUME NEW p \in Policies, PolicyUser(p)
      PROVE  UNCHANGED <<config, configured, serverPaused, graph>> /\ budget' \in Nat
  BY <1>0, <1>1 DEF PolicyUser, P!Create, P!Edit, P!Delete, P!plane
<1>2. ASSUME NEW p \in Policies, PolicyEvent(p) PROVE UNCHANGED <<config, configured, serverPaused, graph, budget>>
  BY <1>2 DEF PolicyEvent, P!Observe, P!Fire, P!plane
<1>3. ASSUME LateRequest
      PROVE  UNCHANGED <<config, configured, serverPaused, budget>> /\ (serverPaused => graph' = graph)
  BY <1>3 DEF LateRequest, P!LateService, P!manager
<1>4. ASSUME PolicyWorker
      PROVE  UNCHANGED <<config, configured, serverPaused>> /\ budget' \in Nat /\ (serverPaused => graph' = graph)
  <2>1. UNCHANGED config /\ P!Worker
    BY <1>4 DEF PolicyWorker
  <2>2. CASE P!ReconcileCall
    BY <2>1, <2>2, CallsAreGated DEF P!ReconcileCall
  <2>3. CASE P!CloseCall
    BY <2>1, <2>3, CallsAreGated DEF P!CloseCall
  <2>4. CASE ~P!ReconcileCall /\ ~P!CloseCall
    BY <1>0, <2>1, <2>4
       DEF P!Worker, P!Get, P!GetFails, P!CheckPauseGate, P!AddFinalizer, P!WriteStatus,
           P!RemoveFinalizer, P!UpdateFails, P!plane
  <2> QED
    BY <2>2, <2>3, <2>4
<1> QED
  BY <1>1, <1>2, <1>3, <1>4

LEMMA OvertakenAlways ==
    ASSUME CP!SwitchAnswersSpeak
    PROVE  Spec => []OvertakenInv
<1>1. Init => OvertakenInv
  BY SameInit, StartsTrue DEF OvertakenInv
<1>2. ASSUME OvertakenInv, [Next]_vars PROVE OvertakenInv'
  <2>1. CP!CopyInv /\ budget \in Nat /\ serverPaused \in BOOLEAN
    BY <1>2 DEF OvertakenInv, CP!CopyInv, CP!TypeOK
  <2>2. CASE \/ \E n \in Names : ConfigUser(n) \/ ConfigEvent(n)
             \/ ConfigWorker
             \/ Restart
    <3>1. CP!CopyInv'
      BY <2>1, <2>2, ConfigMoves, CopiesKept DEF CP!OwnSteps, CP!Next, CP!User
    <3>2. CASE overtaken' = overtaken /\ CP!SwitchMatches
      BY <2>1, <2>2, <3>1, <3>2, ConfigMoves, ClaimsKept DEF OvertakenInv
    <3>3. CASE overtaken' = overtaken /\ ~CP!SwitchMatches
      BY <1>2, <3>1, <3>3 DEF OvertakenInv
    <3>4. CASE CP!SetPaused /\ configW'.at = "providerHealth"
      BY <2>1, <3>1, <3>4, ClaimsMade DEF OvertakenInv
    <3> QED
      BY <2>2, <3>2, <3>3, <3>4, ConfigMoves
  <2>3. CASE LatePush \/ SwitchMoves
    BY <2>1, <2>3, OtherMoves, CopiesKept DEF OvertakenInv
  <2>4. ASSUME budget' \in Nat, UNCHANGED <<config, configured, serverPaused>> PROVE OvertakenInv'
    <3>1. overtaken' = overtaken
      BY <2>4 DEF config
    <3> QED
      BY <1>2, <2>1, <2>4, <3>1, Aside DEF OvertakenInv
  <2>5. CASE \/ \E p \in Policies : PolicyUser(p) \/ PolicyEvent(p)
             \/ PolicyWorker
             \/ LateRequest
    BY <2>1, <2>4, <2>5, PolicyMoves
  <2>6. CASE UNCHANGED vars
    BY <2>1, <2>4, <2>6 DEF vars
  <2> QED
    BY <1>2, <2>2, <2>3, <2>5, <2>6 DEF Next
<1> QED
  BY <1>1, <1>2, PTL DEF Spec

\* From the moment on in which the singleton reports Ready=True for a
\* spec.paused that is set, and for as long as it does and nobody else moves the
\* switch, no edge moves: not by a call that passed the gate before, not by a
\* deletion and not by a reconcile or close served late
\* (platformconfig_controller.go:127-128, platformconfig_types.go:36-41).  What
\* can move the switch after it was confirmed is an outsider, or an older push
\* that the client gave up on; the next confirmed push makes the promise good
\* again.
THEOREM PauseFreezesTheGraph ==
    ASSUME CP!SwitchAnswersSpeak
    PROVE  Spec => ConfirmedPauseHolds
<1>1. ASSUME OvertakenInv, [Next]_vars, C!ReadyFor(owner), owner.paused, ~overtaken
      PROVE  graph' = graph
  <2>1. CP!SwitchMatches /\ budget \in Nat /\ serverPaused \in BOOLEAN
    BY <1>1 DEF OvertakenInv, CP!CopyInv, CP!TypeOK
  <2>2. serverPaused
    <3>1. CP!Governs(PlatformConfigName) /\ PlatformConfigName \in Names
      BY NamesAssumption DEF CP!Governs
    <3>2. owner = CP!Current(PlatformConfigName) /\ CP!ReadyFor(owner)
      BY <1>1 DEF owner, C!Current, CP!Current, C!ReadyFor, CP!ReadyFor
    <3> QED
      BY <1>1, <2>1, <3>1, <3>2 DEF CP!SwitchMatches, CP!ReadyMeansSwitchMatches
  <2>3. CASE \/ \E n \in Names : ConfigUser(n) \/ ConfigEvent(n)
             \/ ConfigWorker
             \/ Restart
    BY <2>3, ConfigMoves
  <2>4. CASE LatePush \/ SwitchMoves
    BY <2>4, OtherMoves
  <2>5. CASE \/ \E p \in Policies : PolicyUser(p) \/ PolicyEvent(p)
             \/ PolicyWorker
             \/ LateRequest
    BY <2>1, <2>2, <2>5, PolicyMoves
  <2>6. CASE UNCHANGED vars
    BY <2>6 DEF vars, policy
  <2> QED
    BY <1>1, <2>3, <2>4, <2>5, <2>6 DEF Next
<1>2. OvertakenInv /\ [Next]_vars
      => [C!ReadyFor(owner) /\ owner.paused /\ ~overtaken => graph' = graph]_vars
  BY <1>1
<1> QED
  BY <1>2, OvertakenAlways, PTL DEF Spec, ConfirmedPauseHolds
=============================================================================
