------------------------ MODULE PolicyControllerProofs ------------------------
(***************************************************************************)
(* Theorems about PolicyController for every set of policies, specs,       *)
(* counts, faults and any number of disturbances, with machine-checked     *)
(* proofs.                                                                 *)
(***************************************************************************)
EXTENDS PolicyController, SequenceTheorems, TLAPS

-----------------------------------------------------------------------------
(* Lemmas about the versions of a CR. *)

Histories == [Policies -> Seq(Objects) \ {<< >>}]

\* Storing a version of p makes it the current one and changes nothing else.
LEMMA AppendVersion ==
    ASSUME log \in Histories, NEW p \in Policies, NEW cr \in Objects,
           log' = [log EXCEPT ![p] = Append(@, cr)]
    PROVE  /\ log' \in Histories
           /\ Current(p)' = cr
           /\ \A q \in Policies \ {p} : log'[q] = log[q]
           /\ Len(log'[p]) = Len(log[p]) + 1
           /\ \A n \in 1..Len(log'[p]) :
                 log'[p][n] = cr \/ \E m \in 1..Len(log[p]) : log'[p][n] = log[p][m]
<1>1. log[p] \in Seq(Objects) /\ log'[p] = Append(log[p], cr)
  BY DEF Histories
<1>2. /\ Append(log[p], cr) \in Seq(Objects)
      /\ Append(log[p], cr) # << >>
      /\ Len(Append(log[p], cr)) = Len(log[p]) + 1
      /\ \A i \in 1..Len(log[p]) : Append(log[p], cr)[i] = log[p][i]
      /\ Append(log[p], cr)[Len(log[p]) + 1] = cr
  BY <1>1, AppendProperties
<1>3. Len(log[p]) \in Nat
  BY <1>1, LenProperties
<1>4. log' \in Histories
  BY <1>1, <1>2 DEF Histories
<1>5. \A n \in 1..Len(log'[p]) : log'[p][n] = cr \/ \E m \in 1..Len(log[p]) : log'[p][n] = log[p][m]
  BY <1>1, <1>2, <1>3
<1> QED
  BY <1>1, <1>2, <1>4, <1>5 DEF Current, Histories

\* Skipping a prefix of the versions keeps the current one and adds none.
LEMMA SkipVersions ==
    ASSUME log \in Histories, NEW p \in Policies, NEW s \in Suffixes(p)
    PROVE  /\ s \in Seq(Objects) \ {<< >>}
           /\ s[Len(s)] = Current(p)
           /\ \A n \in 1..Len(s) : \E m \in 1..Len(log[p]) : s[n] = log[p][m]
           /\ Len(log[p]) = 1 => s = log[p]
<1> DEFINE v == log[p]
<1>1. v \in Seq(Objects) /\ v # << >> /\ Len(v) \in Nat \ {0}
  BY EmptySeq DEF Histories
<1>2. PICK k \in 1..Len(v) : s = SubSeq(v, k, Len(v))
  BY DEF Suffixes
<1>3. \A i \in k..Len(v) : v[i] \in Objects
  BY <1>1, <1>2, ElementOfSeq
<1>4. /\ s \in Seq(Objects)
      /\ Len(s) = Len(v) - k + 1
      /\ \A i \in 1..Len(v) - k + 1 : s[i] = v[k + i - 1]
  BY <1>1, <1>2, <1>3, SubSeqProperties
<1>5. s # << >>
  <2>1. Len(s) # 0
    BY <1>1, <1>2, <1>4
  <2> QED
    BY <2>1
<1>6. s[Len(s)] = v[Len(v)]
  BY <1>1, <1>2, <1>4
<1>7. \A n \in 1..Len(s) : \E m \in 1..Len(v) : s[n] = v[m]
  BY <1>1, <1>2, <1>4
<1>8. Len(v) = 1 => s = v
  BY <1>1, <1>2, SubSeqFull
<1> QED
  BY <1>4, <1>5, <1>6, <1>7, <1>8 DEF Current
\* What the informer delivers is such a suffix.
LEMMA TailIsSuffix ==
    ASSUME log \in Histories, NEW p \in Policies, Len(log[p]) > 1
    PROVE  Tail(log[p]) \in Suffixes(p)
<1>1. log[p] \in Seq(Objects) /\ log[p] # << >> /\ Len(log[p]) \in Nat
  BY EmptySeq DEF Histories
<1>2. Tail(log[p]) = SubSeq(log[p], 2, Len(log[p]))
  BY <1>1, TailIsSubSeq
<1>3. 2 \in 1..Len(log[p])
  BY <1>1
<1> QED
  BY <1>2, <1>3 DEF Suffixes

-----------------------------------------------------------------------------
(* Types of what the pure modules return. *)

\* Every decision names one of the reasons.
LEMMA ReasonTypes ==
    ASSUME NEW reply
    PROVE  /\ segmentationReconcileDecision(reply).reason \in Reasons
           /\ runtimeReconcileDecision(reply).reason \in Reasons
           /\ segmentationHold(reply).reason \in Reasons
           /\ runtimeHold(reply).reason \in Reasons
<1>1. segmentationReconcileDecision(reply).reason \in Reasons
  BY DEF segmentationReconcileDecision, segmentationReconcileError, NotReady, Reconciled, Reasons
<1>2. runtimeReconcileDecision(reply).reason \in Reasons
  BY DEF runtimeReconcileDecision, runtimeReconcileError, NotReady, Reconciled, Reasons
<1>3. segmentationHold(reply).reason \in Reasons /\ runtimeHold(reply).reason \in Reasons
  BY DEF segmentationHold, runtimeHold, NotReady, Reasons
<1> QED
  BY <1>1, <1>2, <1>3

\* A failure keeps a status a status.
LEMMA NotReadyTypes ==
    ASSUME w.cr \in CRs, NEW reason \in Reasons
    PROVE  NotReadyStatus(reason) \in Statuses(Counts)
<1>1. w.cr.status \in Statuses(Counts) /\ w.cr.generation \in Nat
  BY DEF CRs
<1>2. [w.cr.status EXCEPT !.ready = "False", !.reason = reason, !.conditionGeneration = w.cr.generation]
         \in Statuses(Counts)
  BY <1>1 DEF Statuses
<1> QED
  BY <1>2 DEF NotReadyStatus, segmentationNotReady, runtimeNotReady, setCondition

\* So does a confirmed reconcile.
LEMMA SuccessTypes ==
    ASSUME NEW status \in Statuses(Counts), NEW generation \in Nat,
           NEW ref \in Providers \cup {NoProvider}, NEW gate \in Providers \cup {NoProvider},
           NEW res, res.EdgesUpserted \in Counts
    PROVE  /\ segmentationSuccessStatus(status, generation, ref, gate) \in Statuses(Counts)
           /\ runtimeSuccessStatus(status, generation, res) \in Statuses(Counts)
<1>1. "Reconciled" \in Reasons
  BY DEF Reasons
<1> QED
  BY <1>1 DEF segmentationSuccessStatus, runtimeSuccessStatus, setCondition, Statuses

\* What the gate says of any read of the PlatformConfig.
LEMMA GateTypes ==
    ASSUME NEW pc \in PlatformConfigReads
    PROVE  /\ checkPauseGate(pc).Reason \in Reasons
           /\ checkPauseGate(pc).FlowProvider \in Providers \cup {NoProvider}
<1>1. checkPauseGate(pc).Reason \in Reasons
  BY DEF checkPauseGate, Reasons
<1>2. checkPauseGate(pc).FlowProvider \in Providers \cup {NoProvider}
  BY DEF checkPauseGate, PlatformConfigReads
<1> QED
  BY <1>1, <1>2

\* The client hands the reconciler counts, whatever came over the wire.
LEMMA ReplyTypes ==
    ASSUME NEW wire \in WireAnswers
    PROVE  do(TRUE, wire).res.EdgesUpserted \in Counts
<1>1. ZeroResult.EdgesUpserted \in Counts
  BY CountsAssumption DEF ZeroResult
<1>2. wire.body.shape = "result" => wire.body.EdgesUpserted \in Counts
  BY DEF WireAnswers, Results, ErrorBodies
<1> QED
  BY <1>1, <1>2 DEF do, Failed, Decoded, parseAPIError

LEMMA FailedTypes == ASSUME NEW err PROVE Failed(err).res.EdgesUpserted \in Counts
BY CountsAssumption DEF Failed, ZeroResult

\* The control plane's replies are wire answers.
LEMMA WireReplyTypes ==
    ASSUME workloads \in [Policies -> Counts], NEW request \in Requests
    PROVE  WireReplies(request) \subseteq WireAnswers
<1>1. ASSUME NEW n \in Counts PROVE [answered |-> TRUE, code |-> 200, body |-> OkBody(n)] \in WireAnswers
  BY <1>1 DEF OkBody, WireAnswers, StatusCodes, Results
<1>2. workloads[request.key] \in Counts /\ 0 \in Counts
  BY CountsAssumption DEF Requests
<1>3. OkAnswer(request) \in WireAnswers
  BY <1>1, <1>2 DEF OkAnswer
<1>4. PausedAnswer \in WireAnswers
  BY DEF PausedAnswer, WireAnswers, StatusCodes, ErrorBodies, Categories
<1> QED
  BY <1>3, <1>4, FaultsAssumption DEF WireReplies

-----------------------------------------------------------------------------
(* Moves of the worker. *)

\* The worker's copy is changed in its status only.
StatusSet ==
    /\ w'.at = "writeStatus" /\ w'.key = w.key /\ w'.fresh = w.fresh
    /\ w'.cr = [w.cr EXCEPT !.status = w'.cr.status]

LEMMA ToWriteStatusMoves ==
    ASSUME w \in Workers, w.at # "idle", NEW status \in Statuses(Counts), ToWriteStatus(status)
    PROVE  w' \in Workers /\ StatusSet
<1>1. w \in [at : Steps, key : Policies, cr : CRs, fresh : BOOLEAN, provider : Providers \cup {NoProvider}]
  BY DEF Workers, Idle
<1>2. w' = [w EXCEPT !.at = "writeStatus", !.cr = [w.cr EXCEPT !.status = status]]
  BY <1>1 DEF ToWriteStatus
<1>3. [w.cr EXCEPT !.status = status] \in CRs
  BY <1>1 DEF CRs
<1>4. w' \in Workers
  BY <1>1, <1>2, <1>3 DEF Workers, Steps
<1>5. w'.cr.status = status
  BY <1>1, <1>2 DEF CRs
<1> QED
  BY <1>1, <1>2, <1>4, <1>5 DEF StatusSet

LEMMA AfterReconcileCallMoves ==
    ASSUME w \in Workers, w.at # "idle", NEW reply, reply.res.EdgesUpserted \in Counts,
           AfterReconcileCall(reply)
    PROVE  w' \in Workers /\ StatusSet
<1>1. w \in [at : Steps, key : Policies, cr : CRs, fresh : BOOLEAN, provider : Providers \cup {NoProvider}]
  BY DEF Workers, Idle
<1>2. /\ w.cr.status \in Statuses(Counts) /\ w.cr.generation \in Nat
      /\ ProviderRef[w.cr.spec] \in Providers \cup {NoProvider}
      /\ w.provider \in Providers \cup {NoProvider}
  BY <1>1, SpecsAssumption DEF CRs
<1>3. \A reason \in Reasons : NotReadyStatus(reason) \in Statuses(Counts)
  BY <1>1, NotReadyTypes
<1>4. /\ segmentationSuccessStatus(w.cr.status, w.cr.generation, ProviderRef[w.cr.spec], w.provider)
           \in Statuses(Counts)
      /\ runtimeSuccessStatus(w.cr.status, w.cr.generation, reply.res) \in Statuses(Counts)
  BY <1>2, SuccessTypes
<1>5. PICK status \in Statuses(Counts) : ToWriteStatus(status)
  BY <1>3, <1>4, ReasonTypes DEF AfterReconcileCall
<1> QED
  BY <1>5, ToWriteStatusMoves

LEMMA AfterCloseCallMoves ==
    ASSUME w \in Workers, w.at # "idle", NEW reply, AfterCloseCall(reply)
    PROVE  /\ w' \in Workers
           /\ StatusSet \/ w' = [w EXCEPT !.at = "removeFinalizer"]
<1>1. w \in [at : Steps, key : Policies, cr : CRs, fresh : BOOLEAN, provider : Providers \cup {NoProvider}]
  BY DEF Workers, Idle
<1>2. CASE w' = [w EXCEPT !.at = "removeFinalizer"]
  BY <1>1, <1>2 DEF Workers, Steps
<1>3. CASE \E status \in Statuses(Counts) : ToWriteStatus(status)
  BY <1>3, ToWriteStatusMoves
<1>4. \A reason \in Reasons : NotReadyStatus(reason) \in Statuses(Counts)
  BY <1>1, NotReadyTypes
<1> QED
  BY <1>2, <1>3, <1>4, ReasonTypes DEF AfterCloseCall
-----------------------------------------------------------------------------
(* Types of the steps. *)

LEMMA VersionTypes ==
    ASSUME log \in Histories, NEW p \in Policies
    PROVE  /\ Current(p) \in Objects /\ Cached(p) \in Objects
           /\ Current(p).exists => Current(p) \in CRs
           /\ Cached(p).exists => Cached(p) \in CRs
<1>1. log[p] \in Seq(Objects) /\ log[p] # << >>
  BY DEF Histories
<1>2. Len(log[p]) \in Nat \ {0}
  BY <1>1, EmptySeq
<1>3. Current(p) \in Objects /\ Cached(p) \in Objects
  BY <1>1, <1>2, ElementOfSeq DEF Current, Cached
<1> QED
  BY <1>3 DEF Objects, Absent

LEMMA StoreTypes ==
    ASSUME log \in Histories, w \in Workers, NEW p \in Policies, NEW cr \in Objects, Store(p, cr)
    PROVE  log' \in Histories /\ w' \in Workers
<1>1. log' \in Histories
  BY AppendVersion DEF Store
<1> DEFINE stillFresh == w.fresh /\ w.key # p
<1>2. w' = [w EXCEPT !.fresh = stillFresh] /\ stillFresh \in BOOLEAN
  BY DEF Store
<1>3. CASE w = Idle
  <2>1. ~stillFresh
    BY <1>3 DEF Idle
  <2>2. w' = [Idle EXCEPT !.fresh = FALSE]
    BY <1>2, <1>3, <2>1
  <2> QED
    BY <1>1, <2>2 DEF Workers, Idle
<1>4. CASE w \in [at : Steps, key : Policies, cr : CRs, fresh : BOOLEAN, provider : Providers \cup {NoProvider}]
  <2> HIDE DEF stillFresh
  <2> QED
    BY <1>1, <1>2, <1>4 DEF Workers
<1> QED
  BY <1>3, <1>4 DEF Workers

LEMMA SettledTypes == ASSUME NEW cr \in CRs PROVE Settled(cr) \in Objects
BY DEF Settled, Objects

LEMMA BusyTypes ==
    ASSUME w \in Workers, w.at # "idle"
    PROVE  /\ w.at \in Steps /\ w.key \in Policies /\ w.cr \in CRs /\ w.fresh \in BOOLEAN
           /\ w.provider \in Providers \cup {NoProvider}
           /\ w = [at |-> w.at, key |-> w.key, cr |-> w.cr, fresh |-> w.fresh, provider |-> w.provider]
BY DEF Workers, Idle

LEMMA UpdateTypes ==
    ASSUME log \in Histories, w.key \in Policies, NEW cr \in Objects,
           Update(cr) \/ UNCHANGED log
    PROVE  log' \in Histories
BY AppendVersion DEF Update

Graphs == [Policies -> [spec : Specs \cup {NoSpec}, edges : Counts]]

LEMMA ServedTypes ==
    ASSUME graph \in Graphs, workloads \in [Policies -> Counts], NEW request \in Requests
    PROVE  Served(request) \in Graphs
<1>1. Closed \in [spec : Specs \cup {NoSpec}, edges : Counts]
  BY CountsAssumption DEF Closed
<1>2. [spec |-> request.spec, edges |-> workloads[request.key]] \in [spec : Specs \cup {NoSpec}, edges : Counts]
  BY DEF Requests
<1> QED
  BY <1>1, <1>2 DEF Served, Graphs

LEMMA ExchangeTypes ==
    ASSUME TypeOK, NEW request \in Requests, NEW wire, Exchange(request, wire)
    PROVE  graph' \in Graphs /\ late' \subseteq Requests /\ budget' \in Nat
<1>1. Served(request) \in Graphs
  BY ServedTypes DEF TypeOK, Graphs
<1> QED
  BY <1>1 DEF Exchange, Disturb, TypeOK, Graphs

LEMMA InitTypes == Init => TypeOK
<1> SUFFICES ASSUME Init PROVE TypeOK
  OBVIOUS
<1>1. log \in [Policies -> Seq(Objects) \ {<< >>}]
  <2>1. <<Absent>> \in Seq(Objects) /\ <<Absent>> # << >>
    BY DEF Objects
  <2> QED
    BY <2>1 DEF Init
<1>2. graph \in [Policies -> [spec : Specs \cup {NoSpec}, edges : Counts]]
  BY CountsAssumption DEF Init, Closed
<1>3. platformConfig \in PlatformConfigReads /\ configured \in BOOLEAN
  BY PlatformConfigsAssumption, FlagsAssumption DEF Init
<1> QED
  BY <1>1, <1>2, <1>3, MaxDisturbancesAssumption DEF Init, TypeOK, Workers

LEMMA UserTypes == TypeOK /\ User => TypeOK'
<1> SUFFICES ASSUME TypeOK, User PROVE TypeOK'
  OBVIOUS
<1> USE DEF cluster, manager, plane
<1>1. ASSUME NEW p \in Policies, Create(p) PROVE TypeOK'
  <2>1. PICK s \in Specs, f \in Foreign :
           Store(p, [Absent EXCEPT !.exists = TRUE, !.spec = s, !.generation = 1, !.foreign = f])
    BY <1>1 DEF Create
  <2>2. NoStatus \in Statuses(Counts)
    BY CountsAssumption DEF NoStatus, Statuses, Reasons
  <2>3. [Absent EXCEPT !.exists = TRUE, !.spec = s, !.generation = 1, !.foreign = f] \in Objects
    BY <2>2, FlagsAssumption DEF Absent, Objects, CRs
  <2>4. log' \in Histories /\ w' \in Workers
    BY <2>1, <2>3, StoreTypes DEF TypeOK, Histories
  <2> QED
    BY <1>1, <2>4 DEF Create, Disturb, TypeOK, Histories
<1>2. ASSUME NEW p \in Policies, Edit(p) PROVE TypeOK'
  <2>1. PICK s \in Specs : Store(p, [Current(p) EXCEPT !.spec = s, !.generation = @ + 1])
    BY <1>2 DEF Edit
  <2>2. Current(p) \in CRs
    BY <1>2, VersionTypes DEF Edit, TypeOK, Histories
  <2>3. [Current(p) EXCEPT !.spec = s, !.generation = @ + 1] \in Objects
    <3>1. ASSUME NEW cr \in CRs, NEW g \in Nat PROVE [cr EXCEPT !.spec = s, !.generation = g] \in CRs
      BY DEF CRs
    <3>2. Current(p).generation + 1 \in Nat
      BY <2>2 DEF CRs
    <3> QED
      BY <2>2, <3>1, <3>2 DEF Objects
  <2>4. log' \in Histories /\ w' \in Workers
    BY <2>1, <2>3, StoreTypes DEF TypeOK, Histories
  <2> QED
    BY <1>2, <2>4 DEF Edit, Disturb, TypeOK, Histories
<1>3. ASSUME NEW p \in Policies, Delete(p) PROVE TypeOK'
  <2>1. Current(p) \in CRs
    BY <1>3, VersionTypes DEF Delete, TypeOK, Histories
  <2>2. [Current(p) EXCEPT !.deleting = TRUE, !.generation = @ + 1] \in CRs
    <3>1. ASSUME NEW cr \in CRs, NEW g \in Nat PROVE [cr EXCEPT !.deleting = TRUE, !.generation = g] \in CRs
      BY DEF CRs
    <3>2. Current(p).generation + 1 \in Nat
      BY <2>1 DEF CRs
    <3> QED
      BY <2>1, <3>1, <3>2
  <2>3. log' \in Histories /\ w' \in Workers
    BY <1>3, <2>2, SettledTypes, StoreTypes DEF Delete, TypeOK, Histories
  <2> QED
    BY <1>3, <2>3 DEF Delete, Disturb, TypeOK, Histories
<1>4. ASSUME NEW p \in Policies, ForeignRelease(p) PROVE TypeOK'
  <2>1. Current(p) \in CRs
    BY <1>4, VersionTypes DEF ForeignRelease, TypeOK, Histories
  <2>2. [Current(p) EXCEPT !.foreign = FALSE] \in CRs
    BY <2>1 DEF CRs
  <2>3. log' \in Histories /\ w' \in Workers
    BY <1>4, <2>2, SettledTypes, StoreTypes DEF ForeignRelease, TypeOK, Histories
  <2> QED
    BY <1>4, <2>3 DEF ForeignRelease, Disturb, TypeOK, Histories
<1>5. ASSUME NEW p \in Policies, ChangeWorkloads(p) PROVE TypeOK'
  BY <1>5 DEF ChangeWorkloads, Disturb, TypeOK
<1>6. ASSUME NEW p \in Policies, EdgeDrift(p) PROVE TypeOK'
  <2>1. graph' = [graph EXCEPT ![p] = [graph[p] EXCEPT !.edges = 0]]
    BY <1>6 DEF EdgeDrift
  <2>2. graph[p] \in [spec : Specs \cup {NoSpec}, edges : Counts]
    BY DEF TypeOK
  <2>3. [graph[p] EXCEPT !.edges = 0] \in [spec : Specs \cup {NoSpec}, edges : Counts]
    BY <2>2, CountsAssumption
  <2>4. graph' \in [Policies -> [spec : Specs \cup {NoSpec}, edges : Counts]]
    BY <2>1, <2>3 DEF TypeOK
  <2> QED
    BY <1>6, <2>4 DEF EdgeDrift, Disturb, TypeOK
<1>7. CASE ChangePlatformConfig
  BY <1>7, PlatformConfigsAssumption DEF ChangePlatformConfig, Disturb, TypeOK
<1>8. CASE ChangeServerPaused
  BY <1>8 DEF ChangeServerPaused, Disturb, TypeOK
<1> QED
  BY <1>1, <1>2, <1>3, <1>4, <1>5, <1>6, <1>7, <1>8 DEF User

LEMMA RuntimeTypes == TypeOK /\ (ControllerRuntime \/ Restart) => TypeOK'
<1> SUFFICES ASSUME TypeOK, ControllerRuntime \/ Restart PROVE TypeOK'
  OBVIOUS
<1> USE DEF cluster, manager, plane
<1>1. ASSUME NEW p \in Policies, Observe(p) PROVE TypeOK'
  <2>1. Tail(log[p]) \in Suffixes(p)
    BY <1>1, TailIsSuffix DEF Observe, TypeOK, Histories
  <2>2. Tail(log[p]) \in Seq(Objects) \ {<< >>}
    BY <2>1, SkipVersions DEF TypeOK, Histories
  <2> QED
    BY <1>1, <2>2 DEF Observe, TypeOK
<1>2. ASSUME NEW p \in Policies, Fire(p) PROVE TypeOK'
  BY <1>2 DEF Fire, TypeOK
<1>3. CASE Restart
  <2>1. PICK listed \in [Policies -> UNION {Suffixes(p) : p \in Policies}] :
           /\ \A p \in Policies : listed[p] \in Suffixes(p)
           /\ log' = listed
           /\ queue' = {p \in Policies : listed[p][1].exists}
    BY <1>3 DEF Restart
  <2>2. \A p \in Policies : listed[p] \in Seq(Objects) \ {<< >>}
    BY <2>1, SkipVersions DEF TypeOK, Histories
  <2>3. log' \in [Policies -> Seq(Objects) \ {<< >>}] /\ queue' \subseteq Policies
    BY <2>1, <2>2
  <2>4. configured' \in BOOLEAN
    BY <1>3, FlagsAssumption DEF Restart
  <2> QED
    BY <1>3, <2>3, <2>4 DEF Restart, Disturb, TypeOK, Workers
<1> QED
  BY <1>1, <1>2, <1>3 DEF ControllerRuntime
LEMMA WorkerTypes == TypeOK /\ Worker => TypeOK'
<1> SUFFICES ASSUME TypeOK, Worker PROVE TypeOK'
  OBVIOUS
<1> USE DEF cluster, manager, plane
<1>1. log \in Histories /\ w \in Workers /\ Idle \in Workers /\ Absent \in Objects
  BY DEF TypeOK, Histories, Workers, Objects
<1>2. ASSUME NEW p \in Policies, Get(p) PROVE TypeOK'
  <2>1. ASSUME NEW step \in Steps, Cached(p).exists,
               w' = [Idle EXCEPT !.at = step, !.key = p, !.cr = Cached(p), !.fresh = Len(log[p]) = 1]
        PROVE  w' \in Workers
    <3>1. Cached(p) \in CRs
      BY <1>1, <2>1, VersionTypes
    <3> QED
      BY <2>1, <3>1 DEF Idle, Workers
  <2>2. w' \in Workers
    BY <1>1, <1>2, <2>1 DEF Get, Steps
  <2> QED
    BY <1>2, <2>2 DEF Get, TypeOK
<1>3. ASSUME NEW p \in Policies, GetFails(p) PROVE TypeOK'
  BY <1>3 DEF GetFails, Disturb, TypeOK
<1>4. CASE CheckPauseGate
  <2>1. w.at # "idle" /\ w \in [at : Steps, key : Policies, cr : CRs, fresh : BOOLEAN,
                               provider : Providers \cup {NoProvider}]
    BY <1>1, <1>4 DEF CheckPauseGate, Workers, Idle
  <2>2. /\ checkPauseGate(platformConfig).Reason \in Reasons
        /\ checkPauseGate(platformConfig).FlowProvider \in Providers \cup {NoProvider}
    BY GateTypes DEF TypeOK
  <2>3. ASSUME ToWriteStatus(NotReadyStatus(checkPauseGate(platformConfig).Reason))
        PROVE  w' \in Workers
    BY <1>1, <2>1, <2>2, <2>3, NotReadyTypes, ToWriteStatusMoves
  <2>4. ASSUME w' = [w EXCEPT !.at = IF w.cr.finalizer THEN "reconcileCall" ELSE "addFinalizer",
                              !.provider = checkPauseGate(platformConfig).FlowProvider]
        PROVE  w' \in Workers
    BY <2>1, <2>2, <2>4 DEF Workers, Steps
  <2>5. w' \in Workers
    BY <1>4, <2>3, <2>4 DEF CheckPauseGate
  <2> QED
    BY <1>4, <2>5 DEF CheckPauseGate, TypeOK
<1>5. ASSUME w.at # "idle", ReturnAndComeBack \/ ReturnForGood
      PROVE  w' \in Workers /\ delayed' \subseteq Policies
  BY <1>1, <1>5, BusyTypes DEF ReturnAndComeBack, ReturnForGood, TypeOK
<1>6. CASE AddFinalizer
  <2>1. w.at # "idle" /\ w.key \in Policies /\ w.cr \in CRs
    BY <1>1, <1>6, BusyTypes DEF AddFinalizer
  <2>2. [w.cr EXCEPT !.finalizer = TRUE] \in CRs
    BY <2>1 DEF CRs
  <2>3. CASE /\ Update([w.cr EXCEPT !.finalizer = TRUE])
             /\ w' = [w EXCEPT !.at = "reconcileCall", !.cr = [w.cr EXCEPT !.finalizer = TRUE]]
             /\ UNCHANGED delayed
    <3>1. log' \in Histories
      BY <1>1, <2>1, <2>2, <2>3, UpdateTypes DEF Objects
    <3>2. w \in [at : Steps, key : Policies, cr : CRs, fresh : BOOLEAN, provider : Providers \cup {NoProvider}]
      BY <1>1, <2>1, <1>6 DEF Workers, Idle, AddFinalizer
    <3>3. ASSUME NEW cr \in CRs PROVE [w EXCEPT !.at = "reconcileCall", !.cr = cr] \in Workers
      BY <3>2 DEF Workers, Steps
    <3>4. w' \in Workers
      BY <2>2, <2>3, <3>3
    <3> QED
      BY <1>6, <2>3, <3>1, <3>4 DEF AddFinalizer, TypeOK, Histories
  <2>4. CASE UNCHANGED log /\ ReturnAndComeBack
    BY <1>5, <1>6, <2>1, <2>4 DEF AddFinalizer, TypeOK
  <2> QED
    BY <1>6, <2>3, <2>4 DEF AddFinalizer
<1>7. CASE UpdateFails
  <2>1. w.at # "idle" /\ w.key \in Policies /\ w.cr \in CRs
    BY <1>1, <1>7, BusyTypes DEF UpdateFails
  <2>2. [w.cr EXCEPT !.finalizer = TRUE] \in CRs /\ [w.cr EXCEPT !.finalizer = FALSE] \in CRs
    BY <2>1 DEF CRs
  <2>3. log' \in Histories
    BY <1>1, <1>7, <2>1, <2>2, SettledTypes, UpdateTypes DEF UpdateFails, Objects
  <2> QED
    BY <1>5, <1>7, <2>1, <2>3 DEF UpdateFails, Disturb, TypeOK, Histories
<1>8. CASE ReconcileCall
  <2>1. w.at # "idle" /\ w.key \in Policies /\ w.cr \in CRs
    BY <1>1, <1>8, BusyTypes DEF ReconcileCall
  <2> DEFINE request == [key |-> w.key, spec |-> w.cr.spec]
  <2>2. request \in Requests
    BY <2>1 DEF Requests, CRs
  <2>3. ASSUME NEW wire \in WireReplies(request), Exchange(request, wire),
               AfterReconcileCall(do(TRUE, wire))
        PROVE  TypeOK'
    <3>1. wire \in WireAnswers
      BY <2>2, <2>3, WireReplyTypes DEF TypeOK
    <3>2. w' \in Workers
      BY <1>1, <2>1, <2>3, <3>1, ReplyTypes, AfterReconcileCallMoves
    <3>3. graph' \in Graphs /\ late' \subseteq Requests /\ budget' \in Nat
      BY <2>2, <2>3, ExchangeTypes
    <3> QED
      BY <1>8, <3>2, <3>3 DEF ReconcileCall, TypeOK, Graphs
  <2>4. CASE AfterReconcileCall(Failed(UnconfiguredError)) /\ UNCHANGED <<graph, late, budget>>
    <3>1. w' \in Workers
      BY <1>1, <2>1, <2>4, FailedTypes, AfterReconcileCallMoves
    <3> QED
      BY <1>8, <2>4, <3>1 DEF ReconcileCall, TypeOK
  <2> QED
    BY <1>8, <2>3, <2>4 DEF ReconcileCall
<1>9. CASE CloseCall
  <2>1. w.at # "idle" /\ w.key \in Policies /\ w.cr \in CRs
    BY <1>1, <1>9, BusyTypes DEF CloseCall
  <2> DEFINE request == [key |-> w.key, spec |-> NoSpec]
  <2>2. request \in Requests
    BY <2>1 DEF Requests
  <2>3. ASSUME NEW wire \in WireReplies(request), Exchange(request, wire),
               AfterCloseCall(do(TRUE, wire))
        PROVE  TypeOK'
    <3>1. w' \in Workers
      BY <1>1, <2>1, <2>3, AfterCloseCallMoves
    <3>2. graph' \in Graphs /\ late' \subseteq Requests /\ budget' \in Nat
      BY <2>2, <2>3, ExchangeTypes
    <3> QED
      BY <1>9, <3>1, <3>2 DEF CloseCall, TypeOK, Graphs
  <2>4. CASE AfterCloseCall(Failed(UnconfiguredError)) /\ UNCHANGED <<graph, late, budget>>
    <3>1. w' \in Workers
      BY <1>1, <2>1, <2>4, AfterCloseCallMoves
    <3> QED
      BY <1>9, <2>4, <3>1 DEF CloseCall, TypeOK
  <2> QED
    BY <1>9, <2>3, <2>4 DEF CloseCall
<1>10. CASE WriteStatus
  <2>1. w.at # "idle" /\ w.key \in Policies /\ w.cr \in CRs
    BY <1>1, <1>10, BusyTypes DEF WriteStatus
  <2>2. log' \in Histories
    BY <1>1, <1>10, <2>1, UpdateTypes DEF WriteStatus, Objects
  <2> QED
    BY <1>5, <1>10, <2>1, <2>2 DEF WriteStatus, TypeOK, Histories
<1>11. CASE RemoveFinalizer
  <2>1. w.at # "idle" /\ w.key \in Policies /\ w.cr \in CRs
    BY <1>1, <1>11, BusyTypes DEF RemoveFinalizer
  <2>2. [w.cr EXCEPT !.finalizer = FALSE] \in CRs
    BY <2>1 DEF CRs
  <2>3. log' \in Histories
    BY <1>1, <1>11, <2>1, <2>2, SettledTypes, UpdateTypes DEF RemoveFinalizer
  <2> QED
    BY <1>5, <1>11, <2>1, <2>3 DEF RemoveFinalizer, TypeOK, Histories
<1> QED
  BY <1>2, <1>3, <1>4, <1>6, <1>7, <1>8, <1>9, <1>10, <1>11 DEF Worker

LEMMA LateTypes == ASSUME TypeOK, NEW request \in Requests, LateService(request) PROVE TypeOK'
<1>1. Served(request) \in Graphs
  BY ServedTypes DEF TypeOK, Graphs
<1>2. graph' \in Graphs
  BY <1>1 DEF LateService, TypeOK, Graphs
<1> QED
  BY <1>2 DEF LateService, TypeOK, Graphs, cluster, manager

\* Every state of every behaviour has the types TypeOK lists: in particular the
\* worker's copy is always a CR that exists in some version, and no answer of
\* the control plane can put anything but a count into status.
THEOREM TypeCorrect == Spec => []TypeOK
<1>1. Init => TypeOK
  BY InitTypes
<1>2. TypeOK /\ [Next]_vars => TypeOK'
  <2> SUFFICES ASSUME TypeOK, [Next]_vars PROVE TypeOK'
    OBVIOUS
  <2>1. CASE Next
    BY <2>1, UserTypes, RuntimeTypes, WorkerTypes, LateTypes DEF Next
  <2>2. CASE UNCHANGED vars
    BY <2>2 DEF vars, TypeOK
  <2> QED
    BY <2>1, <2>2
<1> QED
  BY <1>1, <1>2, PTL DEF Spec
-----------------------------------------------------------------------------
(* NoOrphanedEdges: the steps of its inductive invariant. *)

\* A version that keeps the finalizer of a guarded CR keeps every guard.
LEMMA KeepsGuards ==
    ASSUME log \in Histories, StaleVersionsGuarded, NEW p \in Policies, NEW cr \in Objects,
           log' = [log EXCEPT ![p] = Append(@, cr)],
           Guarded(p) => cr.exists /\ cr.finalizer
    PROVE  /\ StaleVersionsGuarded'
           /\ \A q \in Policies : Guarded(q) => Guarded(q)'
<1>1. /\ Current(p)' = cr
      /\ \A q \in Policies \ {p} : log'[q] = log[q]
      /\ \A n \in 1..Len(log'[p]) :
            log'[p][n] = cr \/ \E m \in 1..Len(log[p]) : log'[p][n] = log[p][m]
  BY AppendVersion
<1>2. \A q \in Policies \ {p} : Guarded(q)' <=> Guarded(q)
  BY <1>1 DEF Guarded, Current
<1>3. Guarded(p)' <=> cr.exists /\ cr.finalizer
  BY <1>1 DEF Guarded
<1>4. ASSUME NEW n \in 1..Len(log'[p]), Callable(log'[p][n]) PROVE Guarded(p)'
  <2>1. CASE log'[p][n] = cr
    BY <1>3, <1>4, <2>1 DEF Callable
  <2>2. CASE \E m \in 1..Len(log[p]) : log'[p][n] = log[p][m]
    BY <1>3, <1>4, <2>2 DEF StaleVersionsGuarded
  <2> QED
    BY <1>1, <2>1, <2>2
<1>5. ASSUME NEW q \in Policies, NEW n \in 1..Len(log'[q]), Callable(log'[q][n]) PROVE Guarded(q)'
  <2>1. CASE q = p
    BY <1>4, <1>5, <2>1
  <2>2. CASE q # p
    BY <1>1, <1>2, <1>5, <2>2 DEF StaleVersionsGuarded
  <2> QED
    BY <2>1, <2>2
<1>6. StaleVersionsGuarded'
  BY <1>5 DEF StaleVersionsGuarded, Callable
<1> QED
  BY <1>2, <1>3, <1>6

\* Skipping versions changes no current version and adds no stale one.
LEMMA SkipsKeepGuards ==
    ASSUME log \in Histories, StaleVersionsGuarded,
           \A p \in Policies : log'[p] \in Suffixes(p)
    PROVE  /\ StaleVersionsGuarded'
           /\ \A q \in Policies : Current(q)' = Current(q) /\ (Guarded(q) <=> Guarded(q)')
<1>1. \A p \in Policies :
         /\ log'[p][Len(log'[p])] = Current(p)
         /\ \A n \in 1..Len(log'[p]) : \E m \in 1..Len(log[p]) : log'[p][n] = log[p][m]
  BY SkipVersions
<1>2. \A q \in Policies : Current(q)' = Current(q)
  BY <1>1 DEF Current
<1>3. \A q \in Policies : Guarded(q) <=> Guarded(q)'
  BY <1>2 DEF Guarded
<1>4. ASSUME NEW q \in Policies, NEW n \in 1..Len(log'[q]), Callable(log'[q][n]) PROVE Guarded(q)'
  <2>1. PICK m \in 1..Len(log[q]) : log'[q][n] = log[q][m]
    BY <1>1
  <2> QED
    BY <1>3, <1>4, <2>1 DEF StaleVersionsGuarded
<1>5. StaleVersionsGuarded'
  BY <1>4 DEF StaleVersionsGuarded, Callable
<1> QED
  BY <1>2, <1>3, <1>5

\* An idle worker holds nothing to be careful about.
LEMMA IdleSafe ==
    ASSUME TypeOK', w' = Idle, NoOrphanedEdges', StaleVersionsGuarded',
           UnconfiguredWroteNothing', late' = {}
    PROVE  IInv'
BY DEF IInv, CopyGuarded, FreshCopy, ClosedBeforeRelease, Idle

\* Users and other controllers store versions that keep the finalizer.
LEMMA StoreSafe ==
    ASSUME IInv, TypeOK', NEW p \in Policies, NEW cr \in Objects, Store(p, cr),
           Guarded(p) => cr.exists /\ cr.finalizer,
           UNCHANGED <<graph, configured, late>>
    PROVE  IInv'
<1>1. log \in Histories /\ w \in Workers
  BY DEF IInv, TypeOK, Histories
<1>2. StaleVersionsGuarded' /\ \A q \in Policies : Guarded(q) => Guarded(q)'
  BY <1>1, KeepsGuards DEF Store, IInv
<1>3. \A q \in Policies : IsOpen(q)' <=> IsOpen(q)
  BY DEF IsOpen
<1>4. /\ w'.at = w.at /\ w'.key = w.key /\ w'.cr = w.cr
      /\ w'.fresh => w.fresh /\ w.key # p
  BY <1>1 DEF Store, Workers, Idle
<1>5. w.at # "idle" => w.key \in Policies
  BY <1>1, BusyTypes
<1>6. NoOrphanedEdges' /\ UnconfiguredWroteNothing'
  BY <1>2, <1>3 DEF IInv, NoOrphanedEdges, UnconfiguredWroteNothing
<1>7. CopyGuarded'
  BY <1>2, <1>4, <1>5 DEF IInv, CopyGuarded
<1>8. w.at # "idle" /\ w'.fresh => log'[w.key] = log[w.key]
  BY <1>1, <1>4, <1>5, AppendVersion DEF Store
<1>9. FreshCopy'
  <2>1. (w.at # "idle" /\ w.fresh => w.cr = [Current(w.key) EXCEPT !.status = w.cr.status])'
    BY <1>4, <1>8 DEF IInv, FreshCopy, Current
  <2>2. w'.at \in {"gate", "addFinalizer", "reconcileCall"} => ~w'.cr.deleting
    BY <1>4 DEF IInv, FreshCopy
  <2>3. w'.at \in {"closeCall", "removeFinalizer"}
           => w'.cr.deleting /\ (w'.fresh => log'[w'.key] = <<w'.cr>>)
    BY <1>4, <1>8 DEF IInv, FreshCopy
  <2> QED
    BY <2>1, <2>2, <2>3 DEF FreshCopy
<1>10. ClosedBeforeRelease'
  BY <1>3, <1>4, <1>5 DEF IInv, ClosedBeforeRelease
<1> QED
  BY <1>2, <1>6, <1>7, <1>9, <1>10 DEF IInv

\* A step that touches neither versions nor worker and opens nothing.
LEMMA ElsewhereSafe ==
    ASSUME IInv, TypeOK', UNCHANGED <<log, w, configured, late>>,
           \A p \in Policies : IsOpen(p)' => IsOpen(p)
    PROVE  IInv'
<1>1. \A q \in Policies : Guarded(q)' <=> Guarded(q)
  BY DEF Guarded, Current
<1>2. NoOrphanedEdges' /\ UnconfiguredWroteNothing'
  BY <1>1 DEF IInv, NoOrphanedEdges, UnconfiguredWroteNothing
<1>3. StaleVersionsGuarded' /\ CopyGuarded' /\ FreshCopy'
  BY DEF IInv, StaleVersionsGuarded, CopyGuarded, FreshCopy, Callable, Guarded, Current
<1>4. w.at # "idle" => w.key \in Policies
  BY BusyTypes DEF IInv, TypeOK
<1>5. ClosedBeforeRelease'
  BY <1>4 DEF IInv, ClosedBeforeRelease
<1> QED
  BY <1>2, <1>3, <1>5 DEF IInv

LEMMA UserSafe == ASSUME IInv, User PROVE IInv'
<1>1. TypeOK' /\ log \in Histories
  BY UserTypes DEF IInv, TypeOK, Histories
<1> USE DEF cluster, manager, plane
<1>2. ASSUME NEW p \in Policies, Create(p) PROVE IInv'
  <2>1. PICK s \in Specs, f \in Foreign :
           Store(p, [Absent EXCEPT !.exists = TRUE, !.spec = s, !.generation = 1, !.foreign = f])
    BY <1>2 DEF Create
  <2>2. NoStatus \in Statuses(Counts)
    BY CountsAssumption DEF NoStatus, Statuses, Reasons
  <2>3. [Absent EXCEPT !.exists = TRUE, !.spec = s, !.generation = 1, !.foreign = f] \in Objects
    BY <2>2, FlagsAssumption DEF Absent, Objects, CRs
  <2>4. ~Guarded(p)
    BY <1>2 DEF Create, Guarded
  <2> QED
    BY <1>1, <1>2, <2>1, <2>3, <2>4, StoreSafe DEF Create
<1>3. ASSUME NEW p \in Policies, Edit(p) PROVE IInv'
  <2>1. PICK s \in Specs : Store(p, [Current(p) EXCEPT !.spec = s, !.generation = @ + 1])
    BY <1>3 DEF Edit
  <2>2. Current(p) \in CRs
    BY <1>1, <1>3, VersionTypes DEF Edit
  <2>3. ASSUME NEW cr \in CRs, NEW g \in Nat
        PROVE  /\ [cr EXCEPT !.spec = s, !.generation = g] \in CRs
               /\ [cr EXCEPT !.spec = s, !.generation = g].exists = cr.exists
               /\ [cr EXCEPT !.spec = s, !.generation = g].finalizer = cr.finalizer
    BY DEF CRs
  <2>4. Current(p).generation + 1 \in Nat
    BY <2>2 DEF CRs
  <2>5. PICK cr \in Objects : Store(p, cr) /\ (Guarded(p) => cr.exists /\ cr.finalizer)
    BY <2>1, <2>2, <2>3, <2>4 DEF Guarded, Objects
  <2> QED
    BY <1>1, <1>3, <2>5, StoreSafe DEF Edit
<1>4. ASSUME NEW p \in Policies, Delete(p) PROVE IInv'
  <2>1. Current(p) \in CRs
    BY <1>1, <1>4, VersionTypes DEF Delete
  <2>2. ASSUME NEW cr \in CRs, NEW g \in Nat
        PROVE  /\ Settled([cr EXCEPT !.deleting = TRUE, !.generation = g]) \in Objects
               /\ cr.finalizer => /\ Settled([cr EXCEPT !.deleting = TRUE, !.generation = g]).exists
                                  /\ Settled([cr EXCEPT !.deleting = TRUE, !.generation = g]).finalizer
    BY DEF CRs, Settled, Objects
  <2>3. Current(p).generation + 1 \in Nat
    BY <2>1 DEF CRs
  <2>4. PICK cr \in Objects : Store(p, cr) /\ (Guarded(p) => cr.exists /\ cr.finalizer)
    BY <1>4, <2>1, <2>2, <2>3 DEF Guarded, Delete
  <2> QED
    BY <1>1, <1>4, <2>4, StoreSafe DEF Delete
<1>5. ASSUME NEW p \in Policies, ForeignRelease(p) PROVE IInv'
  <2>1. Current(p) \in CRs
    BY <1>1, <1>5, VersionTypes DEF ForeignRelease
  <2>2. ASSUME NEW cr \in CRs
        PROVE  /\ Settled([cr EXCEPT !.foreign = FALSE]) \in Objects
               /\ cr.finalizer => /\ Settled([cr EXCEPT !.foreign = FALSE]).exists
                                  /\ Settled([cr EXCEPT !.foreign = FALSE]).finalizer
    BY DEF CRs, Settled, Objects
  <2>3. PICK cr \in Objects : Store(p, cr) /\ (Guarded(p) => cr.exists /\ cr.finalizer)
    BY <1>5, <2>1, <2>2 DEF Guarded, ForeignRelease
  <2> QED
    BY <1>1, <1>5, <2>3, StoreSafe DEF ForeignRelease
<1>6. ASSUME NEW p \in Policies, ChangeWorkloads(p) PROVE IInv'
  BY <1>1, <1>6, ElsewhereSafe DEF ChangeWorkloads, IsOpen
<1>7. ASSUME NEW p \in Policies, EdgeDrift(p) PROVE IInv'
  <2>1. \A q \in Policies : IsOpen(q)' => IsOpen(q)
    BY <1>7 DEF EdgeDrift, IsOpen, Closed, IInv, TypeOK
  <2> QED
    BY <1>1, <1>7, <2>1, ElsewhereSafe DEF EdgeDrift
<1>8. CASE ChangePlatformConfig
  BY <1>1, <1>8, ElsewhereSafe DEF ChangePlatformConfig, IsOpen
<1>9. CASE ChangeServerPaused
  BY <1>1, <1>9, ElsewhereSafe DEF ChangeServerPaused, IsOpen
<1> QED
  BY <1>2, <1>3, <1>4, <1>5, <1>6, <1>7, <1>8, <1>9 DEF User
LEMMA RuntimeSafe ==
    ASSUME IInv, ~ConfigLoss, ControllerRuntime \/ Restart
    PROVE  IInv'
<1>1. TypeOK' /\ log \in Histories /\ w \in Workers
  BY RuntimeTypes DEF IInv, TypeOK, Histories
<1> USE DEF cluster, manager, plane
<1>2. ASSUME NEW p \in Policies, Observe(p) PROVE IInv'
  <2>1. \A q \in Policies : log'[q] = IF q = p THEN Tail(log[p]) ELSE log[q]
    BY <1>1, <1>2 DEF Observe, Histories
  <2>2. \A q \in Policies : log[q] \in Suffixes(q)
    <3>1. ASSUME NEW q \in Policies PROVE log[q] \in Suffixes(q)
      <4>1. log[q] \in Seq(Objects) /\ log[q] # << >> /\ Len(log[q]) \in Nat \ {0}
        BY <1>1, EmptySeq DEF Histories
      <4>2. log[q] = SubSeq(log[q], 1, Len(log[q])) /\ 1 \in 1..Len(log[q])
        BY <4>1, SubSeqFull
      <4> QED
        BY <4>2 DEF Suffixes
    <3> QED
      BY <3>1
  <2>3. Tail(log[p]) \in Suffixes(p)
    BY <1>1, <1>2, TailIsSuffix DEF Observe
  <2>4. \A q \in Policies : log'[q] \in Suffixes(q)
    BY <2>1, <2>2, <2>3
  <2>5. /\ StaleVersionsGuarded'
        /\ \A q \in Policies : Current(q)' = Current(q) /\ (Guarded(q) <=> Guarded(q)')
    BY <1>1, <2>4, SkipsKeepGuards DEF IInv
  <2>6. /\ w' = w /\ graph' = graph /\ configured' = configured /\ late' = late
    BY <1>2 DEF Observe
  <2>7. w.at # "idle" => w.key \in Policies
    BY <1>1, BusyTypes
  <2>8. NoOrphanedEdges' /\ UnconfiguredWroteNothing' /\ ClosedBeforeRelease'
    BY <2>5, <2>6 DEF IInv, NoOrphanedEdges, UnconfiguredWroteNothing, ClosedBeforeRelease, IsOpen
  <2>9. CopyGuarded'
    BY <2>5, <2>6, <2>7 DEF IInv, CopyGuarded, Guarded, Current
  <2>10. FreshCopy'
    <3>1. (w.at # "idle" /\ w.fresh => w.cr = [Current(w.key) EXCEPT !.status = w.cr.status])'
      BY <2>5, <2>6, <2>7 DEF IInv, FreshCopy, Current
    <3>2. w.at \in {"closeCall", "removeFinalizer"} /\ w.fresh => log'[w.key] = log[w.key]
      <4>1. w.at \in {"closeCall", "removeFinalizer"} /\ w.fresh => w.key # p
        <5>1. w.at \in {"closeCall", "removeFinalizer"} /\ w.fresh => log[w.key] = <<w.cr>>
          BY DEF IInv, FreshCopy
        <5>2. Len(log[p]) \in Nat
          BY <1>1, LenProperties DEF Histories
        <5>3. Len(<<w.cr>>) = 1
          OBVIOUS
        <5>4. Len(log[p]) > 1
          BY <1>2 DEF Observe
        <5>5. ASSUME w.at \in {"closeCall", "removeFinalizer"} /\ w.fresh, w.key = p PROVE FALSE
          <6>1. log[p] = <<w.cr>>
            BY <5>1, <5>5
          <6>2. Len(log[p]) = 1
            BY <5>3, <6>1
          <6> QED
            BY <5>4, <6>2
        <5> QED
          BY <5>5
      <4> QED
        BY <2>1, <2>7, <4>1
    <3> QED
      BY <2>6, <3>1, <3>2 DEF IInv, FreshCopy
  <2> QED
    BY <1>1, <2>5, <2>6, <2>8, <2>9, <2>10 DEF IInv
<1>3. ASSUME NEW p \in Policies, Fire(p) PROVE IInv'
  BY <1>1, <1>3, ElsewhereSafe DEF Fire, IsOpen
<1>4. CASE Restart
  <2>1. \A p \in Policies : log'[p] \in Suffixes(p)
    BY <1>4 DEF Restart
  <2>2. StaleVersionsGuarded' /\ \A q \in Policies : Guarded(q) <=> Guarded(q)'
    BY <1>1, <2>1, SkipsKeepGuards DEF IInv
  <2>3. configured => configured'
    BY <1>4, FlagsAssumption DEF Restart
  <2>4. graph' = graph /\ late' = {} /\ w' = Idle
    BY <1>4 DEF Restart, IInv
  <2>5. NoOrphanedEdges' /\ UnconfiguredWroteNothing'
    BY <2>2, <2>3, <2>4 DEF IInv, NoOrphanedEdges, UnconfiguredWroteNothing, IsOpen
  <2> QED
    BY <1>1, <2>2, <2>4, <2>5, IdleSafe
<1> QED
  BY <1>2, <1>3, <1>4 DEF ControllerRuntime

\* A reply that lets the finalizer go comes from a control plane that closed
\* the edges in the same exchange.
LEMMA ReleaseMeansClosed ==
    ASSUME TypeOK, ~LateCalls, NEW p \in Policies, NEW wire \in WireAnswers,
           Exchange([key |-> p, spec |-> NoSpec], wire),
           segmentationReleases(do(TRUE, wire)) \/ runtimeReleases(do(TRUE, wire))
    PROVE  ~IsOpen(p)'
<1> DEFINE request == [key |-> p, spec |-> NoSpec]
<1>1. do(TRUE, wire).err = NoError /\ do(TRUE, wire).res.Status = "ok" /\ ~do(TRUE, wire).res.Unverified
  BY DEF segmentationReleases, runtimeReleases, do, Failed, Decoded, IsUnconfigured,
         PlainError, NoError, parseAPIError
<1>2. wire.answered /\ wire.code \in 200..299 /\ wire.body.shape = "result" /\ do(TRUE, wire).res = wire.body
  BY <1>1 DEF do, Failed, Decoded, PlainError, NoError, parseAPIError, ZeroResult
<1>3. wire.code = 200
  BY <1>2 DEF WireAnswers, StatusCodes
<1>4. Confirms(wire)
  BY <1>1, <1>2, <1>3 DEF Confirms
<1>5. graph' = Served(request)
  BY <1>4 DEF Exchange, Confirms, PausedAnswer
<1>6. Served(request)[p] = Closed
  BY DEF Served, TypeOK
<1> QED
  BY <1>5, <1>6 DEF IsOpen

\* An exchange opens at most the CR it is about, and leaves nothing under way.
LEMMA ExchangeLocal ==
    ASSUME TypeOK, ~LateCalls, late = {}, NEW request \in Requests, NEW wire,
           Exchange(request, wire)
    PROVE  /\ late' = {}
           /\ \A q \in Policies : IsOpen(q)' => IsOpen(q) \/ (q = request.key /\ request.spec # NoSpec)
<1>1. late' = {} /\ graph' \in {graph, Served(request)}
  BY DEF Exchange, Disturb
<1>2. \A q \in Policies \ {request.key} : Served(request)[q] = graph[q]
  BY DEF Served, TypeOK
<1>3. request.spec = NoSpec => Served(request)[request.key] = Closed
  BY DEF Served, TypeOK, Requests
<1>4. ASSUME NEW q \in Policies, graph' = Served(request), Served(request)[q] # Closed
      PROVE  graph[q] # Closed \/ (q = request.key /\ request.spec # NoSpec)
  BY <1>2, <1>3, <1>4
<1>5. \A q \in Policies : IsOpen(q)' => IsOpen(q) \/ (q = request.key /\ request.spec # NoSpec)
  <2>1. CASE graph' = graph
    BY <2>1 DEF IsOpen
  <2>2. CASE graph' = Served(request)
    BY <1>4, <2>2 DEF IsOpen, Closed
  <2> QED
    BY <1>1, <2>1, <2>2
<1> QED
  BY <1>1, <1>5

\* The worker sets the status of its copy: nothing is stored yet.
LEMMA StatusSetSafe ==
    ASSUME IInv, TypeOK', w.at # "idle", StatusSet, UNCHANGED <<log, configured>>,
           late' = {}, NoOrphanedEdges', UnconfiguredWroteNothing'
    PROVE  IInv'
<1>1. w.key \in Policies /\ log \in Histories /\ w.cr \in CRs
  BY BusyTypes DEF IInv, TypeOK, Histories
<1>2. StaleVersionsGuarded'
  BY DEF IInv, StaleVersionsGuarded, Callable, Guarded, Current
<1>3. CopyGuarded' /\ ClosedBeforeRelease'
  BY DEF StatusSet, CopyGuarded, ClosedBeforeRelease
<1>4. w'.fresh => w'.cr = [Current(w.key) EXCEPT !.status = w'.cr.status]
  <2>1. w'.fresh => w.cr = [Current(w.key) EXCEPT !.status = w.cr.status]
    BY DEF IInv, FreshCopy, StatusSet
  <2>2. ASSUME NEW cur, NEW s1, NEW s2, w.cr = [cur EXCEPT !.status = s1]
        PROVE  [w.cr EXCEPT !.status = s2] = [cur EXCEPT !.status = s2]
    BY <2>2
  <2> QED
    BY <2>1, <2>2 DEF StatusSet
<1>5. FreshCopy'
  BY <1>4 DEF StatusSet, FreshCopy, Current
<1> QED
  BY <1>2, <1>3, <1>5 DEF IInv

\* A stored copy with the finalizer, or one that is the current version up to
\* its status, keeps every guard.
LEMMA UpdateSafe ==
    ASSUME IInv, w.at # "idle", NEW cr \in Objects, Update(cr),
           \/ cr.exists /\ cr.finalizer
           \/ w.fresh => cr = [Current(w.key) EXCEPT !.status = cr.status]
    PROVE  StaleVersionsGuarded' /\ \A q \in Policies : Guarded(q) => Guarded(q)'
<1>1. w.key \in Policies /\ log \in Histories
  BY BusyTypes DEF IInv, TypeOK, Histories
<1>2. Guarded(w.key) => cr.exists /\ cr.finalizer
  <2>1. Current(w.key) \in Objects
    BY <1>1, VersionTypes
  <2>2. ASSUME NEW cur \in Objects, NEW s
        PROVE  /\ [cur EXCEPT !.status = s].exists = cur.exists
               /\ [cur EXCEPT !.status = s].finalizer = cur.finalizer
    BY DEF Objects, CRs, Absent
  <2> QED
    BY <2>1, <2>2 DEF Update, Guarded
<1> QED
  BY <1>1, <1>2, KeepsGuards DEF Update, IInv

\* Taking the finalizer off: the versions left are being deleted or gone, and
\* nothing of the CR is open.
LEMMA ReleaseSafe ==
    ASSUME IInv, w.at = "removeFinalizer", Update(Settled([w.cr EXCEPT !.finalizer = FALSE])),
           UNCHANGED graph
    PROVE  StaleVersionsGuarded' /\ NoOrphanedEdges'
<1> DEFINE cr == Settled([w.cr EXCEPT !.finalizer = FALSE])
<1>1. w.key \in Policies /\ log \in Histories /\ w.cr \in CRs
  BY BusyTypes DEF IInv, TypeOK, Histories
<1>2. w.cr.deleting /\ log[w.key] = <<w.cr>>
  BY DEF IInv, FreshCopy, Update
<1>3. cr \in Objects /\ ~cr.finalizer
  <2>1. ASSUME NEW c \in CRs
        PROVE  /\ Settled([c EXCEPT !.finalizer = FALSE]) \in Objects
               /\ ~Settled([c EXCEPT !.finalizer = FALSE]).finalizer
    BY DEF CRs, Settled, Objects, Absent
  <2> QED
    BY <1>1, <2>1
<1> HIDE DEF cr
<1>4. log' = [log EXCEPT ![w.key] = Append(@, cr)]
  BY DEF Update, cr
<1>5. /\ \A q \in Policies \ {w.key} : log'[q] = log[q]
      /\ \A n \in 1..Len(log'[w.key]) :
            log'[w.key][n] = cr \/ \E m \in 1..Len(log[w.key]) : log'[w.key][n] = log[w.key][m]
  BY <1>1, <1>3, <1>4, AppendVersion
<1>6. \A n \in 1..Len(log'[w.key]) : ~Callable(log'[w.key][n])
  BY <1>2, <1>3, <1>5 DEF Callable
<1>7. \A q \in Policies \ {w.key} : Guarded(q)' <=> Guarded(q)
  BY <1>5 DEF Guarded, Current
<1>8. StaleVersionsGuarded'
  BY <1>5, <1>6, <1>7 DEF IInv, StaleVersionsGuarded, Callable
<1>9. NoOrphanedEdges'
  BY <1>7 DEF IInv, NoOrphanedEdges, ClosedBeforeRelease, IsOpen
<1> QED
  BY <1>8, <1>9
LEMMA WorkerSafe == ASSUME IInv, ~LateCalls, Worker PROVE IInv'
<1>1. /\ TypeOK' /\ log \in Histories /\ w \in Workers
      /\ w.at # "idle" => w.key \in Policies /\ w.cr \in CRs
  BY WorkerTypes, BusyTypes DEF IInv, TypeOK, Histories
<1> USE DEF cluster, manager, plane
<1>2. ASSUME UNCHANGED <<graph, configured, late>>, \A q \in Policies : Guarded(q) => Guarded(q)'
      PROVE  NoOrphanedEdges' /\ UnconfiguredWroteNothing' /\ late' = {}
  BY <1>2 DEF IInv, NoOrphanedEdges, UnconfiguredWroteNothing, IsOpen
<1>3. UNCHANGED log => StaleVersionsGuarded' /\ \A q \in Policies : Guarded(q) <=> Guarded(q)'
  BY DEF IInv, StaleVersionsGuarded, Callable, Guarded, Current
<1>4. ASSUME NEW p \in Policies, Get(p) PROVE IInv'
  <2>1. UNCHANGED <<log, graph, configured, late>>
    BY <1>4 DEF Get
  <2>2. NoOrphanedEdges' /\ UnconfiguredWroteNothing' /\ late' = {} /\ StaleVersionsGuarded'
    BY <1>2, <1>3, <2>1
  <2>3. CASE w' = Idle
    BY <1>1, <2>2, <2>3, IdleSafe
  <2>4. ASSUME NEW step \in {"closeCall", "gate"}, Cached(p).exists,
               step = "closeCall" => Cached(p).deleting,
               step = "gate" => ~Cached(p).deleting,
               w' = [Idle EXCEPT !.at = step, !.key = p, !.cr = Cached(p), !.fresh = Len(log[p]) = 1]
        PROVE  IInv'
    <3>1. /\ w'.at = step /\ w'.key = p /\ w'.cr = Cached(p)
          /\ w'.fresh => Len(log[p]) = 1
      BY <2>4 DEF Idle
    <3>2. log[p] \in Seq(Objects) /\ Len(log[p]) \in Nat \ {0}
      BY <1>1, EmptySeq DEF Histories
    <3>3. Len(log[p]) = 1 => Current(p) = Cached(p)
      BY DEF Current, Cached
    <3>4. Len(log[p]) = 1 => log[p] = <<Cached(p)>>
      BY <3>2 DEF Cached
    <3>5. CopyGuarded'
      <4>1. step = "gate" /\ Cached(p).finalizer => Guarded(p)
        BY <2>4, <3>2 DEF IInv, StaleVersionsGuarded, Callable, Cached
      <4> QED
        BY <2>1, <2>4, <3>1, <4>1 DEF CopyGuarded, Guarded, Current
    <3>6. FreshCopy'
      <4>1. Cached(p) \in CRs
        BY <1>1, <2>4, VersionTypes
      <4>2. Cached(p) = [Cached(p) EXCEPT !.status = Cached(p).status]
        BY <4>1 DEF CRs
      <4>3. (w.at # "idle" /\ w.fresh => w.cr = [Current(w.key) EXCEPT !.status = w.cr.status])'
        BY <2>1, <3>1, <3>3, <4>2 DEF Current
      <4>4. w'.at \in {"closeCall", "removeFinalizer"}
               => w'.cr.deleting /\ (w'.fresh => log'[w'.key] = <<w'.cr>>)
        BY <2>1, <2>4, <3>1, <3>4
      <4>5. w'.at \in {"gate", "addFinalizer", "reconcileCall"} => ~w'.cr.deleting
        BY <2>4, <3>1
      <4> QED
        BY <4>3, <4>4, <4>5 DEF FreshCopy
    <3>7. ClosedBeforeRelease'
      BY <2>4, <3>1 DEF ClosedBeforeRelease
    <3> QED
      BY <1>1, <2>2, <3>5, <3>6, <3>7 DEF IInv
  <2> QED
    BY <1>4, <2>3, <2>4 DEF Get
<1>5. ASSUME NEW p \in Policies, GetFails(p) PROVE IInv'
  BY <1>1, <1>5, ElsewhereSafe DEF GetFails, IsOpen
<1>6. CASE CheckPauseGate
  <2>1. w.at = "gate" /\ UNCHANGED <<log, graph, configured, late>>
    BY <1>6 DEF CheckPauseGate
  <2>2. NoOrphanedEdges' /\ UnconfiguredWroteNothing' /\ late' = {} /\ StaleVersionsGuarded'
    BY <1>2, <1>3, <2>1
  <2>3. ASSUME ToWriteStatus(NotReadyStatus(checkPauseGate(platformConfig).Reason))
        PROVE  IInv'
    <3>1. checkPauseGate(platformConfig).Reason \in Reasons
      BY GateTypes DEF IInv, TypeOK
    <3>2. StatusSet
      BY <1>1, <2>1, <2>3, <3>1, NotReadyTypes, ToWriteStatusMoves
    <3> QED
      BY <1>1, <2>1, <2>2, <3>2, StatusSetSafe
  <2>4. ASSUME w' = [w EXCEPT !.at = IF w.cr.finalizer THEN "reconcileCall" ELSE "addFinalizer",
                              !.provider = checkPauseGate(platformConfig).FlowProvider]
        PROVE  IInv'
    <3>1. /\ w'.at = IF w.cr.finalizer THEN "reconcileCall" ELSE "addFinalizer"
          /\ w'.key = w.key /\ w'.cr = w.cr /\ w'.fresh = w.fresh
      BY <1>1, <2>1, <2>4 DEF Workers, Idle
    <3>2. CopyGuarded'
      BY <1>1, <1>3, <2>1, <3>1 DEF IInv, CopyGuarded, Guarded, Current
    <3>3. FreshCopy'
      BY <2>1, <3>1 DEF IInv, FreshCopy, Current
    <3>4. ClosedBeforeRelease'
      BY <3>1 DEF ClosedBeforeRelease
    <3> QED
      BY <1>1, <2>2, <3>2, <3>3, <3>4 DEF IInv
  <2> QED
    BY <1>6, <2>3, <2>4 DEF CheckPauseGate
<1>7. CASE AddFinalizer
  <2>1. w.at = "addFinalizer" /\ UNCHANGED <<graph, configured, late>>
    BY <1>7 DEF AddFinalizer
  <2> DEFINE cr == [w.cr EXCEPT !.finalizer = TRUE]
  <2>2. cr \in CRs /\ cr.exists /\ cr.finalizer /\ cr.deleting = w.cr.deleting
    BY <1>1, <2>1 DEF CRs
  <2>3. CASE Update(cr) /\ w' = [w EXCEPT !.at = "reconcileCall", !.cr = cr]
    <3> HIDE DEF cr
    <3>1. w'.at = "reconcileCall" /\ w'.key = w.key /\ w'.cr = cr /\ w'.fresh = w.fresh
      BY <1>1, <2>1, <2>3 DEF Workers, Idle
    <3>2. StaleVersionsGuarded' /\ \A q \in Policies : Guarded(q) => Guarded(q)'
      BY <2>1, <2>2, <2>3, UpdateSafe DEF Objects
    <3>3. log'[w.key][Len(log'[w.key])] = cr
      BY <1>1, <2>1, <2>2, <2>3, AppendVersion DEF Update, Objects, Current
    <3>4. NoOrphanedEdges' /\ UnconfiguredWroteNothing' /\ late' = {}
      BY <1>2, <2>1, <3>2
    <3>5. CopyGuarded' /\ ClosedBeforeRelease'
      BY <2>2, <3>1, <3>3 DEF CopyGuarded, ClosedBeforeRelease, Guarded, Current
    <3>6. FreshCopy'
      <4>1. cr = [cr EXCEPT !.status = cr.status]
        BY <2>2 DEF CRs
      <4>2. ~cr.deleting
        BY <2>1, <2>2 DEF IInv, FreshCopy
      <4> QED
        BY <3>1, <3>3, <4>1, <4>2 DEF FreshCopy, Current
    <3> QED
      BY <1>1, <3>2, <3>4, <3>5, <3>6 DEF IInv
  <2>4. CASE UNCHANGED log /\ ReturnAndComeBack
    <3>1. w' = Idle
      BY <2>4 DEF ReturnAndComeBack
    <3>2. NoOrphanedEdges' /\ UnconfiguredWroteNothing' /\ late' = {} /\ StaleVersionsGuarded'
      BY <1>2, <1>3, <2>1, <2>4
    <3> QED
      BY <1>1, <3>1, <3>2, IdleSafe
  <2> QED
    BY <1>7, <2>3, <2>4 DEF AddFinalizer
<1>8. ASSUME w.at # "idle", w' = Idle, UNCHANGED <<graph, configured, late>>,
             NEW cr \in Objects, Update(cr),
             (cr.exists /\ cr.finalizer) \/ (w.fresh => cr = [Current(w.key) EXCEPT !.status = cr.status])
      PROVE  IInv'
  <2>1. StaleVersionsGuarded' /\ \A q \in Policies : Guarded(q) => Guarded(q)'
    BY <1>8, UpdateSafe
  <2> QED
    BY <1>1, <1>2, <1>8, <2>1, IdleSafe
<1>9. ASSUME w' = Idle, UNCHANGED <<log, graph, configured, late>> PROVE IInv'
  BY <1>1, <1>2, <1>3, <1>9, IdleSafe
<1>10. ASSUME w.at = "removeFinalizer", w' = Idle, UNCHANGED <<graph, configured, late>>,
              Update(Settled([w.cr EXCEPT !.finalizer = FALSE]))
       PROVE  IInv'
  <2>1. StaleVersionsGuarded' /\ NoOrphanedEdges'
    BY <1>10, ReleaseSafe
  <2>2. UnconfiguredWroteNothing' /\ late' = {}
    BY <1>10 DEF IInv, UnconfiguredWroteNothing, IsOpen
  <2> QED
    BY <1>1, <1>10, <2>1, <2>2, IdleSafe
<1>11. w.at = "writeStatus" /\ w.fresh => w.cr = [Current(w.key) EXCEPT !.status = w.cr.status]
  BY DEF IInv, FreshCopy
<1>12. CASE UpdateFails
  <2>1. w' = Idle /\ UNCHANGED <<graph, configured, late>> /\ w.at # "idle"
    BY <1>12 DEF UpdateFails, ReturnAndComeBack
  <2>2. [w.cr EXCEPT !.finalizer = TRUE] \in CRs /\ [w.cr EXCEPT !.finalizer = TRUE].finalizer
    BY <1>1, <2>1 DEF CRs
  <2>3. \A c \in CRs : c \in Objects /\ c.exists
    BY DEF CRs, Objects
  <2> QED
    BY <1>1, <1>8, <1>9, <1>10, <1>11, <1>12, <2>1, <2>2, <2>3 DEF UpdateFails
<1>13. CASE WriteStatus
  <2>1. w' = Idle /\ UNCHANGED <<graph, configured, late>> /\ w.at = "writeStatus" /\ w.cr \in Objects
    BY <1>1, <1>13 DEF WriteStatus, ReturnAndComeBack, Objects
  <2> QED
    BY <1>8, <1>9, <1>11, <1>13, <2>1 DEF WriteStatus
<1>14. CASE RemoveFinalizer
  <2>1. w' = Idle /\ UNCHANGED <<graph, configured, late>> /\ w.at = "removeFinalizer"
    BY <1>14 DEF RemoveFinalizer, ReturnAndComeBack, ReturnForGood
  <2> QED
    BY <1>9, <1>10, <1>14, <2>1 DEF RemoveFinalizer
<1>15. CASE ReconcileCall
  <2>1. w.at = "reconcileCall" /\ UNCHANGED <<log, configured>>
    BY <1>15 DEF ReconcileCall
  <2>2. Guarded(w.key)
    BY <2>1 DEF IInv, CopyGuarded
  <2> DEFINE request == [key |-> w.key, spec |-> w.cr.spec]
  <2>3. request \in Requests
    BY <1>1, <2>1 DEF Requests, CRs
  <2>4. ASSUME NEW wire \in WireReplies(request), configured, Exchange(request, wire),
               AfterReconcileCall(do(TRUE, wire))
        PROVE  IInv'
    <3>1. wire \in WireAnswers
      BY <2>3, <2>4, WireReplyTypes DEF IInv, TypeOK
    <3>2. StatusSet
      BY <1>1, <2>1, <2>4, <3>1, ReplyTypes, AfterReconcileCallMoves
    <3>3. late' = {} /\ \A q \in Policies : IsOpen(q)' => IsOpen(q) \/ q = w.key
      BY <2>3, <2>4, ExchangeLocal DEF IInv
    <3>4. NoOrphanedEdges'
      BY <1>3, <2>1, <2>2, <3>3 DEF IInv, NoOrphanedEdges
    <3>5. UnconfiguredWroteNothing'
      BY <2>1, <2>4 DEF UnconfiguredWroteNothing
    <3> QED
      BY <1>1, <2>1, <3>2, <3>3, <3>4, <3>5, StatusSetSafe
  <2>5. CASE AfterReconcileCall(Failed(UnconfiguredError)) /\ UNCHANGED <<graph, late, budget>>
    <3>1. StatusSet
      BY <1>1, <2>1, <2>5, FailedTypes, AfterReconcileCallMoves
    <3>2. NoOrphanedEdges' /\ UnconfiguredWroteNothing' /\ late' = {}
      BY <1>2, <1>3, <2>1, <2>5
    <3> QED
      BY <1>1, <2>1, <3>1, <3>2, StatusSetSafe
  <2> QED
    BY <1>15, <2>4, <2>5 DEF ReconcileCall
<1>16. CASE CloseCall
  <2>1. w.at = "closeCall" /\ UNCHANGED <<log, configured>>
    BY <1>16 DEF CloseCall
  <2> DEFINE request == [key |-> w.key, spec |-> NoSpec]
  <2>2. request \in Requests
    BY <1>1, <2>1 DEF Requests
  <2>3. ASSUME w' = [w EXCEPT !.at = "removeFinalizer"], ~IsOpen(w.key)',
               NoOrphanedEdges', UnconfiguredWroteNothing', late' = {}
        PROVE  IInv'
    <3>1. w'.at = "removeFinalizer" /\ w'.key = w.key /\ w'.cr = w.cr /\ w'.fresh = w.fresh
      BY <1>1, <2>1, <2>3 DEF Workers, Idle
    <3>2. CopyGuarded'
      BY <3>1 DEF CopyGuarded
    <3>3. FreshCopy'
      BY <2>1, <3>1 DEF IInv, FreshCopy, Current
    <3>4. ClosedBeforeRelease'
      BY <2>3, <3>1 DEF ClosedBeforeRelease, IsOpen
    <3> QED
      BY <1>1, <1>3, <2>1, <2>3, <3>2, <3>3, <3>4 DEF IInv
  <2>4. ASSUME NEW wire \in WireReplies(request), configured, Exchange(request, wire),
               AfterCloseCall(do(TRUE, wire))
        PROVE  IInv'
    <3>1. wire \in WireAnswers
      BY <2>2, <2>4, WireReplyTypes DEF IInv, TypeOK
    <3>2. late' = {} /\ \A q \in Policies : IsOpen(q)' => IsOpen(q)
      BY <2>2, <2>4, ExchangeLocal DEF IInv
    <3>3. NoOrphanedEdges' /\ UnconfiguredWroteNothing'
      BY <1>3, <2>1, <2>4, <3>2 DEF IInv, NoOrphanedEdges, UnconfiguredWroteNothing
    <3>4. CASE StatusSet
      BY <1>1, <2>1, <3>2, <3>3, <3>4, StatusSetSafe
    <3>5. CASE w' = [w EXCEPT !.at = "removeFinalizer"] /\ ~StatusSet
      <4>1. segmentationReleases(do(TRUE, wire)) \/ runtimeReleases(do(TRUE, wire))
        <5>1. ASSUME NEW reason \in Reasons, ToWriteStatus(NotReadyStatus(reason)) PROVE FALSE
          BY <1>1, <2>1, <3>5, <5>1, NotReadyTypes, ToWriteStatusMoves
        <5> QED
          BY <2>4, <5>1, ReasonTypes DEF AfterCloseCall
      <4>2. graph'[w.key] = Closed
        BY <1>1, <2>1, <2>4, <3>1, <4>1, ReleaseMeansClosed DEF IInv, IsOpen
      <4>3. ~IsOpen(w.key)'
        BY <1>1, <2>1, <3>5, <4>2 DEF IsOpen, Workers, Idle
      <4> QED
        BY <2>3, <3>2, <3>3, <3>5, <4>3
    <3> QED
      BY <1>1, <2>1, <2>4, <3>4, <3>5, AfterCloseCallMoves
  <2>5. CASE ~configured /\ AfterCloseCall(Failed(UnconfiguredError)) /\ UNCHANGED <<graph, late, budget>>
    <3>1. NoOrphanedEdges' /\ UnconfiguredWroteNothing' /\ late' = {}
      BY <1>2, <1>3, <2>1, <2>5
    <3>2. CASE StatusSet
      BY <1>1, <2>1, <3>1, <3>2, StatusSetSafe
    <3>3. CASE w' = [w EXCEPT !.at = "removeFinalizer"]
      <4>1. graph'[w.key] = Closed
        BY <1>1, <2>1, <2>5 DEF IInv, UnconfiguredWroteNothing, IsOpen
      <4>2. ~IsOpen(w.key)'
        BY <1>1, <2>1, <3>3, <4>1 DEF IsOpen, Workers, Idle
      <4> QED
        BY <2>3, <3>1, <3>3, <4>2
    <3> QED
      BY <1>1, <2>1, <2>5, <3>2, <3>3, AfterCloseCallMoves
  <2> QED
    BY <1>16, <2>4, <2>5 DEF CloseCall
<1> QED
  BY <1>4, <1>5, <1>6, <1>7, <1>12, <1>13, <1>14, <1>15, <1>16 DEF Worker

LEMMA InitSafe == Init => IInv
<1> SUFFICES ASSUME Init PROVE IInv
  OBVIOUS
<1>1. TypeOK
  BY InitTypes
<1>2. \A p \in Policies : ~IsOpen(p)
  BY DEF Init, IsOpen
<1>3. \A p \in Policies : \A n \in 1..Len(log[p]) : ~Callable(log[p][n])
  <2>1. ASSUME NEW p \in Policies, NEW n \in 1..Len(log[p]) PROVE log[p][n] = Absent
    BY DEF Init
  <2> QED
    BY <2>1 DEF Callable, Absent
<1>4. CopyGuarded /\ FreshCopy /\ ClosedBeforeRelease
  BY DEF Init, Idle, CopyGuarded, FreshCopy, ClosedBeforeRelease
<1> QED
  BY <1>1, <1>2, <1>3, <1>4 DEF Init, IInv, NoOrphanedEdges, StaleVersionsGuarded, UnconfiguredWroteNothing

\* The inductive invariant holds of every behaviour in which no restart loses
\* the configuration and no request is served after the client gave up on it.
THEOREM Inductive == ASSUME ~ConfigLoss, ~LateCalls PROVE Spec => []IInv
<1>1. Init => IInv
  BY InitSafe
<1>2. IInv /\ [Next]_vars => IInv'
  <2> SUFFICES ASSUME IInv, [Next]_vars PROVE IInv'
    OBVIOUS
  <2>1. CASE UNCHANGED vars
    <3>1. TypeOK' /\ \A p \in Policies : IsOpen(p)' => IsOpen(p)
      BY <2>1 DEF vars, IInv, TypeOK, IsOpen
    <3> QED
      BY <2>1, <3>1, ElsewhereSafe DEF vars
  <2>2. ASSUME NEW request \in Requests, LateService(request) PROVE FALSE
    BY <2>2 DEF LateService, IInv
  <2> QED
    BY <2>1, <2>2, UserSafe, RuntimeSafe, WorkerSafe DEF Next
<1> QED
  BY <1>1, <1>2, PTL DEF Spec

\* The finalizer's promise for any number of CRs, specs, faults, edits,
\* deletions, restarts and pauses: intent of a CR is in the graph only while the
\* CR exists and carries the finalizer.
THEOREM NoOrphans == ASSUME ~ConfigLoss, ~LateCalls PROVE Spec => []NoOrphanedEdges
<1>1. IInv => NoOrphanedEdges
  BY DEF IInv
<1> QED
  BY <1>1, Inductive, PTL
=============================================================================
