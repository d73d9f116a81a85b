---------------------------- MODULE PreflightProofs ----------------------------
(***************************************************************************)
(* Theorems about Preflight for any number of overlapping probes, any set  *)
(* of required resources, any timeouts and any number of changes of the    *)
(* world.  A verdict is confirmed because a probe has, from its first step *)
(* to its last, seen all that is the case: what is the case when it looks  *)
(* is therefore among its facts.                                           *)
(***************************************************************************)
EXTENDS Preflight, TLAPS

\* A probe under way has no result yet, and its facts hold all that is the case.
SeesTheWorld ==
    \A p \in Probes : at[p] # "idle" => result[p] = "none" /\ Now \subseteq facts[p]

\* Who asks the control plane has seen the CRDs served to a discovery that answers.
DiscoveryDone ==
    \A p \in Probes : at[p] = "backend" => {"all served", "discovery up"} \subseteq facts[p]

ProbesInv == TypeOK /\ SeesTheWorld /\ DiscoveryDone /\ ReadyIsConfirmed /\ AbsenceIsConfirmed

-----------------------------------------------------------------------------
(* What is the case. *)

\* There are always facts, and two of them for the readers of discovery.
LEMMA WhatIsNow ==
    /\ Now \subseteq Facts
    /\ served = requiredResources => "all served" \in Now
    /\ served # requiredResources => "some missing" \in Now
    /\ api = "answers" => "discovery up" \in Now
    /\ backend = "answers" => "backend up" \in Now
  BY DEF Now, Facts

\* What is the case depends on the world alone.
LEMMA NowKept ==
    ASSUME UNCHANGED world
    PROVE  /\ Now' = Now
           /\ configured' = configured
           /\ served' = served /\ api' = api /\ backend' = backend
  BY DEF world, Now

-----------------------------------------------------------------------------
(* The steps of a probe. *)

\* One probe goes on, to a place and a result of its own, in a world that
\* stays; all others are as they were.
Moves(p, place, outcome) ==
    /\ at' = [at EXCEPT ![p] = place]
    /\ result' = [result EXCEPT ![p] = outcome]
    /\ UNCHANGED <<world, facts>>

\* Such a step keeps the invariant when place and result are earned.
LEMMA MovesKeeps ==
    ASSUME ProbesInv, NEW p \in Probes,
           NEW place \in {"idle", "find", "build", "store", "list", "backend"},
           NEW outcome \in Outcomes,
           Moves(p, place, outcome), at[p] # "idle",
           place # "idle" => outcome = "none",
           place = "backend" => {"all served", "discovery up"} \subseteq facts[p],
           outcome = "ready" => {"all served", "discovery up"} \subseteq facts[p]
                                  /\ (configured => "backend up" \in facts[p]),
           outcome \in {"notInstalled", "incomplete"} =>
                 {"some missing", "discovery up"} \subseteq facts[p],
           Discovery' \in {"nil", "torn", "built"}, UNCHANGED <<elapsed, budget>>
    PROVE  ProbesInv'
<1>1. /\ UNCHANGED world /\ facts' = facts
      /\ at' = [at EXCEPT ![p] = place] /\ result' = [result EXCEPT ![p] = outcome]
  BY DEF Moves
<1>2. /\ Now' = Now /\ configured' = configured
      /\ served' = served /\ api' = api /\ backend' = backend
  BY <1>1, NowKept
<1>3. TypeOK
  BY DEF ProbesInv
<1>4. \A q \in Probes : /\ at'[q] = (IF q = p THEN place ELSE at[q])
                        /\ result'[q] = (IF q = p THEN outcome ELSE result[q])
  BY <1>1, <1>3 DEF TypeOK
<1>5. TypeOK'
  BY <1>1, <1>2, <1>3 DEF TypeOK
<1>6. SeesTheWorld'
  BY <1>1, <1>2, <1>4 DEF ProbesInv, SeesTheWorld
<1>7. DiscoveryDone'
  BY <1>1, <1>4 DEF ProbesInv, DiscoveryDone
<1>8. ReadyIsConfirmed'
  BY <1>1, <1>2, <1>4 DEF ProbesInv, ReadyIsConfirmed
<1>9. AbsenceIsConfirmed'
  BY <1>1, <1>4 DEF ProbesInv, AbsenceIsConfirmed
<1> QED
  BY <1>5, <1>6, <1>7, <1>8, <1>9 DEF ProbesInv

\* Goto and Return are such steps.
LEMMA GoesOn ==
    ASSUME ProbesInv, NEW p \in Probes, at[p] # "idle", UNCHANGED <<world, facts>>
    PROVE  /\ \A place : Goto(p, place) => Moves(p, place, "none")
           /\ \A outcome : Return(p, outcome) => Moves(p, "idle", outcome)
<1>1. result[p] = "none" /\ result \in [Probes -> Outcomes]
  BY DEF ProbesInv, SeesTheWorld, TypeOK
<1>2. result = [result EXCEPT ![p] = "none"]
  BY <1>1
<1> QED
  BY <1>2 DEF Goto, Return, Moves

-----------------------------------------------------------------------------
(* The invariant. *)

LEMMA ProbesInit == Init => ProbesInv
<1> SUFFICES ASSUME Init PROVE ProbesInv
  OBVIOUS
<1>1. TypeOK
  BY ConfiguredAssumption, MaxDisturbancesAssumption, TimeoutsAssumption
     DEF Init, TypeOK, Outcomes, Facts
<1>2. \A p \in Probes : at[p] = "idle" /\ result[p] = "none"
  BY DEF Init
<1> QED
  BY <1>1, <1>2 DEF ProbesInv, SeesTheWorld, DiscoveryDone, ReadyIsConfirmed, AbsenceIsConfirmed

\* Whatever changes while a probe is under way, the probe lives to see it.
LEMMA ChangeKeeps ==
    ASSUME ProbesInv, Change
    PROVE  ProbesInv'
<1>1. /\ TypeOK /\ budget \in Nat /\ budget > 0 /\ budget' = budget - 1
      /\ facts' = [p \in Probes |-> IF at[p] = "idle" THEN facts[p] ELSE facts[p] \cup Now']
      /\ UNCHANGED <<configured, Discovery, at, elapsed, result>>
  BY DEF ProbesInv, TypeOK, Change
<1>2. served' \subseteq requiredResources /\ api' \in Conditions /\ backend' \in Conditions
  BY <1>1 DEF TypeOK, Change
<1>3. Now' \subseteq Facts
  BY DEF Now, Facts
<1>4. facts' \in [Probes -> SUBSET Facts]
  BY <1>1, <1>3 DEF TypeOK
<1>5. budget' \in Nat
  BY <1>1
<1>6. TypeOK'
  BY <1>1, <1>2, <1>4, <1>5 DEF TypeOK
<1>7. \A p \in Probes : /\ facts[p] \subseteq facts'[p]
                        /\ at[p] # "idle" => Now' \subseteq facts'[p]
  BY <1>1
<1>8. SeesTheWorld' /\ DiscoveryDone'
  BY <1>1, <1>7 DEF ProbesInv, SeesTheWorld, DiscoveryDone
<1>9. ReadyIsConfirmed' /\ AbsenceIsConfirmed'
  BY <1>1, <1>7 DEF ProbesInv, ReadyIsConfirmed, AbsenceIsConfirmed
<1> QED
  BY <1>6, <1>8, <1>9 DEF ProbesInv

\* A probe starts from what is the case now.
LEMMA BeginKeeps ==
    ASSUME ProbesInv, NEW p \in Probes, Begin(p)
    PROVE  ProbesInv'
<1>1. /\ TypeOK /\ UNCHANGED world /\ UNCHANGED <<Discovery, budget>>
      /\ at' = [at EXCEPT ![p] = "find"] /\ elapsed' = [elapsed EXCEPT ![p] = 0]
      /\ result' = [result EXCEPT ![p] = "none"] /\ facts' = [facts EXCEPT ![p] = Now]
  BY DEF ProbesInv, Begin
<1>2. /\ Now' = Now /\ configured' = configured
      /\ served' = served /\ api' = api /\ backend' = backend
  BY <1>1, NowKept
<1>3. \A q \in Probes : /\ at'[q] = (IF q = p THEN "find" ELSE at[q])
                        /\ result'[q] = (IF q = p THEN "none" ELSE result[q])
                        /\ facts'[q] = (IF q = p THEN Now ELSE facts[q])
  BY <1>1 DEF TypeOK
<1>4. 0 \in 0..Timeout
  BY TimeoutsAssumption
<1>5. elapsed' \in [Probes -> 0..Timeout \cup 0..DiscoveryTimeout]
  BY <1>1, <1>4 DEF TypeOK
<1>6. result' \in [Probes -> Outcomes] /\ at' \in [Probes -> {"idle", "find", "build", "store", "list", "backend"}]
  BY <1>1 DEF TypeOK, Outcomes
<1>7. TypeOK'
  BY <1>1, <1>2, <1>5, <1>6, WhatIsNow DEF TypeOK
<1>8. SeesTheWorld' /\ DiscoveryDone'
  BY <1>2, <1>3 DEF ProbesInv, SeesTheWorld, DiscoveryDone
<1>9. ReadyIsConfirmed' /\ AbsenceIsConfirmed'
  BY <1>2, <1>3 DEF ProbesInv, ReadyIsConfirmed, AbsenceIsConfirmed
<1> QED
  BY <1>7, <1>8, <1>9 DEF ProbesInv

\* Whatever another probe left in c.Discovery decides nothing but the next place.
LEMMA ClientKeeps ==
    ASSUME ProbesInv, NEW p \in Probes, Find(p) \/ Build(p) \/ Store(p)
    PROVE  ProbesInv'
<1>1. /\ at[p] # "idle" /\ Discovery' \in {"nil", "torn", "built"}
      /\ UNCHANGED <<world, facts>> /\ UNCHANGED <<elapsed, budget>>
  BY DEF ProbesInv, TypeOK, Find, Build, Store
<1>2. \/ \E place \in {"build", "store", "list"} : Goto(p, place)
      \/ \E outcome \in {"panic", "undetermined"} : Return(p, outcome)
  BY DEF Find, Build, Store
<1>3. ASSUME NEW place \in {"build", "store", "list"}, Goto(p, place)
      PROVE  ProbesInv'
  <2>1. Moves(p, place, "none")
    BY <1>1, <1>3, GoesOn
  <2> QED
    BY <2>1, <1>1, MovesKeeps DEF Outcomes
<1>4. ASSUME NEW outcome \in {"panic", "undetermined"}, Return(p, outcome)
      PROVE  ProbesInv'
  <2>1. Moves(p, "idle", outcome)
    BY <1>1, <1>4, GoesOn
  <2> QED
    BY <2>1, <1>1, MovesKeeps DEF Outcomes
<1> QED
  BY <1>2, <1>3, <1>4

\* Discovery is believed only as far as it answered during this very probe.
LEMMA ListKeeps ==
    ASSUME ProbesInv, NEW p \in Probes, List(p)
    PROVE  ProbesInv'
<1>1. /\ at[p] # "idle" /\ Discovery' \in {"nil", "torn", "built"}
      /\ UNCHANGED <<world, facts>> /\ UNCHANGED <<elapsed, budget>>
  BY DEF ProbesInv, TypeOK, List
<1>2. Now \subseteq facts[p]
  BY <1>1 DEF ProbesInv, SeesTheWorld
<1>3. CASE api = "answers" /\ served = requiredResources /\ Goto(p, "backend")
  <2>1. Moves(p, "backend", "none")
    BY <1>1, <1>3, GoesOn
  <2>2. {"all served", "discovery up"} \subseteq facts[p]
    BY <1>2, <1>3, WhatIsNow
  <2> QED
    BY <2>1, <2>2, <1>1, MovesKeeps DEF Outcomes
<1>4. ASSUME NEW outcome \in {"notInstalled", "incomplete"}, Return(p, outcome),
             api = "answers", served # requiredResources
      PROVE  ProbesInv'
  <2>1. Moves(p, "idle", outcome)
    BY <1>1, <1>4, GoesOn
  <2>2. {"some missing", "discovery up"} \subseteq facts[p]
    BY <1>2, <1>4, WhatIsNow
  <2> QED
    BY <2>1, <2>2, <1>1, MovesKeeps DEF Outcomes
<1>5. CASE Return(p, "undetermined")
  <2>1. Moves(p, "idle", "undetermined")
    BY <1>1, <1>5, GoesOn
  <2> QED
    BY <2>1, <1>1, MovesKeeps DEF Outcomes
<1> QED
  BY <1>3, <1>4, <1>5, ResourcesAssumption DEF List

\* The backend's answer completes what discovery began.
LEMMA CheckBackendKeeps ==
    ASSUME ProbesInv, NEW p \in Probes, CheckBackend(p)
    PROVE  ProbesInv'
<1>1. /\ at[p] = "backend" /\ Discovery' \in {"nil", "torn", "built"}
      /\ UNCHANGED <<world, facts>> /\ UNCHANGED <<elapsed, budget>>
  BY DEF ProbesInv, TypeOK, CheckBackend
<1>2. {"all served", "discovery up"} \cup Now \subseteq facts[p]
  BY <1>1 DEF ProbesInv, SeesTheWorld, DiscoveryDone
<1>3. CASE (configured => backend = "answers") /\ Return(p, "ready")
  <2>1. Moves(p, "idle", "ready")
    BY <1>1, <1>3, GoesOn
  <2>2. configured => "backend up" \in facts[p]
    BY <1>2, <1>3, WhatIsNow
  <2> QED
    BY <2>1, <2>2, <1>1, <1>2, MovesKeeps DEF Outcomes
<1>4. CASE Return(p, "backendNotConfirmed")
  <2>1. Moves(p, "idle", "backendNotConfirmed")
    BY <1>1, <1>4, GoesOn
  <2> QED
    BY <2>1, <1>1, MovesKeeps DEF Outcomes
<1> QED
  BY <1>3, <1>4 DEF CheckBackend

\* No wait goes on past its timeout.
LEMMA TickKeeps ==
    ASSUME ProbesInv, NEW p \in Probes, Tick(p)
    PROVE  ProbesInv'
<1>1. /\ TypeOK /\ UNCHANGED world /\ UNCHANGED <<Discovery, at, result, facts, budget>>
      /\ elapsed' = [elapsed EXCEPT ![p] = @ + 1]
      /\ elapsed[p] < DiscoveryTimeout \/ elapsed[p] < Timeout
  BY DEF ProbesInv, Tick
<1>2. /\ Now' = Now /\ configured' = configured
      /\ served' = served /\ api' = api /\ backend' = backend
  BY <1>1, NowKept
<1>3. elapsed[p] \in 0..Timeout \cup 0..DiscoveryTimeout
  BY <1>1 DEF TypeOK
<1>4. elapsed[p] + 1 \in 0..Timeout \cup 0..DiscoveryTimeout
  BY <1>1, <1>3, TimeoutsAssumption
<1>5. elapsed' \in [Probes -> 0..Timeout \cup 0..DiscoveryTimeout]
  BY <1>1, <1>4 DEF TypeOK
<1>6. TypeOK'
  BY <1>1, <1>2, <1>5 DEF TypeOK
<1>7. SeesTheWorld' /\ DiscoveryDone' /\ ReadyIsConfirmed' /\ AbsenceIsConfirmed'
  BY <1>1, <1>2 DEF ProbesInv, SeesTheWorld, DiscoveryDone, ReadyIsConfirmed, AbsenceIsConfirmed
<1> QED
  BY <1>6, <1>7 DEF ProbesInv

LEMMA ProbesNext == ProbesInv /\ [Next]_vars => ProbesInv'
<1> SUFFICES ASSUME ProbesInv, [Next]_vars PROVE ProbesInv'
  OBVIOUS
<1>1. CASE Change
  BY <1>1, ChangeKeeps
<1>2. ASSUME NEW p \in Probes, Begin(p) PROVE ProbesInv'
  BY <1>2, BeginKeeps
<1>3. ASSUME NEW p \in Probes, Step(p) PROVE ProbesInv'
  BY <1>3, ClientKeeps, ListKeeps, CheckBackendKeeps DEF Step
<1>4. ASSUME NEW p \in Probes, Tick(p) PROVE ProbesInv'
  BY <1>4, TickKeeps
<1>5. CASE UNCHANGED vars
  <2>1. UNCHANGED world /\ UNCHANGED <<Discovery, at, elapsed, result, facts, budget>>
    BY <1>5 DEF vars
  <2>2. /\ Now' = Now /\ configured' = configured
        /\ served' = served /\ api' = api /\ backend' = backend
    BY <2>1, NowKept
  <2> QED
    BY <2>1, <2>2 DEF ProbesInv, TypeOK, SeesTheWorld, DiscoveryDone, ReadyIsConfirmed,
                      AbsenceIsConfirmed
<1> QED
  BY <1>1, <1>2, <1>3, <1>4, <1>5 DEF Next

LEMMA ProbesAlways == Spec => []ProbesInv
  BY ProbesInit, ProbesNext, PTL DEF Spec

-----------------------------------------------------------------------------

\* Types: in particular no probe waits longer than the longer of its timeouts
\* (preflight.go:95-100).
THEOREM TypeCorrect == Spec => []TypeOK
<1>1. ProbesInv => TypeOK
  BY DEF ProbesInv
<1> QED
  BY <1>1, ProbesAlways, PTL

\* Ready comes from what this very probe saw, however many probes race for
\* c.Discovery and whatever changes half-way (preflight.go:10-16 and 87-89).
THEOREM ReadyIsSeen == Spec => []ReadyIsConfirmed
<1>1. ProbesInv => ReadyIsConfirmed
  BY DEF ProbesInv
<1> QED
  BY <1>1, ProbesAlways, PTL

\* "Confirmed missing" comes from a discovery that answered, never from one
\* that could not be asked (preflight.go:87-89 and 136-143).
THEOREM AbsenceIsSeen == Spec => []AbsenceIsConfirmed
<1>1. ProbesInv => AbsenceIsConfirmed
  BY DEF ProbesInv
<1> QED
  BY <1>1, ProbesAlways, PTL
=============================================================================
