------------------------- MODULE LeaderFailoverProofs -------------------------
(***************************************************************************)
(* Theorems about LeaderFailover for any number of managers, any specs and *)
(* any number of crashes and edits.                                        *)
(*                                                                         *)
(* The types hold always.  The two safety properties hold where managers   *)
(* elect a leader, as long as every leader was alone and had caught up     *)
(* with its predecessors.  What carries them across a failover is one      *)
(* number: no leader has ever looked at a version younger than seen except *)
(* one it wrote itself, and none will look at an older one.                *)
(***************************************************************************)
EXTENDS LeaderFailover, SequenceTheorems, TLAPS

\* Ready=True for the generation that is stored.
Fresh(cr) == cr.exists /\ cr.ready /\ cr.observedGeneration = cr.generation

\* Two versions of one generation of one object.
SameIntent(a, b) ==
    /\ a.exists /\ b.exists
    /\ a.spec = b.spec /\ a.generation = b.generation /\ a.deleting = b.deleting

Busy(m) == w[m].at # "idle"

\* What can be said of any version: the operator never claims a generation that
\* is not there yet, and speaks only of objects it has put its finalizer on.
Honest(cr) ==
    /\ cr.observedGeneration <= cr.generation
    /\ ~cr.finalizer => ~cr.ready

HistoryIsHonest == \A k \in 1..Len(history) : Honest(history[k])

\* What a worker holds in its hands at each of its steps.
Sound(worker) ==
    /\ Honest(worker.cr)
    /\ worker.cr.finalizer <=> worker.at # "addFinalizer"
    /\ worker.at \in {"addFinalizer", "reconcileCall"} => ~worker.cr.deleting
    /\ worker.at \in {"closeCall", "removeFinalizer"} => worker.cr.deleting
    /\ worker.at = "writeStatus" => ~(worker.cr.deleting /\ worker.cr.ready)

\* Only leaders work, and on versions there are.
WorkersInv ==
    \A m \in Managers :
        /\ state[m] # "leading" => w[m] = Idle /\ m \notin due
        /\ Busy(m) => Sound(w[m]) /\ w[m].version \in 1..Len(history)

-----------------------------------------------------------------------------
(* While leaders follow each other in order. *)

\* There is one leader, and nobody has seen more than its cache shows.
OneLeader ==
    \A m \in Managers : state[m] = "leading" => lease = m /\ cache[m] = seen

\* An object that was alive and guarded in a version a leader may still look at
\* has been guarded ever since.
LiveStaysGuarded ==
    \A k, j \in 1..Len(history) :
        seen <= k /\ k <= j /\ history[k].finalizer /\ ~history[k].deleting
            => history[j].finalizer

\* What Ready=True says is in the graph, and every version a leader may still
\* look at has the same intent.
FreshIsSettled ==
    Fresh(Current) =>
        /\ ~Current.deleting
        /\ graph = Current.spec
        /\ \A k \in seen..Len(history) : SameIntent(history[k], Current)

\* A copy has the intent of every version from seen to its own; what the steps
\* behind it established is still so.
InStep(worker) ==
    /\ \A k \in seen..worker.version : SameIntent(history[k], worker.cr)
    /\ worker.at = "reconcileCall" => Guarded
    /\ (worker.at \in {"addFinalizer", "reconcileCall"} /\ Fresh(Current)) =>
          Current.spec = worker.cr.spec
    /\ worker.at \in {"closeCall", "removeFinalizer"} =>
          worker.version <= seen /\ ~Fresh(Current)
    /\ worker.at = "removeFinalizer" => graph = NoSpec
    /\ (worker.at = "writeStatus" /\ Fresh(worker.cr)) => graph = worker.cr.spec

CopiesInOrder == \A m \in Managers : Busy(m) => InStep(w[m])

InOrder == OneLeader /\ LiveStaysGuarded /\ FreshIsSettled /\ NoOrphanedEdges /\ CopiesInOrder

FailoverInv == TypeOK /\ HistoryIsHonest /\ WorkersInv /\ (LeaderElect /\ orderly => InOrder)

-----------------------------------------------------------------------------
(* Versions of the object. *)

Objects   == Versions \cup {Absent}
Histories == Seq(Objects) \ {<< >>}

LEMMA AbsentFields ==
    /\ Absent.exists = FALSE /\ Absent.spec = NoSpec /\ Absent.generation = 0
    /\ Absent.deleting = FALSE /\ Absent.finalizer = FALSE /\ Absent.ready = FALSE
    /\ Absent.observedGeneration = 0
  BY DEF Absent

LEMMA ObjectFields ==
    ASSUME NEW cr \in Objects
    PROVE  /\ cr.exists \in BOOLEAN /\ cr.deleting \in BOOLEAN /\ cr.finalizer \in BOOLEAN
           /\ cr.ready \in BOOLEAN
           /\ cr.generation \in Nat /\ cr.observedGeneration \in Nat
           /\ cr.exists => cr \in Versions
           /\ ~cr.exists => cr = Absent
<1>1. CASE cr \in Versions
  BY <1>1 DEF Versions
<1>2. CASE cr = Absent
  <2>1. 0 \in Nat /\ FALSE \in BOOLEAN
    OBVIOUS
  <2>2. /\ cr.exists = FALSE /\ cr.generation = 0 /\ cr.deleting = FALSE /\ cr.finalizer = FALSE
        /\ cr.ready = FALSE /\ cr.observedGeneration = 0
    BY <1>2, AbsentFields, Zenon
  <2> QED
    BY <1>2, <2>1, <2>2
<1> QED
  BY <1>1, <1>2 DEF Objects

\* What users change of a version: its spec or its deletion, and the generation.
LEMMA UsersChange ==
    ASSUME NEW cr \in Versions
    PROVE  /\ \A s \in Specs :
                LET edited == [cr EXCEPT !.spec = s, !.generation = @ + 1]
                IN  /\ edited \in Versions /\ edited.exists
                    /\ edited.ready = cr.ready /\ edited.finalizer = cr.finalizer
                    /\ edited.generation = cr.generation + 1
                    /\ edited.observedGeneration = cr.observedGeneration
           /\ LET going == [cr EXCEPT !.deleting = TRUE, !.generation = @ + 1]
              IN  /\ going \in Versions /\ going.exists /\ going.deleting
                  /\ going.ready = cr.ready /\ going.finalizer = cr.finalizer
                  /\ going.generation = cr.generation + 1
                  /\ going.observedGeneration = cr.observedGeneration
<1>1. cr.generation + 1 \in Nat
  BY DEF Versions
<1>2. ASSUME NEW s \in Specs, NEW edited, edited = [cr EXCEPT !.spec = s, !.generation = @ + 1]
      PROVE  /\ edited \in Versions /\ edited.exists
             /\ edited.ready = cr.ready /\ edited.finalizer = cr.finalizer
             /\ edited.generation = cr.generation + 1
             /\ edited.observedGeneration = cr.observedGeneration
  BY <1>1, <1>2 DEF Versions
<1>3. ASSUME NEW going, going = [cr EXCEPT !.deleting = TRUE, !.generation = @ + 1]
      PROVE  /\ going \in Versions /\ going.exists /\ going.deleting
             /\ going.ready = cr.ready /\ going.finalizer = cr.finalizer
             /\ going.generation = cr.generation + 1
             /\ going.observedGeneration = cr.observedGeneration
  BY <1>1, <1>3 DEF Versions
<1> QED
  BY <1>2, <1>3

LEMMA HistoryTypes ==
    ASSUME history \in Histories
    PROVE  /\ Len(history) \in Nat \ {0}
           /\ \A k \in 1..Len(history) : history[k] \in Objects
           /\ Current \in Objects
<1>1. history \in Seq(Objects) /\ history # << >>
  BY DEF Histories
<1>2. Len(history) \in Nat \ {0}
  BY <1>1, EmptySeq
<1>3. \A k \in 1..Len(history) : history[k] \in Objects
  BY <1>1, ElementOfSeq
<1> QED
  BY <1>2, <1>3 DEF Current

\* Storing a version makes it the current one and leaves those before it.
LEMMA StoreHistory ==
    ASSUME history \in Histories, NEW cr \in Objects, Store(cr)
    PROVE  /\ history' \in Histories
           /\ Len(history') = Len(history) + 1
           /\ \A k \in 1..Len(history) : history'[k] = history[k]
           /\ history'[Len(history) + 1] = cr
           /\ Current' = cr
<1>1. history \in Seq(Objects) /\ history' = Append(history, cr)
  BY DEF Histories, Store
<1>2. /\ Append(history, cr) \in Seq(Objects)
      /\ Append(history, cr) # << >>
      /\ Len(Append(history, cr)) = Len(history) + 1
      /\ \A k \in 1..Len(history) : Append(history, cr)[k] = history[k]
      /\ Append(history, cr)[Len(history) + 1] = cr
  BY <1>1, AppendProperties
<1> QED
  BY <1>1, <1>2 DEF Histories, Current

\* A stored version that is honest leaves the history honest.
LEMMA StoreHonest ==
    ASSUME history \in Histories, NEW cr \in Objects, Store(cr), HistoryIsHonest, Honest(cr)
    PROVE  HistoryIsHonest'
<1>1. \A k \in 1..Len(history) : Honest(history[k])
  BY DEF HistoryIsHonest
<1>2. Len(history) \in Nat
  BY HistoryTypes
<1>3. ASSUME NEW k \in 1..Len(history') PROVE Honest(history'[k])
  <2>1. k \in 1..Len(history) \/ k = Len(history) + 1
    BY <1>2, StoreHistory
  <2> QED
    BY <1>1, <2>1, StoreHistory
<1> QED
  BY <1>3 DEF HistoryIsHonest, Honest

\* Where the type invariant speaks of histories.
LEMMA TypeOfHistory == TypeOK => history \in Histories
  BY DEF TypeOK, Histories, Objects

LEMMA IdleIsIdle == Idle.at = "idle"
  BY DEF Idle

\* A worker is idle or has an object in its hands.
LEMMA WorkerTypes ==
    ASSUME NEW worker \in Workers, worker.at # "idle"
    PROVE  /\ worker.cr \in Versions /\ worker.cr \in Objects /\ worker.version \in Nat
           /\ worker.at \in {"addFinalizer", "reconcileCall", "writeStatus", "closeCall",
                             "removeFinalizer"}
  BY IdleIsIdle DEF Workers, Objects

-----------------------------------------------------------------------------
(* Users. *)

\* What a user's step does: it stores an honest version that claims nothing of
\* its generation and keeps a finalizer.
UserStores(cr) ==
    /\ Store(cr) /\ Honest(cr) /\ ~Fresh(cr)
    /\ Current.finalizer => cr.exists /\ cr.finalizer
    /\ budget' \in Nat
    /\ UNCHANGED <<graph, lease, state, cache, seen, due, w, orderly>>

LEMMA UserIsHarmless ==
    ASSUME TypeOK, HistoryIsHonest, User
    PROVE  \E cr \in Objects : UserStores(cr)
<1>1. /\ Current \in Objects /\ Len(history) \in Nat \ {0}
      /\ Current.exists => Current \in Versions
      /\ ~Current.exists => Current = Absent
  BY TypeOfHistory, HistoryTypes, ObjectFields
<1>2. Honest(Current)
  BY <1>1 DEF HistoryIsHonest, Current
<1>3. ASSUME Disturb PROVE budget' \in Nat
  BY <1>3 DEF Disturb, TypeOK
<1>4. CASE Create
  <2>1. PICK s \in Specs : Store([Absent EXCEPT !.exists = TRUE, !.spec = s, !.generation = 1])
    BY <1>4 DEF Create
  <2>2. PICK cr : cr = [Absent EXCEPT !.exists = TRUE, !.spec = s, !.generation = 1]
    OBVIOUS
  <2>3. /\ cr \in Versions /\ ~cr.ready /\ ~cr.finalizer
        /\ cr.generation = 1 /\ cr.observedGeneration = 0
    BY <2>2 DEF Absent, Versions
  <2>4. Honest(cr) /\ ~Fresh(cr)
    BY <2>3 DEF Honest, Fresh
  <2>5. ~Current.finalizer
    BY <1>1, <1>4, AbsentFields DEF Create
  <2>6. Store(cr)
    BY <2>1, <2>2
  <2>7. Disturb /\ UNCHANGED <<graph, lease, state, cache, seen, due, w, orderly>>
    BY <1>4 DEF Create
  <2> QED
    BY <1>3, <2>3, <2>4, <2>5, <2>6, <2>7 DEF Objects, UserStores
<1>5. CASE Edit
  <2>1. PICK s \in Specs : Store([Current EXCEPT !.spec = s, !.generation = @ + 1])
    BY <1>5 DEF Edit
  <2>2. PICK cr : cr = [Current EXCEPT !.spec = s, !.generation = @ + 1]
    OBVIOUS
  <2>3. Disturb /\ Current.exists /\ UNCHANGED <<graph, lease, state, cache, seen, due, w, orderly>>
    BY <1>5 DEF Edit
  <2>4. /\ cr \in Versions /\ cr.ready = Current.ready /\ cr.finalizer = Current.finalizer
        /\ cr.generation = Current.generation + 1 /\ cr.exists
        /\ cr.observedGeneration = Current.observedGeneration
    BY <1>1, <2>2, <2>3, UsersChange
  <2>5. Honest(cr) /\ ~Fresh(cr)
    BY <1>1, <1>2, <2>3, <2>4, ObjectFields DEF Honest, Fresh
  <2>6. Store(cr)
    BY <2>1, <2>2
  <2> QED
    BY <1>3, <2>3, <2>4, <2>5, <2>6 DEF Objects, UserStores
<1>6. CASE Delete
  <2>1. PICK going : going = [Current EXCEPT !.deleting = TRUE, !.generation = @ + 1]
    OBVIOUS
  <2>2. /\ Disturb /\ Current.exists /\ UNCHANGED <<graph, lease, state, cache, seen, due, w, orderly>>
        /\ Store(Settled(going))
    BY <1>6, <2>1 DEF Delete
  <2>3. /\ going \in Versions /\ going.ready = Current.ready /\ going.deleting
        /\ going.finalizer = Current.finalizer /\ going.exists
        /\ going.generation = Current.generation + 1
        /\ going.observedGeneration = Current.observedGeneration
    BY <1>1, <2>1, <2>2, UsersChange
  <2>4. Honest(going) /\ ~Fresh(going)
    BY <1>1, <1>2, <2>2, <2>3, ObjectFields DEF Honest, Fresh
  <2>5. Honest(Absent) /\ ~Fresh(Absent)
    BY AbsentFields DEF Honest, Fresh
  <2>6. CASE Current.finalizer
    <3>1. Settled(going) = going
      BY <2>3, <2>6 DEF Settled
    <3> QED
      BY <1>3, <2>2, <2>3, <2>4, <2>6, <3>1 DEF Objects, UserStores
  <2>7. CASE ~Current.finalizer
    <3>1. Settled(going) = Absent
      BY <2>3, <2>7 DEF Settled
    <3> QED
      BY <1>3, <2>2, <2>5, <2>7, <3>1 DEF Objects, UserStores
  <2> QED
    BY <2>6, <2>7
<1> QED
  BY <1>4, <1>5, <1>6 DEF User

\* A store keeps what leaders may still look at guarded, if it keeps the
\* finalizer of what it replaces or a leader saw that one being deleted.
LEMMA StoreKeepsGuards ==
    ASSUME TypeOK, LiveStaysGuarded, NEW cr \in Objects, Store(cr), UNCHANGED seen,
           \/ Current.finalizer => cr.finalizer
           \/ Current.deleting /\ seen = Len(history)
    PROVE  LiveStaysGuarded'
<1>1. history \in Histories /\ Len(history) \in Nat \ {0} /\ seen \in 1..Len(history)
  BY TypeOfHistory, HistoryTypes DEF TypeOK
<1> SUFFICES ASSUME NEW k \in 1..Len(history'), NEW j \in 1..Len(history'), seen <= k, k <= j,
                    history'[k].finalizer, ~history'[k].deleting
             PROVE  history'[j].finalizer
  BY DEF LiveStaysGuarded
<1>2. CASE j \in 1..Len(history)
  <2>1. k \in 1..Len(history)
    BY <1>1, <1>2
  <2> QED
    BY <1>1, <1>2, <2>1, StoreHistory DEF LiveStaysGuarded
<1>3. CASE j = Len(history) + 1 /\ k = Len(history) + 1
  BY <1>3
<1>4. CASE j = Len(history) + 1 /\ k \in 1..Len(history)
  <2>1. history[k].finalizer /\ ~history[k].deleting
    BY <1>1, <1>4, StoreHistory
  <2>2. history[Len(history)].finalizer
    BY <1>1, <1>4, <2>1 DEF LiveStaysGuarded
  <2>3. ASSUME Current.deleting, seen = Len(history) PROVE FALSE
    <3>1. k = Len(history)
      BY <1>1, <1>4, <2>3
    <3> QED
      BY <2>1, <2>3, <3>1 DEF Current
  <2> QED
    BY <1>1, <1>4, <2>2, <2>3, StoreHistory DEF Current
<1> QED
  BY <1>1, <1>2, <1>3, <1>4, StoreHistory

LEMMA UserKeeps ==
    ASSUME FailoverInv, User
    PROVE  FailoverInv'
<1>1. TypeOK /\ HistoryIsHonest /\ WorkersInv
  BY DEF FailoverInv
<1>2. PICK cr \in Objects : UserStores(cr)
  BY <1>1, UserIsHarmless
<1>3. /\ Store(cr) /\ Honest(cr) /\ ~Fresh(cr) /\ (Current.finalizer => cr.exists /\ cr.finalizer)
      /\ budget' \in Nat /\ UNCHANGED <<graph, lease, state, cache, seen, due, w, orderly>>
  BY <1>2 DEF UserStores
<1>4. history \in Histories /\ Len(history) \in Nat \ {0}
  BY <1>1, TypeOfHistory, HistoryTypes
<1>5. /\ history' \in Histories /\ Len(history') = Len(history) + 1 /\ Current' = cr
      /\ \A k \in 1..Len(history) : history'[k] = history[k]
  BY <1>3, <1>4, StoreHistory
<1>6. 1..Len(history) \subseteq 1..Len(history')
  BY <1>4, <1>5
<1>7. TypeOK'
  BY <1>1, <1>3, <1>5, <1>6 DEF TypeOK, Histories, Objects
<1>8. HistoryIsHonest'
  BY <1>1, <1>3, <1>4, StoreHonest
<1>9. WorkersInv'
  BY <1>1, <1>3, <1>6 DEF WorkersInv, Busy, Sound, Honest
<1>10. ASSUME LeaderElect, orderly' PROVE InOrder'
  <2>1. OneLeader /\ LiveStaysGuarded /\ NoOrphanedEdges /\ CopiesInOrder
    BY <1>3, <1>10 DEF FailoverInv, InOrder
  <2>2. OneLeader'
    BY <1>3, <2>1 DEF OneLeader
  <2>3. LiveStaysGuarded'
    BY <1>1, <1>3, <2>1, StoreKeepsGuards
  <2>4. FreshIsSettled'
    BY <1>3, <1>5 DEF FreshIsSettled, Fresh
  <2>5. Guarded => Guarded'
    BY <1>3, <1>5 DEF Guarded
  <2>6. NoOrphanedEdges'
    BY <1>3, <2>1, <2>5 DEF NoOrphanedEdges
  <2>7. ~Fresh(Current)'
    BY <1>3, <1>5 DEF Fresh
  <2>8. ASSUME NEW m \in Managers, Busy(m)' PROVE InStep(w[m])'
    <3>1. Busy(m) /\ InStep(w[m]) /\ w[m].version \in 1..Len(history) /\ w'[m] = w[m]
      BY <1>1, <1>3, <2>1, <2>8 DEF CopiesInOrder, WorkersInv, Busy
    <3>2. seen \in 1..Len(history) /\ seen' = seen
      BY <1>1, <1>3 DEF TypeOK
    <3>3. \A k \in seen'..w'[m].version : history'[k] = history[k]
      BY <1>4, <1>5, <3>1, <3>2
    <3> QED
      BY <1>3, <2>5, <2>7, <3>1, <3>2, <3>3 DEF InStep, SameIntent, Fresh
  <2> QED
    BY <2>2, <2>3, <2>4, <2>6, <2>8 DEF InOrder, CopiesInOrder
<1> QED
  BY <1>7, <1>8, <1>9, <1>10 DEF FailoverInv

-----------------------------------------------------------------------------
(* Managers and the lease: nothing stored or asked for changes. *)

\* The part of the state the lifecycle of a manager leaves alone.
LEMMA LifecycleFrame ==
    ASSUME NEW m \in Managers, Lifecycle(m)
    PROVE  /\ UNCHANGED <<history, graph>> /\ Current' = Current /\ Guarded' = Guarded
           /\ w' = w \/ w' = [w EXCEPT ![m] = Idle]
  BY DEF Lifecycle, Start, Lead, Crash, Expire, GiveUp, Observe, Stopped, Current, Guarded

LEMMA LifecycleTypes ==
    ASSUME TypeOK, NEW m \in Managers, Lifecycle(m)
    PROVE  TypeOK'
<1>1. history' = history /\ graph' = graph
  BY LifecycleFrame
<1>2. Len(history) \in Nat \ {0} /\ cache[m] \in 1..Len(history) /\ seen \in 1..Len(history)
  BY TypeOfHistory, HistoryTypes DEF TypeOK
<1>3. Idle \in Workers
  BY DEF Workers
<1>4. Disturb => budget' \in Nat
  BY DEF Disturb, TypeOK
<1>5. ASSUME Stopped(m)
      PROVE  /\ state' \in [Managers -> {"down", "standby", "leading"}]
             /\ due' \subseteq Managers /\ w' \in [Managers -> Workers]
  BY <1>3, <1>5 DEF Stopped, TypeOK
<1>6. CASE Start(m)
  BY <1>1, <1>6 DEF Start, TypeOK
<1>7. CASE Lead(m)
  BY <1>1, <1>2, <1>7 DEF Lead, TypeOK
<1>8. CASE Crash(m)
  BY <1>1, <1>4, <1>5, <1>8 DEF Crash, TypeOK
<1>9. CASE Expire(m)
  BY <1>1, <1>4, <1>9 DEF Expire, TypeOK
<1>10. CASE GiveUp(m)
  BY <1>1, <1>5, <1>10 DEF GiveUp, TypeOK
<1>11. CASE Observe(m)
  <2>1. cache[m] + 1 \in 1..Len(history)
    BY <1>2, <1>11 DEF Observe
  <2>2. cache' \in [Managers -> 1..Len(history)] /\ seen' \in 1..Len(history)
    BY <1>2, <1>11, <2>1 DEF Observe, TypeOK
  <2> QED
    BY <1>1, <1>11, <2>2 DEF Observe, TypeOK
<1> QED
  BY <1>6, <1>7, <1>8, <1>9, <1>10, <1>11 DEF Lifecycle

LEMMA LifecycleWorkers ==
    ASSUME TypeOK, WorkersInv, NEW m \in Managers, Lifecycle(m)
    PROVE  WorkersInv'
<1>1. history' = history
  BY LifecycleFrame
<1>2. ASSUME NEW q \in Managers, Busy(q)' PROVE Busy(q) /\ w'[q] = w[q]
  BY <1>2, LifecycleFrame, IdleIsIdle DEF Busy, TypeOK
<1>3. ASSUME NEW q \in Managers, state'[q] # "leading" PROVE w'[q] = Idle /\ q \notin due'
  <2>1. state[q] # "leading" => w[q] = Idle /\ q \notin due
    BY DEF WorkersInv
  <2>2. CASE Start(m)
    BY <1>3, <2>1, <2>2 DEF Start, TypeOK
  <2>3. CASE Lead(m)
    BY <1>3, <2>1, <2>3 DEF Lead, TypeOK
  <2>4. CASE Crash(m) \/ GiveUp(m)
    BY <1>3, <2>1, <2>4 DEF Crash, GiveUp, Stopped, TypeOK
  <2>5. CASE Expire(m)
    BY <1>3, <2>1, <2>5 DEF Expire
  <2>6. CASE Observe(m)
    BY <1>3, <2>1, <2>6 DEF Observe
  <2> QED
    BY <2>2, <2>3, <2>4, <2>5, <2>6 DEF Lifecycle
<1>4. ASSUME NEW q \in Managers, Busy(q)'
      PROVE  Sound(w'[q]) /\ w'[q].version \in 1..Len(history')
  BY <1>1, <1>2, <1>4 DEF WorkersInv
<1> QED
  BY <1>3, <1>4 DEF WorkersInv, Sound, Honest

\* The order of leaders: whoever begins has caught up, whoever goes takes its
\* worker along, and seen only grows.
LEMMA LifecycleOrder ==
    ASSUME LeaderElect, TypeOK, orderly => OneLeader, NEW m \in Managers, Lifecycle(m), orderly'
    PROVE  /\ orderly
           /\ OneLeader'
           /\ seen <= seen'
<1>1. cache[m] \in Nat /\ seen \in Nat
  BY TypeOfHistory, HistoryTypes DEF TypeOK
<1>2. CASE Start(m)
  BY <1>1, <1>2 DEF Start, OneLeader, TypeOK
<1>3. CASE Lead(m)
  <2>1. orderly /\ lease = NoManager /\ cache[m] >= seen /\ lease' = m /\ cache' = cache
    BY <1>3 DEF Lead, MayLead
  <2>2. seen' = cache[m]
    BY <1>1, <1>3, <2>1 DEF Lead
  <2>3. \A q \in Managers : state[q] # "leading"
    BY <2>1, NamesAssumption DEF OneLeader
  <2>4. \A q \in Managers : state'[q] = "leading" => q = m
    BY <1>3, <2>3 DEF Lead, TypeOK
  <2> QED
    BY <1>1, <2>1, <2>2, <2>4 DEF OneLeader
<1>4. CASE Crash(m)
  BY <1>1, <1>4 DEF Crash, Stopped, OneLeader, TypeOK
<1>5. CASE Expire(m)
  BY <1>5 DEF Expire
<1>6. CASE GiveUp(m)
  BY <1>1, <1>6 DEF GiveUp, Stopped, OneLeader, TypeOK
<1>7. CASE Observe(m)
  <2>1. orderly /\ cache' = [cache EXCEPT ![m] = @ + 1] /\ UNCHANGED <<lease, state>>
        /\ seen' = (IF state[m] = "leading" /\ cache[m] + 1 > seen THEN cache[m] + 1 ELSE seen)
    BY <1>7 DEF Observe
  <2>2. \A q \in Managers : cache'[q] = (IF q = m THEN cache[m] + 1 ELSE cache[q])
    BY <2>1 DEF TypeOK
  <2>3. seen' = (IF state[m] = "leading" THEN seen + 1 ELSE seen)
    BY <1>1, <2>1 DEF OneLeader
  <2>4. ASSUME NEW q \in Managers, state'[q] = "leading" PROVE lease' = q /\ cache'[q] = seen'
    <3>1. lease = q /\ cache[q] = seen
      BY <2>1, <2>4 DEF OneLeader
    <3>2. q # m => state[m] # "leading"
      BY <2>1, <3>1 DEF OneLeader
    <3> QED
      BY <2>1, <2>2, <2>3, <2>4, <3>1, <3>2
  <2> QED
    BY <1>1, <2>1, <2>3, <2>4 DEF OneLeader
<1> QED
  BY <1>2, <1>3, <1>4, <1>5, <1>6, <1>7 DEF Lifecycle

LEMMA LifecycleKeeps ==
    ASSUME FailoverInv, NEW m \in Managers, Lifecycle(m)
    PROVE  FailoverInv'
<1>1. TypeOK /\ HistoryIsHonest /\ WorkersInv /\ (LeaderElect /\ orderly => InOrder)
  BY DEF FailoverInv
<1>2. TypeOK' /\ WorkersInv'
  BY <1>1, LifecycleTypes, LifecycleWorkers
<1>3. history' = history /\ graph' = graph /\ Current' = Current /\ Guarded' = Guarded
  BY LifecycleFrame
<1>4. HistoryIsHonest'
  BY <1>1, <1>3 DEF HistoryIsHonest, Honest
<1>5. ASSUME LeaderElect, orderly' PROVE InOrder'
  <2>1. orderly => OneLeader
    BY <1>1, <1>5 DEF InOrder
  <2>2. orderly /\ OneLeader' /\ seen <= seen'
    BY <1>1, <1>5, <2>1, LifecycleOrder
  <2>3. InOrder
    BY <1>1, <1>5, <2>2
  <2>4. seen \in Nat /\ seen' \in Nat /\ Len(history) \in Nat
    BY <1>1, <1>2, <1>3, TypeOfHistory, HistoryTypes DEF TypeOK
  <2>5. LiveStaysGuarded'
    BY <1>3, <2>2, <2>3, <2>4 DEF InOrder, LiveStaysGuarded
  <2>6. FreshIsSettled'
    BY <1>3, <2>2, <2>3, <2>4 DEF InOrder, FreshIsSettled, Fresh, SameIntent
  <2>7. NoOrphanedEdges'
    BY <1>3, <2>3 DEF InOrder, NoOrphanedEdges
  <2>8. ASSUME NEW q \in Managers, Busy(q)' PROVE InStep(w[q])'
    <3>1. Busy(q) /\ w'[q] = w[q]
      BY <1>1, <2>8, LifecycleFrame, IdleIsIdle DEF Busy, TypeOK
    <3>2. InStep(w[q]) /\ w[q].version \in Nat
      BY <1>1, <2>3, <3>1 DEF InOrder, CopiesInOrder, WorkersInv
    <3>3. \A k \in seen'..w[q].version : k \in seen..w[q].version
      BY <2>2, <2>4, <3>2
    <3>4. w[q].version <= seen => w[q].version <= seen'
      BY <2>2, <2>4, <3>2
    <3> QED
      BY <1>3, <3>1, <3>2, <3>3, <3>4 DEF InStep, SameIntent, Fresh
  <2> QED
    BY <2>2, <2>5, <2>6, <2>7, <2>8 DEF InOrder, CopiesInOrder
<1> QED
  BY <1>2, <1>4, <1>5 DEF FailoverInv

-----------------------------------------------------------------------------
(* The worker of a leader. *)

\* What a worker's step leaves alone, and how far it may go elsewhere.
WorkerStep(m) ==
    /\ state[m] = "leading"
    /\ due' \in {due, due \cup {m}, due \ {m}}
    /\ UNCHANGED <<lease, state, cache, seen, orderly>>
    /\ graph' \in Specs \cup {NoSpec}
    /\ budget' \in Nat

\* Who is busy, or has the object queued, leads.
LEMMA OnlyLeadersWork ==
    ASSUME WorkersInv, NEW m \in Managers, Busy(m) \/ m \in due
    PROVE  state[m] = "leading"
  BY IdleIsIdle DEF WorkersInv, Busy

\* Types and what holds of any worker, after any step of one.
LEMMA WorkerMoves ==
    ASSUME TypeOK, HistoryIsHonest, WorkersInv, NEW m \in Managers, WorkerStep(m),
           NEW worker \in Workers, w' = [w EXCEPT ![m] = worker],
           history' = history \/ \E cr \in Objects : Store(cr) /\ Honest(cr),
           worker.at # "idle" => Sound(worker) /\ worker.version \in 1..Len(history')
    PROVE  TypeOK' /\ HistoryIsHonest' /\ WorkersInv'
<1>1. history \in Histories /\ Len(history) \in Nat \ {0}
  BY TypeOfHistory, HistoryTypes
<1>2. history' \in Histories /\ 1..Len(history) \subseteq 1..Len(history')
  <2>1. CASE history' = history
    BY <1>1, <2>1
  <2>2. ASSUME NEW cr \in Objects, Store(cr) PROVE <1>2
    BY <1>1, <2>2, StoreHistory
  <2> QED
    BY <2>1, <2>2
<1>3. HistoryIsHonest'
  <2>1. CASE history' = history
    BY <2>1 DEF HistoryIsHonest, Honest
  <2>2. ASSUME NEW cr \in Objects, Store(cr), Honest(cr) PROVE HistoryIsHonest'
    BY <1>1, <2>2, StoreHonest
  <2> QED
    BY <2>1, <2>2
<1>4. w' \in [Managers -> Workers] /\ due' \subseteq Managers
  BY DEF TypeOK, WorkerStep
<1>5. TypeOK'
  BY <1>2, <1>4 DEF TypeOK, WorkerStep, Histories, Objects
<1>6. ASSUME NEW q \in Managers, q # m
      PROVE  w'[q] = w[q] /\ (q \in due' <=> q \in due)
  BY <1>6 DEF TypeOK, WorkerStep
<1>7. w'[m] = worker
  BY DEF TypeOK
<1>8. ASSUME NEW q \in Managers, state'[q] # "leading" PROVE w'[q] = Idle /\ q \notin due'
  BY <1>6, <1>8 DEF WorkersInv, WorkerStep
<1>9. ASSUME NEW q \in Managers, w'[q].at # "idle"
      PROVE  Sound(w'[q]) /\ w'[q].version \in 1..Len(history')
  <2>1. CASE q = m
    BY <1>7, <1>9, <2>1
  <2>2. CASE q # m
    BY <1>2, <1>6, <1>9, <2>2 DEF WorkersInv, Busy
  <2> QED
    BY <2>1, <2>2
<1>10. WorkersInv'
  BY <1>8, <1>9 DEF WorkersInv, Busy, Sound, Honest
<1> QED
  BY <1>3, <1>5, <1>10

\* In order, the one leader's worker is the only one: its copy is the only one
\* to look at.
LEMMA WorkerInOrder ==
    ASSUME TypeOK, WorkersInv, InOrder, NEW m \in Managers, WorkerStep(m),
           NEW worker, w' = [w EXCEPT ![m] = worker],
           LiveStaysGuarded', FreshIsSettled', NoOrphanedEdges',
           worker.at # "idle" => InStep(worker)'
    PROVE  InOrder'
<1>1. OneLeader'
  BY DEF InOrder, OneLeader, WorkerStep
<1>2. ASSUME NEW q \in Managers, Busy(q)' PROVE q = m
  <2>1. q # m => w'[q] = w[q]
    BY DEF TypeOK
  <2>2. q # m => Busy(q)
    BY <1>2, <2>1 DEF Busy
  <2>3. q # m => lease = q /\ lease = m
    BY <2>2, OnlyLeadersWork DEF InOrder, OneLeader, WorkerStep
  <2> QED
    BY <2>3
<1>3. w'[m] = worker
  BY DEF TypeOK
<1>4. ASSUME NEW q \in Managers, Busy(q)' PROVE InStep(w[q])'
  <2>1. q = m /\ w'[q] = worker
    BY <1>2, <1>3, <1>4
  <2>2. worker.at # "idle"
    BY <1>4, <2>1 DEF Busy
  <2> QED
    BY <2>1, <2>2 DEF InStep
<1> QED
  BY <1>1, <1>4 DEF InOrder, CopiesInOrder

\* A reconcile that ends without storing anything leaves everything as it is.
LEMMA ComesBack ==
    ASSUME FailoverInv, NEW m \in Managers, WorkerStep(m), w' = [w EXCEPT ![m] = Idle],
           UNCHANGED <<history, graph>>
    PROVE  FailoverInv'
<1>1. TypeOK /\ HistoryIsHonest /\ WorkersInv /\ (LeaderElect /\ orderly => InOrder)
  BY DEF FailoverInv
<1>2. Idle \in Workers /\ Idle.at = "idle"
  BY IdleIsIdle DEF Workers
<1>3. TypeOK' /\ HistoryIsHonest' /\ WorkersInv'
  BY <1>1, <1>2, WorkerMoves
<1>4. ASSUME LeaderElect, orderly' PROVE InOrder'
  <2>1. InOrder /\ seen' = seen
    BY <1>1, <1>4 DEF WorkerStep
  <2>2. LiveStaysGuarded' /\ FreshIsSettled' /\ NoOrphanedEdges'
    BY <2>1 DEF InOrder, LiveStaysGuarded, FreshIsSettled, NoOrphanedEdges, Guarded, Current,
                Fresh, SameIntent
  <2> QED
    BY <1>1, <1>2, <2>1, <2>2, WorkerInOrder
<1> QED
  BY <1>3, <1>4 DEF FailoverInv

\* The last version guards or is not there.
LEMMA FinalizerGuards ==
    ASSUME TypeOK
    PROVE  Current \in Objects /\ (Guarded <=> Current.finalizer)
  BY TypeOfHistory, HistoryTypes, ObjectFields, AbsentFields DEF Guarded

\* A reconcile starts from the cache, which shows what any leader has seen.
LEMMA GetKeeps ==
    ASSUME FailoverInv, NEW m \in Managers, Get(m)
    PROVE  FailoverInv'
<1>1. TypeOK /\ HistoryIsHonest /\ WorkersInv /\ (LeaderElect /\ orderly => InOrder)
  BY DEF FailoverInv
<1>2. m \in due /\ w[m].at = "idle" /\ due' = due \ {m}
      /\ UNCHANGED <<history, graph, lease, state, cache, seen, budget, orderly>>
  BY DEF Get
<1>3. WorkerStep(m)
  BY <1>1, <1>2, OnlyLeadersWork DEF WorkerStep, TypeOK
<1>4. /\ Len(history) \in Nat \ {0} /\ cache[m] \in 1..Len(history) /\ seen \in 1..Len(history)
      /\ history[cache[m]] \in Objects
  BY <1>1, TypeOfHistory, HistoryTypes DEF TypeOK
<1>5. LET cr == history[cache[m]]
      IN  \/ /\ cr.exists
             /\ \E step \in {"addFinalizer", "reconcileCall", "closeCall"} :
                   /\ w' = [w EXCEPT ![m] = [at |-> step, cr |-> cr, version |-> cache[m]]]
                   /\ cr.finalizer <=> step # "addFinalizer"
                   /\ cr.deleting <=> step = "closeCall"
          \/ w' = w
  <2> DEFINE cr == history[cache[m]]
  <2>1. cr.exists \in BOOLEAN /\ cr.finalizer \in BOOLEAN /\ cr.deleting \in BOOLEAN
    BY <1>4, ObjectFields
  <2>2. ASSUME cr.exists, cr.deleting => cr.finalizer, cr.deleting
        PROVE  /\ w' = [w EXCEPT ![m] = [at |-> "closeCall", cr |-> cr, version |-> cache[m]]]
               /\ cr.finalizer
    BY <2>1, <2>2 DEF Get
  <2>3. ASSUME cr.exists, ~cr.deleting, cr.finalizer
        PROVE  w' = [w EXCEPT ![m] = [at |-> "reconcileCall", cr |-> cr, version |-> cache[m]]]
    BY <2>1, <2>3 DEF Get
  <2>4. ASSUME cr.exists, ~cr.deleting, ~cr.finalizer
        PROVE  w' = [w EXCEPT ![m] = [at |-> "addFinalizer", cr |-> cr, version |-> cache[m]]]
    BY <2>1, <2>4 DEF Get
  <2>5. ~(cr.exists /\ (cr.deleting => cr.finalizer)) => w' = w
    BY DEF Get
  <2> HIDE DEF cr
  <2>6. \/ cr.exists /\ (cr.deleting => cr.finalizer) /\ cr.deleting
        \/ cr.exists /\ ~cr.deleting /\ cr.finalizer
        \/ cr.exists /\ ~cr.deleting /\ ~cr.finalizer
        \/ ~(cr.exists /\ (cr.deleting => cr.finalizer))
    BY <2>1
  <2>7. \/ /\ cr.exists
           /\ \E step \in {"addFinalizer", "reconcileCall", "closeCall"} :
                 /\ w' = [w EXCEPT ![m] = [at |-> step, cr |-> cr, version |-> cache[m]]]
                 /\ cr.finalizer <=> step # "addFinalizer"
                 /\ cr.deleting <=> step = "closeCall"
        \/ w' = w
    BY <2>2, <2>3, <2>4, <2>5, <2>6
  <2> QED
    BY <2>7 DEF cr
<1>6. PICK cr : cr = history[cache[m]]
  OBVIOUS
<1>7. CASE w' = w
  <2>1. w[m] \in Workers /\ w' = [w EXCEPT ![m] = w[m]]
    BY <1>1, <1>7 DEF TypeOK
  <2>2. PICK worker : worker = w[m]
    OBVIOUS
  <2>3. TypeOK' /\ HistoryIsHonest' /\ WorkersInv'
    BY <1>1, <1>2, <1>3, <2>1, <2>2, WorkerMoves
  <2>4. ASSUME LeaderElect, orderly' PROVE InOrder'
    <3>1. InOrder
      BY <1>1, <1>2, <2>4
    <3>2. LiveStaysGuarded' /\ FreshIsSettled' /\ NoOrphanedEdges'
      BY <1>2, <3>1 DEF InOrder, LiveStaysGuarded, FreshIsSettled, NoOrphanedEdges, Guarded,
                        Current, Fresh, SameIntent
    <3> QED
      BY <1>1, <1>2, <1>3, <2>1, <2>2, <3>1, <3>2, WorkerInOrder
  <2> QED
    BY <2>3, <2>4 DEF FailoverInv
<1>8. ASSUME NEW step \in {"addFinalizer", "reconcileCall", "closeCall"}, cr.exists,
             w' = [w EXCEPT ![m] = [at |-> step, cr |-> cr, version |-> cache[m]]],
             cr.finalizer <=> step # "addFinalizer", cr.deleting <=> step = "closeCall"
      PROVE  FailoverInv'
  <2>1. PICK worker : worker = [at |-> step, cr |-> cr, version |-> cache[m]]
    OBVIOUS
  <2>2. worker.at = step /\ worker.cr = cr /\ worker.version = cache[m]
    BY <2>1
  <2>3. cr \in Versions
    BY <1>4, <1>6, <1>8, ObjectFields
  <2>4. worker \in Workers
    BY <1>4, <2>1, <2>3 DEF Workers
  <2>5. Honest(cr)
    BY <1>1, <1>4, <1>6 DEF HistoryIsHonest
  <2>6. Sound(worker)
    BY <1>8, <2>2, <2>5 DEF Sound
  <2>7. TypeOK' /\ HistoryIsHonest' /\ WorkersInv'
    BY <1>1, <1>2, <1>3, <1>4, <1>8, <2>1, <2>2, <2>4, <2>6, WorkerMoves
  <2>8. ASSUME LeaderElect, orderly' PROVE InOrder'
    <3>1. InOrder
      BY <1>1, <1>2, <2>8
    <3>2. cache[m] = seen
      BY <1>3, <3>1 DEF InOrder, OneLeader, WorkerStep
    <3>3. Current' = Current /\ Guarded' = Guarded
      BY <1>2 DEF Current, Guarded
    <3>4. LiveStaysGuarded' /\ FreshIsSettled' /\ NoOrphanedEdges'
      BY <1>2, <3>1, <3>3 DEF InOrder, LiveStaysGuarded, FreshIsSettled, NoOrphanedEdges,
                              Fresh, SameIntent
    <3>5. \A k \in seen'..worker.version : SameIntent(history'[k], cr)
      <4>1. ASSUME NEW k \in seen'..worker.version PROVE k = cache[m]
        BY <1>2, <1>4, <2>2, <3>2, <4>1
      <4> QED
        BY <1>2, <1>6, <1>8, <4>1 DEF SameIntent
    <3>6. step = "reconcileCall" => Guarded
      <4>1. ASSUME step = "reconcileCall" PROVE history[Len(history)].finalizer
        BY <1>4, <1>6, <1>8, <3>1, <3>2, <4>1 DEF InOrder, LiveStaysGuarded
      <4> QED
        BY <1>1, <4>1, FinalizerGuards DEF Current
    <3>7. ASSUME Fresh(Current) PROVE Current.spec = cr.spec /\ step # "closeCall"
      <4>1. SameIntent(cr, Current) /\ ~Current.deleting
        BY <1>4, <1>6, <3>1, <3>2, <3>7 DEF InOrder, FreshIsSettled
      <4> QED
        BY <1>8, <4>1 DEF SameIntent
    <3>8. InStep(worker)'
      BY <1>2, <1>4, <2>2, <3>2, <3>3, <3>5, <3>6, <3>7 DEF InStep, Fresh, SameIntent
    <3> QED
      BY <1>1, <1>3, <1>8, <2>1, <3>1, <3>4, <3>8, WorkerInOrder
  <2> QED
    BY <2>7, <2>8 DEF FailoverInv
<1> QED
  BY <1>5, <1>6, <1>7, <1>8

\* What a call leaves in a worker's hands.
LEMMA ToMoves ==
    ASSUME TypeOK, NEW m \in Managers, Busy(m), NEW cr \in Versions,
           NEW step \in {"writeStatus", "removeFinalizer"}, To(m, step, cr)
    PROVE  \E worker \in Workers :
              /\ w' = [w EXCEPT ![m] = worker]
              /\ worker.at = step /\ worker.cr = cr /\ worker.version = w[m].version
<1>1. w[m] \in Workers /\ w[m].at # "idle" /\ w \in [Managers -> Workers]
  BY DEF TypeOK, Busy
<1>2. w[m] \in [at : {"addFinalizer", "reconcileCall", "writeStatus", "closeCall", "removeFinalizer"},
                cr : Versions, version : Nat]
  BY <1>1, IdleIsIdle DEF Workers
<1>3. PICK worker : worker = [w[m] EXCEPT !.at = step, !.cr = cr]
  OBVIOUS
<1>4. /\ worker \in Workers
      /\ worker.at = step /\ worker.cr = cr /\ worker.version = w[m].version
  BY <1>2, <1>3 DEF Workers
<1>5. w' = [w EXCEPT ![m] = worker]
  BY <1>1, <1>3 DEF To
<1> QED
  BY <1>4, <1>5

\* What a reconcile makes of its copy.
LEMMA ReadyFields ==
    ASSUME NEW cr \in Versions
    PROVE  /\ Ready(cr) \in Versions /\ SameIntent(Ready(cr), cr)
           /\ Ready(cr).finalizer = cr.finalizer
           /\ Ready(cr).observedGeneration = Ready(cr).generation
           /\ NotReady(cr) \in Versions /\ SameIntent(NotReady(cr), cr)
           /\ NotReady(cr).finalizer = cr.finalizer /\ ~NotReady(cr).ready
           /\ NotReady(cr).observedGeneration = cr.observedGeneration
<1>1. PICK ready : ready = Ready(cr)
  OBVIOUS
<1>2. /\ ready \in Versions /\ ready.finalizer = cr.finalizer
      /\ ready.exists /\ cr.exists /\ ready.spec = cr.spec /\ ready.generation = cr.generation
      /\ ready.deleting = cr.deleting /\ ready.observedGeneration = cr.generation
  BY <1>1 DEF Ready, Versions
<1>3. PICK notReady : notReady = NotReady(cr)
  OBVIOUS
<1>4. /\ notReady \in Versions /\ notReady.finalizer = cr.finalizer
      /\ notReady.exists /\ cr.exists /\ notReady.spec = cr.spec
      /\ notReady.generation = cr.generation /\ notReady.deleting = cr.deleting
      /\ notReady.ready = FALSE /\ notReady.observedGeneration = cr.observedGeneration
  BY <1>3 DEF NotReady, Versions
<1> QED
  BY <1>1, <1>2, <1>3, <1>4 DEF SameIntent

\* A call is answered: the graph may have changed, the history has not.
LEMMA CallKeeps ==
    ASSUME FailoverInv, NEW m \in Managers, WorkerStep(m), Busy(m), UNCHANGED history,
           NEW cr \in Versions, NEW step \in {"writeStatus", "removeFinalizer"}, To(m, step, cr),
           SameIntent(cr, w[m].cr), cr.finalizer, Honest(cr),
           step = "removeFinalizer" => cr.deleting /\ w[m].at = "closeCall" /\ graph' = NoSpec,
           step = "writeStatus" /\ cr.ready => ~cr.deleting /\ graph' = cr.spec,
           \/ w[m].at = "reconcileCall" /\ graph' \in {graph, w[m].cr.spec}
           \/ w[m].at = "closeCall" /\ graph' \in {graph, NoSpec}
    PROVE  FailoverInv'
<1>1. TypeOK /\ HistoryIsHonest /\ WorkersInv /\ (LeaderElect /\ orderly => InOrder)
  BY DEF FailoverInv
<1>2. PICK worker \in Workers : /\ w' = [w EXCEPT ![m] = worker]
                                /\ worker.at = step /\ worker.cr = cr
                                /\ worker.version = w[m].version
  BY <1>1, ToMoves
<1>3. w[m].version \in 1..Len(history)
  BY <1>1 DEF WorkersInv
<1>4. Sound(worker)
  BY <1>2 DEF Sound
<1>5. TypeOK' /\ HistoryIsHonest' /\ WorkersInv'
  BY <1>1, <1>2, <1>3, <1>4, WorkerMoves
<1>6. ASSUME LeaderElect, orderly' PROVE InOrder'
  <2>1. InOrder /\ InStep(w[m]) /\ seen' = seen
    BY <1>1, <1>6 DEF InOrder, CopiesInOrder, WorkerStep
  <2>2. Current' = Current /\ Guarded' = Guarded
    BY DEF Current, Guarded
  <2>3. LiveStaysGuarded'
    BY <2>1 DEF InOrder, LiveStaysGuarded
  <2>4. Fresh(Current) => graph' = Current.spec
    BY <2>1 DEF InOrder, FreshIsSettled, InStep
  <2>5. FreshIsSettled'
    BY <2>1, <2>2, <2>4 DEF InOrder, FreshIsSettled, Fresh, SameIntent
  <2>6. NoOrphanedEdges'
    BY <2>1, <2>2 DEF InOrder, NoOrphanedEdges, InStep
  <2>7. \A k \in seen'..worker.version : SameIntent(history'[k], cr)
    BY <1>2, <2>1 DEF InStep, SameIntent
  <2>8. step = "removeFinalizer" => w[m].version <= seen /\ ~Fresh(Current)
    BY <2>1 DEF InStep
  <2>9. InStep(worker)'
    BY <1>2, <2>1, <2>2, <2>7, <2>8 DEF InStep, Fresh, SameIntent
  <2> QED
    BY <1>1, <1>2, <2>1, <2>3, <2>5, <2>6, <2>9, WorkerInOrder
<1> QED
  BY <1>5, <1>6 DEF FailoverInv

LEMMA ReconcileCallKeeps ==
    ASSUME FailoverInv, NEW m \in Managers, ReconcileCall(m)
    PROVE  FailoverInv'
<1>1. TypeOK /\ WorkersInv
  BY DEF FailoverInv
<1>2. /\ w[m].at = "reconcileCall" /\ Busy(m)
      /\ UNCHANGED <<history, lease, state, cache, seen, due, orderly>>
  BY DEF ReconcileCall, Busy
<1>3. /\ w[m].cr \in Versions /\ Honest(w[m].cr) /\ w[m].cr.finalizer /\ ~w[m].cr.deleting
      /\ w[m].cr.observedGeneration \in Nat /\ w[m].cr.generation \in Nat /\ w[m].cr.spec \in Specs
  BY <1>1, <1>2, WorkerTypes, ObjectFields DEF WorkersInv, Sound, TypeOK, Versions, Busy
<1>4. graph' \in {graph, w[m].cr.spec} /\ (UNCHANGED budget \/ Disturb)
  BY DEF ReconcileCall
<1>5. WorkerStep(m)
  BY <1>1, <1>2, <1>3, <1>4, OnlyLeadersWork DEF WorkerStep, TypeOK, Disturb
<1>6. CASE graph' = w[m].cr.spec /\ To(m, "writeStatus", Ready(w[m].cr))
  <2>1. PICK cr : cr = Ready(w[m].cr)
    OBVIOUS
  <2>2. /\ cr \in Versions /\ SameIntent(cr, w[m].cr) /\ cr.finalizer
        /\ cr.observedGeneration = cr.generation
    BY <1>3, <2>1, ReadyFields
  <2>3. Honest(cr) /\ ~cr.deleting /\ graph' = cr.spec
    BY <1>3, <1>6, <2>2 DEF Honest, SameIntent, Versions
  <2> QED
    BY <1>2, <1>4, <1>5, <1>6, <2>1, <2>2, <2>3, CallKeeps
<1>7. CASE To(m, "writeStatus", NotReady(w[m].cr))
  <2>1. PICK cr : cr = NotReady(w[m].cr)
    OBVIOUS
  <2>2. /\ cr \in Versions /\ SameIntent(cr, w[m].cr) /\ cr.finalizer /\ ~cr.ready
        /\ cr.observedGeneration = w[m].cr.observedGeneration
    BY <1>3, <2>1, ReadyFields
  <2>3. Honest(cr)
    BY <1>3, <2>2 DEF Honest, SameIntent
  <2> QED
    BY <1>2, <1>4, <1>5, <1>7, <2>1, <2>2, <2>3, CallKeeps
<1> QED
  BY <1>6, <1>7 DEF ReconcileCall

LEMMA CloseCallKeeps ==
    ASSUME FailoverInv, NEW m \in Managers, CloseCall(m)
    PROVE  FailoverInv'
<1>1. TypeOK /\ WorkersInv
  BY DEF FailoverInv
<1>2. /\ w[m].at = "closeCall" /\ Busy(m)
      /\ UNCHANGED <<history, lease, state, cache, seen, due, orderly>>
  BY DEF CloseCall, Busy
<1>3. /\ w[m].cr \in Versions /\ Honest(w[m].cr) /\ w[m].cr.finalizer /\ w[m].cr.deleting
      /\ w[m].cr.exists
  BY <1>1, <1>2, WorkerTypes DEF WorkersInv, Sound, TypeOK, Versions, Busy
<1>4. graph' \in {graph, NoSpec} /\ (UNCHANGED budget \/ Disturb)
  BY DEF CloseCall
<1>5. WorkerStep(m)
  BY <1>1, <1>2, <1>4, OnlyLeadersWork DEF WorkerStep, TypeOK, Disturb
<1>6. CASE graph' = NoSpec /\ To(m, "removeFinalizer", w[m].cr)
  <2>1. PICK cr : cr = w[m].cr
    OBVIOUS
  <2>2. cr \in Versions /\ SameIntent(cr, w[m].cr) /\ cr.finalizer /\ Honest(cr) /\ cr.deleting
    BY <1>3, <2>1 DEF SameIntent
  <2> QED
    BY <1>2, <1>4, <1>5, <1>6, <2>1, <2>2, CallKeeps
<1>7. CASE To(m, "writeStatus", NotReady(w[m].cr))
  <2>1. PICK cr : cr = NotReady(w[m].cr)
    OBVIOUS
  <2>2. /\ cr \in Versions /\ SameIntent(cr, w[m].cr) /\ cr.finalizer /\ ~cr.ready
        /\ cr.observedGeneration = w[m].cr.observedGeneration
    BY <1>3, <2>1, ReadyFields
  <2>3. Honest(cr)
    BY <1>3, <2>2 DEF Honest, SameIntent
  <2> QED
    BY <1>2, <1>4, <1>5, <1>7, <2>1, <2>2, <2>3, CallKeeps
<1> QED
  BY <1>6, <1>7 DEF CloseCall

-----------------------------------------------------------------------------
(* What the worker stores. *)

\* An update of the last version: the object stays guarded or the graph is
\* empty, and a claim of Ready is backed by the graph and by all a leader saw.
LEMMA WorkerStores ==
    ASSUME FailoverInv, NEW m \in Managers, WorkerStep(m), Busy(m), UNCHANGED graph,
           w[m].version = Len(history), NEW cr \in Objects, Store(cr), Honest(cr),
           NEW worker \in Workers, w' = [w EXCEPT ![m] = worker],
           \/ cr.finalizer /\ cr.exists
           \/ w[m].at = "removeFinalizer" /\ ~cr.exists,
           Fresh(cr) => /\ ~cr.deleting /\ SameIntent(cr, w[m].cr)
                        /\ w[m].at = "writeStatus" /\ Fresh(w[m].cr),
           worker.at # "idle" =>
               /\ worker.at = "reconcileCall" /\ Sound(worker)
               /\ worker.version = Len(history) + 1 /\ worker.cr = cr
               /\ SameIntent(cr, w[m].cr)
    PROVE  FailoverInv'
<1>1. TypeOK /\ HistoryIsHonest /\ WorkersInv /\ (LeaderElect /\ orderly => InOrder)
  BY DEF FailoverInv
<1>2. history \in Histories /\ Len(history) \in Nat \ {0} /\ seen \in 1..Len(history)
  BY <1>1, TypeOfHistory, HistoryTypes DEF TypeOK
<1>3. /\ Len(history') = Len(history) + 1 /\ Current' = cr
      /\ history'[Len(history) + 1] = cr
      /\ \A k \in 1..Len(history) : history'[k] = history[k]
  BY <1>2, StoreHistory
<1>4. worker.at # "idle" => Sound(worker) /\ worker.version \in 1..Len(history')
  BY <1>2, <1>3
<1>5. TypeOK' /\ HistoryIsHonest' /\ WorkersInv'
  BY <1>1, <1>4, WorkerMoves
<1>6. ASSUME LeaderElect, orderly' PROVE InOrder'
  <2>1. InOrder /\ InStep(w[m]) /\ seen' = seen
    BY <1>1, <1>6 DEF InOrder, CopiesInOrder, WorkerStep
  <2>2. w[m].at = "removeFinalizer" => graph = NoSpec /\ seen = Len(history)
    BY <1>2, <2>1 DEF InStep
  <2>3. w[m].at = "removeFinalizer" => Current.deleting
    <3>1. ASSUME w[m].at = "removeFinalizer" PROVE SameIntent(Current, w[m].cr)
      <4>1. Len(history) \in seen..w[m].version
        BY <1>2, <2>2, <3>1
      <4> QED
        BY <2>1, <4>1 DEF InStep, Current
    <3>2. w[m].at = "removeFinalizer" => w[m].cr.deleting
      BY <1>1 DEF WorkersInv, Sound
    <3> QED
      BY <3>1, <3>2 DEF SameIntent
  <2>4. LiveStaysGuarded'
    BY <1>1, <2>1, <2>2, <2>3, StoreKeepsGuards DEF InOrder
  <2>5. NoOrphanedEdges'
    BY <1>3, <2>2 DEF NoOrphanedEdges, Guarded
  <2>6. ASSUME SameIntent(cr, w[m].cr), NEW k \in seen'..Len(history')
        PROVE  SameIntent(history'[k], cr)
    <3>1. k \in seen..w[m].version \/ k = Len(history) + 1
      BY <1>2, <1>3, <2>1
    <3>2. CASE k \in seen..w[m].version
      <4>1. k \in 1..Len(history) /\ SameIntent(history[k], w[m].cr)
        BY <1>2, <2>1, <3>2 DEF InStep
      <4> QED
        BY <1>3, <2>6, <4>1 DEF SameIntent
    <3>3. CASE k = Len(history) + 1
      BY <1>3, <2>6, <3>3 DEF SameIntent
    <3> QED
      BY <3>1, <3>2, <3>3
  <2>7. Fresh(cr) => graph = cr.spec
    BY <2>1 DEF InStep, SameIntent
  <2>8. FreshIsSettled'
    BY <1>3, <2>6, <2>7 DEF FreshIsSettled, Fresh, SameIntent
  <2>9. ASSUME worker.at # "idle" PROVE InStep(worker)'
    <3>1. Guarded'
      BY <1>3, <2>9 DEF Guarded, SameIntent, Sound
    <3>2. \A k \in seen'..worker.version : SameIntent(history'[k], worker.cr)
      BY <1>3, <2>6, <2>9
    <3> QED
      BY <1>3, <2>9, <3>1, <3>2 DEF InStep, Fresh, SameIntent
  <2> QED
    BY <1>1, <2>1, <2>4, <2>5, <2>8, <2>9, WorkerInOrder
<1> QED
  BY <1>5, <1>6 DEF FailoverInv

LEMMA AddFinalizerKeeps ==
    ASSUME FailoverInv, NEW m \in Managers, AddFinalizer(m)
    PROVE  FailoverInv'
<1>1. TypeOK /\ WorkersInv
  BY DEF FailoverInv
<1>2. PICK cr : cr = [w[m].cr EXCEPT !.finalizer = TRUE]
  OBVIOUS
<1>3. /\ w[m].at = "addFinalizer" /\ Busy(m) /\ Update(m, cr, "reconcileCall")
      /\ UNCHANGED <<graph, lease, state, cache, seen, budget, orderly>>
  BY <1>2 DEF AddFinalizer, Busy
<1>4. /\ w[m].cr \in Versions /\ Honest(w[m].cr) /\ ~w[m].cr.ready /\ ~w[m].cr.deleting
  BY <1>1, <1>3, WorkerTypes DEF WorkersInv, Sound, TypeOK, Honest, Busy
<1>5. WorkerStep(m)
  BY <1>1, <1>3, OnlyLeadersWork DEF WorkerStep, TypeOK, Update, ComeBack
<1>6. CASE w[m].version # Len(history)
  BY <1>3, <1>5, <1>6, ComesBack DEF Update, ComeBack
<1>7. CASE w[m].version = Len(history)
  <2>1. PICK worker : worker = [at |-> "reconcileCall", cr |-> cr, version |-> Len(history) + 1]
    OBVIOUS
  <2>2. Store(cr) /\ w' = [w EXCEPT ![m] = worker]
    BY <1>3, <1>7, <2>1 DEF Update
  <2>3. /\ cr \in Versions /\ cr.finalizer /\ cr.exists /\ SameIntent(cr, w[m].cr)
        /\ cr.ready = w[m].cr.ready /\ cr.observedGeneration = w[m].cr.observedGeneration
        /\ cr.generation = w[m].cr.generation /\ cr.deleting = w[m].cr.deleting
    BY <1>2, <1>4 DEF Versions, SameIntent
  <2>4. Honest(cr) /\ ~Fresh(cr) /\ ~cr.deleting
    BY <1>4, <2>3 DEF Honest, Fresh
  <2>5. Len(history) + 1 \in Nat
    BY <1>1, TypeOfHistory, HistoryTypes
  <2>6. /\ worker \in Workers /\ worker.at = "reconcileCall" /\ worker.cr = cr
        /\ worker.version = Len(history) + 1
    BY <2>1, <2>3, <2>5 DEF Workers
  <2>7. Sound(worker)
    BY <2>3, <2>4, <2>6 DEF Sound
  <2> QED
    BY <1>3, <1>5, <1>7, <2>2, <2>3, <2>4, <2>6, <2>7, WorkerStores DEF Objects
<1> QED
  BY <1>6, <1>7

LEMMA WriteStatusKeeps ==
    ASSUME FailoverInv, NEW m \in Managers, WriteStatus(m)
    PROVE  FailoverInv'
<1>1. TypeOK /\ WorkersInv
  BY DEF FailoverInv
<1>2. PICK cr : cr = w[m].cr
  OBVIOUS
<1>3. /\ w[m].at = "writeStatus" /\ Busy(m)
      /\ w' = [w EXCEPT ![m] = Idle] /\ due' = due \cup {m}
      /\ UNCHANGED <<graph, lease, state, cache, seen, budget, orderly>>
  BY DEF WriteStatus, ComeBack, Busy
<1>4. /\ cr \in Versions /\ Honest(cr) /\ cr.finalizer /\ cr.exists
      /\ ~(cr.deleting /\ cr.ready)
  BY <1>1, <1>2, <1>3, WorkerTypes DEF WorkersInv, Sound, TypeOK, Versions, Busy
<1>5. WorkerStep(m)
  BY <1>1, <1>3, OnlyLeadersWork DEF WorkerStep, TypeOK
<1>6. CASE UNCHANGED history
  BY <1>3, <1>5, <1>6, ComesBack
<1>7. CASE w[m].version = Len(history) /\ Store(cr)
  <2>1. PICK worker : worker = Idle
    OBVIOUS
  <2>2. worker \in Workers /\ worker.at = "idle"
    BY <2>1, IdleIsIdle DEF Workers
  <2>3. Fresh(cr) => ~cr.deleting /\ SameIntent(cr, w[m].cr) /\ Fresh(w[m].cr)
    BY <1>2, <1>4 DEF Fresh, SameIntent
  <2> QED
    BY <1>3, <1>4, <1>5, <1>7, <2>1, <2>2, <2>3, WorkerStores DEF Objects
<1> QED
  BY <1>2, <1>6, <1>7 DEF WriteStatus

LEMMA RemoveFinalizerKeeps ==
    ASSUME FailoverInv, NEW m \in Managers, RemoveFinalizer(m)
    PROVE  FailoverInv'
<1>1. TypeOK /\ WorkersInv
  BY DEF FailoverInv
<1>2. /\ w[m].at = "removeFinalizer" /\ Busy(m)
      /\ w' = [w EXCEPT ![m] = Idle] /\ due' \in {due, due \cup {m}}
      /\ UNCHANGED <<graph, lease, state, cache, seen, budget, orderly>>
  BY DEF RemoveFinalizer, ComeBack, Busy
<1>3. w[m].cr \in Versions /\ w[m].cr.deleting
  BY <1>1, <1>2, WorkerTypes DEF WorkersInv, Sound, TypeOK, Busy
<1>4. WorkerStep(m)
  BY <1>1, <1>2, OnlyLeadersWork DEF WorkerStep, TypeOK
<1>5. CASE UNCHANGED history
  BY <1>2, <1>4, <1>5, ComesBack
<1>6. CASE w[m].version = Len(history) /\ Store(Settled([w[m].cr EXCEPT !.finalizer = FALSE]))
  <2>1. PICK gone : gone = [w[m].cr EXCEPT !.finalizer = FALSE]
    OBVIOUS
  <2>2. gone.deleting /\ ~gone.finalizer
    BY <1>3, <2>1 DEF Versions
  <2>3. Settled(gone) = Absent
    BY <2>2 DEF Settled
  <2>4. PICK cr : cr = Absent
    OBVIOUS
  <2>5. Store(cr) /\ cr \in Objects /\ ~cr.exists
    BY <1>6, <2>1, <2>3, <2>4, AbsentFields DEF Objects
  <2>6. Honest(cr) /\ ~Fresh(cr)
    BY <2>4, AbsentFields DEF Honest, Fresh
  <2>7. PICK worker : worker = Idle
    OBVIOUS
  <2>8. worker \in Workers /\ worker.at = "idle"
    BY <2>7, IdleIsIdle DEF Workers
  <2> QED
    BY <1>2, <1>4, <1>6, <2>5, <2>6, <2>7, <2>8, WorkerStores
<1> QED
  BY <1>5, <1>6 DEF RemoveFinalizer

-----------------------------------------------------------------------------
(* The invariant. *)

LEMMA FailoverInit == Init => FailoverInv
<1> SUFFICES ASSUME Init PROVE FailoverInv
  OBVIOUS
<1>1. /\ history = <<Absent>> /\ Len(history) = 1 /\ history[1] = Absent /\ Current = Absent
      /\ graph = NoSpec /\ seen = 1 /\ due = {} /\ orderly = TRUE
  BY DEF Init, Current
<1>2. \A m \in Managers : state[m] = "down" /\ w[m] = Idle /\ ~Busy(m) /\ cache[m] = 1
  BY IdleIsIdle DEF Init, Busy
<1>3. TypeOK
  BY <1>1, MaxDisturbancesAssumption DEF Init, TypeOK, Workers
<1>4. Honest(Absent) /\ ~Fresh(Absent)
  BY AbsentFields DEF Honest, Fresh
<1>5. HistoryIsHonest
  BY <1>1, <1>4 DEF HistoryIsHonest
<1>6. WorkersInv
  BY <1>1, <1>2 DEF WorkersInv
<1>7. OneLeader /\ CopiesInOrder
  BY <1>2 DEF OneLeader, CopiesInOrder
<1>8. LiveStaysGuarded
  BY <1>1, AbsentFields DEF LiveStaysGuarded
<1>9. FreshIsSettled /\ NoOrphanedEdges
  BY <1>1, <1>4 DEF FreshIsSettled, NoOrphanedEdges
<1> QED
  BY <1>3, <1>5, <1>6, <1>7, <1>8, <1>9 DEF FailoverInv, InOrder

LEMMA ReconcileKeeps ==
    ASSUME FailoverInv, NEW m \in Managers, Get(m) \/ Reconcile(m)
    PROVE  FailoverInv'
  BY GetKeeps, AddFinalizerKeeps, ReconcileCallKeeps, CloseCallKeeps, WriteStatusKeeps,
     RemoveFinalizerKeeps DEF Reconcile

LEMMA FailoverStutters == FailoverInv /\ UNCHANGED vars => FailoverInv'
<1> SUFFICES ASSUME FailoverInv, UNCHANGED vars PROVE FailoverInv'
  OBVIOUS
<1>1. UNCHANGED <<history, graph, lease, state, cache, seen, due, w, orderly, budget>>
  BY DEF vars
<1>2. TypeOK' /\ HistoryIsHonest'
  BY <1>1 DEF FailoverInv, TypeOK, HistoryIsHonest, Honest
<1>3. WorkersInv'
  BY <1>1 DEF FailoverInv, WorkersInv, Busy, Sound, Honest
<1>4. Current' = Current /\ Guarded' = Guarded
  BY <1>1 DEF Current, Guarded
<1>5. ASSUME InOrder PROVE OneLeader' /\ LiveStaysGuarded' /\ FreshIsSettled' /\ NoOrphanedEdges'
  BY <1>1, <1>4, <1>5 DEF InOrder, OneLeader, LiveStaysGuarded, FreshIsSettled, NoOrphanedEdges,
                          Fresh, SameIntent
<1>6. ASSUME InOrder PROVE CopiesInOrder'
  BY <1>1, <1>4, <1>6 DEF InOrder, CopiesInOrder, InStep, Busy, Fresh, SameIntent
<1> QED
  BY <1>1, <1>2, <1>3, <1>5, <1>6 DEF FailoverInv, InOrder

LEMMA FailoverNext == FailoverInv /\ [Next]_vars => FailoverInv'
  BY UserKeeps, LifecycleKeeps, ReconcileKeeps, FailoverStutters DEF Next

LEMMA FailoverAlways == Spec => []FailoverInv
  BY FailoverInit, FailoverNext, PTL DEF Spec

-----------------------------------------------------------------------------

\* Types: no cache, and no copy a worker updates, is ahead of the history, with
\* or without leader election.
THEOREM TypeCorrect == Spec => []TypeOK
<1>1. FailoverInv => TypeOK
  BY DEF FailoverInv
<1> QED
  BY <1>1, FailoverAlways, PTL

\* Whatever managers crash, take over from an old cache or lose their lease,
\* an object that has edges in the graph has its finalizer, as long as every
\* leader was alone and had caught up (segmentationpolicy_controller.go:63-69
\* and main.go:147-154).
THEOREM FailoverLeavesNoOrphans ==
    ASSUME LeaderElect
    PROVE  Spec => []NoOrphanedEdgesInOrder
<1>1. FailoverInv => NoOrphanedEdgesInOrder
  BY DEF FailoverInv, InOrder, NoOrphanedEdgesInOrder
<1> QED
  BY <1>1, FailoverAlways, PTL

\* Under the same condition a Ready=True for the stored generation, by whichever
\* leader, is what the graph holds (common.go:35-39).
THEOREM FailoverKeepsReadyTrue ==
    ASSUME LeaderElect
    PROVE  Spec => []ReadyMeansAppliedInOrder
<1>1. FailoverInv => ReadyMeansAppliedInOrder
  BY DEF FailoverInv, InOrder, FreshIsSettled, Fresh, ReadyMeansAppliedInOrder
<1> QED
  BY <1>1, FailoverAlways, PTL
=============================================================================
