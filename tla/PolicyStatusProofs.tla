-------------------------- MODULE PolicyStatusProofs --------------------------
(***************************************************************************)
(* More theorems about PolicyController: what status says, what the worker *)
(* overwrites, that nothing is forgotten, and that the controller          *)
(* implements CREdges.                                                     *)
(***************************************************************************)
EXTENDS PolicyControllerProofs

-----------------------------------------------------------------------------
(* The inductive invariants. *)

\* No version, stored or copied, claims to know a later generation than its own.
Past(cr) == cr.status.observedGeneration <= cr.generation
ObservedInThePast ==
    /\ \A p \in Policies : \A n \in 1..Len(log[p]) : Past(log[p][n])
    /\ w.at # "idle" => Past(w.cr)

\* A copy that could still be written is the current version, up to a status
\* that is about to be written; every version left in the cache has its intent.
\* What the status adds is not older than what is stored, and another count of
\* evidence only comes with a confirmation.
SameWork(old, new) == new.spec = old.spec /\ new.deleting = old.deleting
Unchanged(copy, cur) == copy.status = cur.status
Advanced(copy, cur) ==
    /\ copy.status.observedGeneration >= cur.status.observedGeneration
    /\ \/ copy.status.correlatedEvidenceCount = cur.status.correlatedEvidenceCount
       \/ ReadyFor(copy)
CopyIsCurrent ==
    \A p \in Policies : w.at # "idle" /\ w.fresh /\ w.key = p =>
        /\ w.cr = [Current(p) EXCEPT !.status = w.cr.status]
        /\ \A n \in 1..Len(log[p]) : SameWork(w.cr, log[p][n])
        /\ IF w.at = "writeStatus" THEN Advanced(w.cr, Current(p)) ELSE Unchanged(w.cr, Current(p))

CopyInv ==
    /\ TypeOK
    /\ ObservedInThePast
    /\ CopyIsCurrent

\* Where the worker is tells what its copy is like: it calls reconcile for a CR
\* that nobody has asked to delete, and finalizes one that is being deleted.
CopyFits ==
    /\ w.at \in {"gate", "addFinalizer", "reconcileCall"} => ~w.cr.deleting
    /\ w.at \in {"closeCall", "removeFinalizer"} => w.cr.deleting

\* Once the current version is ready for its generation, neither the cache nor
\* the worker holds another intent for it.
ReadyIsOld ==
    \A p \in Policies : ReadyFor(Current(p)) =>
        /\ ~Current(p).deleting
        /\ \A n \in 1..Len(log[p]) : SameWork(Current(p), log[p][n])
        /\ w.at # "idle" /\ w.key = p => SameWork(Current(p), w.cr)

\* A Ready=True that is about to be written stands for what the graph holds.
ConfirmedIsApplied ==
    w.at = "writeStatus" /\ w.cr.status.ready = "True" =>
        ~w.cr.deleting /\ graph[w.key].spec = w.cr.spec

AppliedInv ==
    /\ CopyInv
    /\ CopyFits
    /\ late = {}
    /\ ReadyMeansApplied
    /\ ReadyIsOld
    /\ ConfirmedIsApplied

-----------------------------------------------------------------------------
(* What the steps do, as far as the invariants care. *)

\* A version that somebody else than the worker stores.
UserWrites(old, new) ==
    \/ /\ ~old.exists /\ new.exists
       /\ ~new.deleting /\ ~new.finalizer
       /\ new.status = NoStatus
    \/ /\ old.exists /\ new.exists
       /\ new.finalizer = old.finalizer /\ new.status = old.status
       /\ \/ new.generation = old.generation + 1 /\ (old.deleting => new.deleting)
          \/ new.generation = old.generation /\ SameWork(old, new)
    \/ old.exists /\ ~old.finalizer /\ new = Absent

LEMMA UserSteps ==
    ASSUME TypeOK, User
    PROVE  \/ /\ \E p \in Policies, cr \in Objects : Store(p, cr) /\ UserWrites(Current(p), cr)
              /\ UNCHANGED <<queue, delayed, configured, graph, late>>
           \/ /\ UNCHANGED <<log, queue, delayed, w, configured, late>>
              /\ \/ UNCHANGED graph
                 \/ \E p \in Policies : EdgeDrift(p)
<1> DEFINE Stores == /\ \E p \in Policies, cr \in Objects : Store(p, cr) /\ UserWrites(Current(p), cr)
                     /\ UNCHANGED <<queue, delayed, configured, graph, late>>
<1>1. log \in Histories
  BY DEF TypeOK, Histories
<1> USE DEF cluster, manager, plane
<1>2. ASSUME NEW p \in Policies, Create(p) PROVE Stores
  <2>1. PICK s \in Specs, f \in Foreign :
           Store(p, [Absent EXCEPT !.exists = TRUE, !.spec = s, !.generation = 1, !.foreign = f])
    BY <1>2 DEF Create
  <2> DEFINE new == [Absent EXCEPT !.exists = TRUE, !.spec = s, !.generation = 1, !.foreign = f]
  <2>2. NoStatus \in Statuses(Counts)
    BY CountsAssumption DEF NoStatus, Statuses, Reasons
  <2>3. new \in Objects
    BY <2>2, FlagsAssumption DEF Absent, Objects, CRs
  <2>4. new.exists /\ ~new.deleting /\ ~new.finalizer /\ new.status = NoStatus
    BY DEF Absent
  <2>5. ~Current(p).exists
    BY <1>2 DEF Create
  <2> HIDE DEF new
  <2>6. UserWrites(Current(p), new)
    BY <2>4, <2>5 DEF UserWrites
  <2>7. Store(p, new)
    BY <2>1 DEF new
  <2> QED
    BY <1>2, <2>3, <2>6, <2>7 DEF Create
<1>3. ASSUME NEW p \in Policies, Edit(p) PROVE Stores
  <2>1. PICK s \in Specs : Store(p, [Current(p) EXCEPT !.spec = s, !.generation = @ + 1])
    BY <1>3 DEF Edit
  <2>2. Current(p) \in CRs
    BY <1>1, <1>3, VersionTypes DEF Edit
  <2>3. ASSUME NEW cr \in CRs, NEW g \in Nat, g = cr.generation + 1
        PROVE  /\ [cr EXCEPT !.spec = s, !.generation = g] \in Objects
               /\ UserWrites(cr, [cr EXCEPT !.spec = s, !.generation = g])
    <3> DEFINE new == [cr EXCEPT !.spec = s, !.generation = g]
    <3>1. new \in CRs
      BY DEF CRs
    <3>2. /\ new.exists = cr.exists /\ new.finalizer = cr.finalizer /\ new.status = cr.status
          /\ new.deleting = cr.deleting /\ new.generation = g /\ cr.exists
      BY DEF CRs
    <3> HIDE DEF new
    <3>3. UserWrites(cr, new)
      BY <2>3, <3>2 DEF UserWrites
    <3> QED
      BY <3>1, <3>3 DEF Objects, new
  <2>4. Current(p).generation + 1 \in Nat
    BY <2>2 DEF CRs
  <2>5. PICK cr \in Objects : Store(p, cr) /\ UserWrites(Current(p), cr)
    BY <2>1, <2>2, <2>3, <2>4
  <2> QED
    BY <1>3, <2>5 DEF Edit
<1>4. ASSUME NEW p \in Policies, Delete(p) PROVE Stores
  <2>1. Current(p) \in CRs
    BY <1>1, <1>4, VersionTypes DEF Delete
  <2>2. ASSUME NEW cr \in CRs, NEW g \in Nat, g = cr.generation + 1
        PROVE  UserWrites(cr, Settled([cr EXCEPT !.deleting = TRUE, !.generation = g]))
    <3> DEFINE new == [cr EXCEPT !.deleting = TRUE, !.generation = g]
    <3>1. /\ new.exists = cr.exists /\ new.finalizer = cr.finalizer /\ new.status = cr.status
          /\ new.deleting /\ new.generation = g /\ cr.exists
      BY DEF CRs
    <3> HIDE DEF new
    <3>2. UserWrites(cr, Settled(new))
      BY <2>2, <3>1 DEF UserWrites, Settled
    <3> QED
      BY <3>2 DEF new
  <2>3. ASSUME NEW cr \in CRs, NEW g \in Nat
        PROVE  Settled([cr EXCEPT !.deleting = TRUE, !.generation = g]) \in Objects
    BY DEF CRs, Settled, Objects
  <2>4. Current(p).generation + 1 \in Nat
    BY <2>1 DEF CRs
  <2>5. PICK cr \in Objects : Store(p, cr) /\ UserWrites(Current(p), cr)
    BY <1>4, <2>1, <2>2, <2>3, <2>4 DEF Delete
  <2> QED
    BY <1>4, <2>5 DEF Delete
<1>5. ASSUME NEW p \in Policies, ForeignRelease(p) PROVE Stores
  <2>1. Current(p) \in CRs
    BY <1>1, <1>5, VersionTypes DEF ForeignRelease
  <2>2. ASSUME NEW cr \in CRs PROVE UserWrites(cr, Settled([cr EXCEPT !.foreign = FALSE]))
    <3> DEFINE new == [cr EXCEPT !.foreign = FALSE]
    <3>1. /\ new.exists = cr.exists /\ new.finalizer = cr.finalizer /\ new.status = cr.status
          /\ new.generation = cr.generation /\ SameWork(cr, new) /\ cr.exists
      BY DEF CRs, SameWork
    <3> HIDE DEF new
    <3>2. UserWrites(cr, Settled(new))
      BY <3>1 DEF UserWrites, Settled
    <3> QED
      BY <3>2 DEF new
  <2>3. [Current(p) EXCEPT !.foreign = FALSE] \in CRs
    BY <2>1 DEF CRs
  <2> QED
    BY <1>5, <2>1, <2>2, <2>3, SettledTypes DEF ForeignRelease
<1>6. ASSUME NEW p \in Policies, ChangeWorkloads(p)
      PROVE  UNCHANGED <<log, queue, delayed, w, configured, late, graph>>
  BY <1>6 DEF ChangeWorkloads
<1>7. ASSUME NEW p \in Policies, EdgeDrift(p) PROVE UNCHANGED <<log, queue, delayed, w, configured, late>>
  BY <1>7 DEF EdgeDrift
<1>8. ASSUME ChangePlatformConfig \/ ChangeServerPaused
      PROVE  UNCHANGED <<log, queue, delayed, w, configured, late, graph>>
  BY <1>8 DEF ChangePlatformConfig, ChangeServerPaused
<1> DEFINE Elsewhere == /\ UNCHANGED <<log, queue, delayed, w, configured, late>>
                        /\ \/ UNCHANGED graph
                           \/ \E p \in Policies : EdgeDrift(p)
<1> HIDE DEF Stores
<1>9. Stores \/ Elsewhere
  <2>1. (\E p \in Policies : ChangeWorkloads(p) \/ EdgeDrift(p)) => Elsewhere
    BY <1>6, <1>7
  <2>2. ChangePlatformConfig \/ ChangeServerPaused => Elsewhere
    BY <1>8
  <2> HIDE DEF Elsewhere
  <2> QED
    BY <1>2, <1>3, <1>4, <1>5, <2>1, <2>2 DEF User
<1> QED
  BY <1>9 DEF Stores

-----------------------------------------------------------------------------
(* Nothing is forgotten: NothingForgotten is inductive next to TypeOK. *)

\* The operator still has something to do for the CR.
Owed(p) == Current(p).exists /\ (Current(p).deleting => Current(p).finalizer)

\* Something leads back to it.
Remembered(p) == Len(log[p]) > 1 \/ p \in queue \cup delayed \/ w.key = p

LEMMA OneOrMore == \A n \in Nat \ {0} : n = 1 \/ n > 1
OBVIOUS

LEMMA ForgottenParts == NothingForgotten <=> \A p \in Policies : Owed(p) => Remembered(p)
BY DEF NothingForgotten, Owed, Remembered

\* A step that makes no current version without an event under way for it, and
\* drops a reminder only for a CR that is owed nothing.
LEMMA StillRemembered ==
    ASSUME NothingForgotten,
           \A p \in Policies : log'[p] = log[p] \/ Len(log'[p]) > 1,
           \A p \in Policies : p \in queue \cup delayed \/ w.key = p => Remembered(p)' \/ ~Owed(p)'
    PROVE  NothingForgotten'
<1> SUFFICES ASSUME NEW p \in Policies, Owed(p)' PROVE Remembered(p)'
  BY DEF NothingForgotten, Owed, Remembered
<1>1. CASE Len(log'[p]) > 1
  BY <1>1 DEF Remembered
<1>2. CASE log'[p] = log[p]
  <2>1. Owed(p)
    BY <1>2 DEF Owed, Current
  <2>2. Remembered(p)
    BY <2>1, ForgottenParts
  <2> QED
    BY <1>2, <2>2 DEF Remembered
<1> QED
  BY <1>1, <1>2

\* A stored version has yet to be delivered.
LEMMA AppendIsEvent ==
    ASSUME log \in Histories, NEW p \in Policies, NEW cr \in Objects,
           log' = [log EXCEPT ![p] = Append(@, cr)]
    PROVE  \A q \in Policies : log'[q] = log[q] \/ Len(log'[q]) > 1
<1>1. log[p] \in Seq(Objects) /\ log[p] # << >>
  BY DEF Histories
<1>2. Len(log[p]) \in Nat \ {0}
  BY <1>1, EmptySeq
<1>3. Len(log'[p]) = Len(log[p]) + 1 /\ \A q \in Policies \ {p} : log'[q] = log[q]
  BY AppendVersion
<1> QED
  BY <1>2, <1>3

\* The worker's key stays what it is while a user stores a version.
LEMMA StoreKeepsKey ==
    ASSUME w \in Workers, NEW p \in Policies, NEW cr, Store(p, cr)
    PROVE  w'.key = w.key /\ w'.at = w.at /\ w'.cr = w.cr /\ (w'.fresh => w.fresh /\ w.key # p)
BY DEF Store, Workers, Idle

LEMMA UserForgetsNothing == ASSUME TypeOK, NothingForgotten, User PROVE NothingForgotten'
<1>1. log \in Histories /\ w \in Workers
  BY DEF TypeOK, Histories
<1>2. ASSUME NEW p \in Policies, NEW cr \in Objects, Store(p, cr), UNCHANGED <<queue, delayed>>
      PROVE  NothingForgotten'
  <2>1. \A q \in Policies : log'[q] = log[q] \/ Len(log'[q]) > 1
    BY <1>1, <1>2, AppendIsEvent DEF Store
  <2>2. w'.key = w.key
    BY <1>1, <1>2, StoreKeepsKey
  <2> QED
    BY <1>2, <2>1, <2>2, StillRemembered DEF Remembered
<1>3. ASSUME UNCHANGED <<log, queue, delayed, w>> PROVE NothingForgotten'
  BY <1>3, StillRemembered DEF Remembered
<1> QED
  BY <1>2, <1>3, UserSteps

LEMMA RuntimeForgetsNothing ==
    ASSUME TypeOK, NothingForgotten, ControllerRuntime \/ Restart PROVE NothingForgotten'
<1>1. log \in Histories
  BY DEF TypeOK, Histories
<1> USE DEF cluster, manager, plane
\* The version that is delivered puts its key into the queue.
<1>2. ASSUME NEW p \in Policies, Observe(p) PROVE NothingForgotten'
  <2>1. ASSUME NEW q \in Policies, Owed(q)' PROVE Remembered(q)'
    <3>1. CASE q = p
      BY <1>2, <3>1 DEF Observe, Remembered
    <3>2. CASE q # p
      <4>1. log'[q] = log[q]
        BY <1>1, <1>2, <3>2 DEF Observe, Histories
      <4>2. Owed(q)
        BY <2>1, <4>1 DEF Owed, Current
      <4>3. Remembered(q)
        BY <4>2, ForgottenParts
      <4> QED
        BY <1>2, <4>1, <4>3 DEF Observe, Remembered
    <3> QED
      BY <3>1, <3>2
  <2> QED
    BY <2>1 DEF NothingForgotten, Owed, Remembered
<1>3. ASSUME NEW p \in Policies, Fire(p) PROVE NothingForgotten'
  BY <1>3, StillRemembered DEF Fire, Remembered
\* A CR that exists now is listed, or a version of it is still to come.
<1>4. CASE Restart
  <2>1. /\ \A p \in Policies : log'[p] \in Suffixes(p)
        /\ queue' = {p \in Policies : log'[p][1].exists}
    BY <1>4 DEF Restart
  <2>2. ASSUME NEW q \in Policies, Owed(q)' PROVE Remembered(q)'
    <3>1. log'[q] \in Seq(Objects) /\ log'[q] # << >>
      BY <1>1, <2>1, SkipVersions
    <3>2. Len(log'[q]) \in Nat \ {0}
      BY <3>1, EmptySeq
    <3>3. Len(log'[q]) = 1 => log'[q][1].exists
      BY <2>2 DEF Owed, Current
    <3>4. Len(log'[q]) = 1 \/ Len(log'[q]) > 1
      BY <3>2, OneOrMore
    <3>5. Len(log'[q]) > 1 \/ q \in queue'
      BY <2>1, <3>3, <3>4
    <3> QED
      BY <3>5 DEF Remembered
  <2> QED
    BY <2>2 DEF NothingForgotten, Owed, Remembered
<1> QED
  BY <1>2, <1>3, <1>4 DEF ControllerRuntime

LEMMA WorkerForgetsNothing == ASSUME TypeOK, NothingForgotten, Worker PROVE NothingForgotten'
<1>1. log \in Histories /\ w \in Workers
  BY DEF TypeOK, Histories
<1>2. w.at # "idle" => w.key \in Policies /\ w.cr \in CRs
  BY <1>1, BusyTypes
<1> USE DEF cluster, manager, plane
\* Taking a key: the worker has it, or nothing is owed to it.
<1>3. ASSUME NEW p \in Policies, Get(p) PROVE NothingForgotten'
  <2>1. w.key \notin Policies
    BY <1>1, <1>3, NamesAssumption DEF Get, Workers, Idle, Steps
  <2>2. /\ log' = log /\ delayed' = delayed /\ queue' = queue \ {p}
        /\ w'.key = p \/ ~Cached(p).exists \/ (Cached(p).deleting /\ ~Cached(p).finalizer)
    BY <1>3 DEF Get, Idle
  <2>3. Len(log[p]) = 1 \/ Len(log[p]) > 1
    <3>1. Len(log[p]) \in Nat \ {0}
      BY <1>1, EmptySeq DEF Histories
    <3> QED
      BY <3>1, OneOrMore
  <2>4. Len(log[p]) = 1 => Cached(p) = Current(p)
    BY DEF Cached, Current
  <2>5. Remembered(p)' \/ ~Owed(p)
    <3>1. CASE Len(log[p]) > 1
      BY <2>2, <3>1 DEF Remembered
    <3>2. CASE Len(log[p]) = 1
      BY <2>2, <2>4, <3>2 DEF Remembered, Owed
    <3> QED
      BY <2>3, <3>1, <3>2
  <2>6. \A q \in Policies : Owed(q)' <=> Owed(q)
    BY <2>2 DEF Owed, Current
  <2>7. \A q \in Policies \ {p} : q \in queue \cup delayed \/ w.key = q => Remembered(q)'
    BY <2>1, <2>2 DEF Remembered
  <2> QED
    BY <2>2, <2>5, <2>6, <2>7, StillRemembered
<1>4. ASSUME NEW p \in Policies, GetFails(p) PROVE NothingForgotten'
  BY <1>4, StillRemembered DEF GetFails, Remembered
\* The worker goes on with its key ...
<1>5. ASSUME w'.key = w.key, UNCHANGED <<log, queue, delayed>> PROVE NothingForgotten'
  BY <1>5, StillRemembered DEF Remembered
\* ... or ends with a timer for it ...
<1>6. ASSUME w.at # "idle", ReturnAndComeBack, UNCHANGED queue,
             UNCHANGED log \/ \E cr \in Objects : Update(cr)
      PROVE  NothingForgotten'
  <2>1. \A q \in Policies : log'[q] = log[q] \/ Len(log'[q]) > 1
    BY <1>1, <1>2, <1>6, AppendIsEvent DEF Update
  <2>2. \A q \in Policies : q \in queue \cup delayed \/ w.key = q => Remembered(q)'
    BY <1>6 DEF ReturnAndComeBack, Remembered
  <2> QED
    BY <2>1, <2>2, StillRemembered
\* ... or with a version of it that is still to be delivered.
<1>7. ASSUME w.at # "idle", UNCHANGED <<queue, delayed>>, NEW cr \in Objects, Update(cr),
             w'.key = w.key \/ w' = Idle
      PROVE  NothingForgotten'
  <2>1. \A q \in Policies : log'[q] = log[q] \/ Len(log'[q]) > 1
    BY <1>1, <1>2, <1>7, AppendIsEvent DEF Update
  <2>2. Len(log'[w.key]) > 1
    <3>1. Len(log'[w.key]) = Len(log[w.key]) + 1
      BY <1>1, <1>2, <1>7, AppendVersion DEF Update
    <3>2. Len(log[w.key]) \in Nat \ {0}
      BY <1>1, <1>2, <1>7, EmptySeq DEF Histories
    <3> QED
      BY <3>1, <3>2
  <2>3. \A q \in Policies : q \in queue \cup delayed \/ w.key = q => Remembered(q)'
    BY <1>7, <2>2 DEF Remembered
  <2> QED
    BY <2>1, <2>3, StillRemembered
<1>8. CASE CheckPauseGate
  <2>1. /\ w.at = "gate" /\ UNCHANGED <<log, queue, delayed>>
        /\ \/ ToWriteStatus(NotReadyStatus(checkPauseGate(platformConfig).Reason))
           \/ w' = [w EXCEPT !.at = IF w.cr.finalizer THEN "reconcileCall" ELSE "addFinalizer",
                             !.provider = checkPauseGate(platformConfig).FlowProvider]
    BY <1>8 DEF CheckPauseGate
  <2>2. w'.key = w.key
    BY <1>1, <2>1 DEF ToWriteStatus, Workers, Idle
  <2> QED
    BY <1>5, <2>1, <2>2
<1>9. \A cr \in CRs : cr \in Objects /\ [cr EXCEPT !.finalizer = TRUE] \in Objects
                       /\ Settled([cr EXCEPT !.finalizer = FALSE]) \in Objects
  <2>1. \A cr \in CRs : [cr EXCEPT !.finalizer = TRUE] \in CRs /\ [cr EXCEPT !.finalizer = FALSE] \in CRs
    BY DEF CRs
  <2> QED
    BY <2>1, SettledTypes DEF Objects
<1>10. CASE AddFinalizer
  <2>1. w.at = "addFinalizer" /\ UNCHANGED queue
    BY <1>10 DEF AddFinalizer
  <2>2. [w.cr EXCEPT !.finalizer = TRUE] \in Objects
    BY <1>2, <1>9, <2>1
  <2>3. CASE /\ Update([w.cr EXCEPT !.finalizer = TRUE])
             /\ w' = [w EXCEPT !.at = "reconcileCall", !.cr = [w.cr EXCEPT !.finalizer = TRUE]]
             /\ UNCHANGED delayed
    <3>1. w'.key = w.key
      BY <1>1, <2>1, <2>3 DEF Workers, Idle
    <3> QED
      BY <1>7, <2>1, <2>2, <2>3, <3>1
  <2>4. CASE UNCHANGED log /\ ReturnAndComeBack
    BY <1>6, <2>1, <2>4
  <2> QED
    BY <1>10, <2>3, <2>4 DEF AddFinalizer
<1>11. CASE UpdateFails
  <2>1. w.at # "idle" /\ ReturnAndComeBack /\ UNCHANGED queue
    BY <1>11 DEF UpdateFails
  <2>2. UNCHANGED log \/ \E cr \in Objects : Update(cr)
    BY <1>2, <1>9, <1>11, <2>1 DEF UpdateFails
  <2> QED
    BY <1>6, <2>1, <2>2
<1>12. CASE WriteStatus
  <2>1. w.at # "idle" /\ ReturnAndComeBack /\ UNCHANGED queue
    BY <1>12 DEF WriteStatus
  <2>2. UNCHANGED log \/ \E cr \in Objects : Update(cr)
    BY <1>2, <1>9, <1>12, <2>1 DEF WriteStatus
  <2> QED
    BY <1>6, <2>1, <2>2
<1>13. CASE RemoveFinalizer
  <2>1. w.at # "idle" /\ UNCHANGED queue
    BY <1>13 DEF RemoveFinalizer
  <2>2. Settled([w.cr EXCEPT !.finalizer = FALSE]) \in Objects
    BY <1>2, <1>9, <2>1
  <2>3. CASE Update(Settled([w.cr EXCEPT !.finalizer = FALSE])) /\ ReturnForGood
    BY <1>7, <2>1, <2>2, <2>3 DEF ReturnForGood
  <2>4. CASE UNCHANGED log /\ ReturnAndComeBack
    BY <1>6, <2>1, <2>4
  <2> QED
    BY <1>13, <2>3, <2>4 DEF RemoveFinalizer
<1>14. CASE ReconcileCall \/ CloseCall
  <2>1. w.at # "idle" /\ UNCHANGED <<log, queue, delayed>>
    BY <1>14 DEF ReconcileCall, CloseCall
  <2>2. (\E reply : AfterReconcileCall(reply) \/ AfterCloseCall(reply))
    BY <1>14 DEF ReconcileCall, CloseCall
  <2>3. w'.key = w.key
    BY <1>1, <2>1, <2>2 DEF AfterReconcileCall, AfterCloseCall, ToWriteStatus, Workers, Idle
  <2> QED
    BY <1>5, <2>1, <2>3
<1> QED
  BY <1>3, <1>4, <1>8, <1>10, <1>11, <1>12, <1>13, <1>14 DEF Worker

\* Whatever conflicts, fails, is edited, restarted or served late: a CR that
\* exists and still needs work has an event under way, is queued, has a timer or
\* is being worked on.  No exit of a reconcile drops it.
THEOREM NobodyIsForgotten == Spec => []NothingForgotten
<1>1. Init => NothingForgotten
  <2>1. ASSUME Init, NEW p \in Policies PROVE ~Current(p).exists
    BY <2>1 DEF Init, Current, Absent
  <2> QED
    BY <2>1 DEF NothingForgotten
<1>2. TypeOK /\ NothingForgotten /\ [Next]_vars => NothingForgotten'
  <2> SUFFICES ASSUME TypeOK, NothingForgotten, [Next]_vars PROVE NothingForgotten'
    OBVIOUS
  <2>1. CASE UNCHANGED vars
    BY <2>1, StillRemembered DEF vars, Remembered
  <2>2. ASSUME NEW request \in Requests, LateService(request) PROVE NothingForgotten'
    BY <2>2, StillRemembered DEF LateService, Remembered, cluster, manager
  <2> QED
    BY <2>1, <2>2, UserForgetsNothing, RuntimeForgetsNothing, WorkerForgetsNothing DEF Next
<1> QED
  BY <1>1, <1>2, TypeCorrect, PTL DEF Spec

-----------------------------------------------------------------------------
(* What the steps of the worker do. *)

\* The worker goes on to another step with the same key.
GoesOn(at, cr) == w'.at = at /\ w'.key = w.key /\ w'.fresh = w.fresh /\ w'.cr = cr

\* It sets the status of its copy: not ready, with what was observed before ...
Refused ==
    /\ StatusSet
    /\ w'.cr.status.ready = "False"
    /\ w'.cr.status.observedGeneration = w.cr.status.observedGeneration
    /\ w'.cr.status.correlatedEvidenceCount = w.cr.status.correlatedEvidenceCount

\* ... or ready for the generation it has.
Confirmed ==
    /\ StatusSet
    /\ w'.cr.status.ready = "True"
    /\ w'.cr.status.observedGeneration = w.cr.generation

Elsewhere == UNCHANGED <<log, graph, late>>

Rests == w' \in {w, Idle} /\ Elsewhere

Takes(p) ==
    /\ w.at = "idle" /\ Elsewhere
    /\ w'.key = p /\ w'.cr = Cached(p) /\ (w'.fresh => Len(log[p]) = 1)
    /\ Cached(p).exists
    /\ \/ w'.at = "gate" /\ ~Cached(p).deleting
       \/ w'.at = "closeCall" /\ Cached(p).deleting /\ Cached(p).finalizer

PassesGate ==
    /\ w.at = "gate" /\ Elsewhere
    /\ \/ Refused
       \/ GoesOn("reconcileCall", w.cr) /\ w.cr.finalizer
       \/ GoesOn("addFinalizer", w.cr)

Attaches ==
    /\ w.at = "addFinalizer" /\ UNCHANGED <<graph, late>>
    /\ Update([w.cr EXCEPT !.finalizer = TRUE])
    /\ w' = Idle \/ GoesOn("reconcileCall", [w.cr EXCEPT !.finalizer = TRUE])

Detaches ==
    /\ w.at = "removeFinalizer" /\ UNCHANGED <<graph, late>>
    /\ Update(Settled([w.cr EXCEPT !.finalizer = FALSE]))
    /\ w' = Idle

Reports ==
    /\ w.at = "writeStatus" /\ UNCHANGED <<graph, late>>
    /\ Update(w.cr)
    /\ w' = Idle

LEMMA NotReadyMoves ==
    ASSUME w \in Workers, w.at # "idle", NEW reason \in Reasons, ToWriteStatus(NotReadyStatus(reason))
    PROVE  Refused
<1>1. w.cr \in CRs
  BY BusyTypes
<1>2. w.cr.status \in Statuses(Counts) /\ w.cr.generation \in Nat
  BY <1>1 DEF CRs
<1>3. StatusSet /\ w'.cr.status = NotReadyStatus(reason)
  <2>1. NotReadyStatus(reason) \in Statuses(Counts)
    BY <1>1, NotReadyTypes
  <2>2. StatusSet
    BY <2>1, ToWriteStatusMoves
  <2> HIDE DEF NotReadyStatus
  <2>3. w'.cr.status = NotReadyStatus(reason)
    BY <1>1 DEF ToWriteStatus, Workers, Idle, CRs
  <2> QED
    BY <2>2, <2>3
<1>4. ASSUME NEW status \in Statuses(Counts), NEW generation
      PROVE  /\ setCondition(status, generation, "False", reason).ready = "False"
             /\ setCondition(status, generation, "False", reason).observedGeneration
                   = status.observedGeneration
             /\ setCondition(status, generation, "False", reason).correlatedEvidenceCount
                   = status.correlatedEvidenceCount
  BY DEF setCondition, Statuses
<1>5. NotReadyStatus(reason) = setCondition(w.cr.status, w.cr.generation, "False", reason)
  BY DEF NotReadyStatus, segmentationNotReady, runtimeNotReady
<1> QED
  BY <1>2, <1>3, <1>4, <1>5 DEF Refused

LEMMA WorkerSteps ==
    ASSUME TypeOK, Worker
    PROVE  \/ Rests \/ \E p \in Policies : Takes(p)
           \/ PassesGate \/ Attaches \/ Detaches \/ Reports
           \/ ReconcileCall \/ CloseCall
<1>1. log \in Histories /\ w \in Workers
  BY DEF TypeOK, Histories
<1> USE DEF cluster, manager, plane
<1>2. ASSUME NEW p \in Policies, Get(p) PROVE Rests \/ Takes(p)
  <2>1. w.at = "idle" /\ Elsewhere
    BY <1>2 DEF Get, Elsewhere
  <2>2. ASSUME NEW step \in {"gate", "closeCall"},
               w' = [Idle EXCEPT !.at = step, !.key = p, !.cr = Cached(p), !.fresh = Len(log[p]) = 1]
        PROVE  w'.at = step /\ w'.key = p /\ w'.cr = Cached(p) /\ (w'.fresh => Len(log[p]) = 1)
    BY <2>2 DEF Idle
  <2> QED
    BY <1>2, <2>1, <2>2 DEF Get, Rests, Takes
<1>3. ASSUME NEW p \in Policies, GetFails(p) PROVE Rests
  BY <1>3 DEF GetFails, Rests, Elsewhere
<1>4. CASE CheckPauseGate
  <2>1. w.at = "gate" /\ Elsewhere
    BY <1>4 DEF CheckPauseGate, Elsewhere
  <2>2. CASE ToWriteStatus(NotReadyStatus(checkPauseGate(platformConfig).Reason))
    <3>1. checkPauseGate(platformConfig).Reason \in Reasons
      BY GateTypes DEF TypeOK
    <3>2. Refused
      BY <1>1, <2>1, <2>2, <3>1, NotReadyMoves
    <3> QED
      BY <2>1, <3>2 DEF PassesGate
  <2>3. CASE w' = [w EXCEPT !.at = IF w.cr.finalizer THEN "reconcileCall" ELSE "addFinalizer",
                            !.provider = checkPauseGate(platformConfig).FlowProvider]
    <3>1. GoesOn(IF w.cr.finalizer THEN "reconcileCall" ELSE "addFinalizer", w.cr)
      BY <1>1, <2>1, <2>3 DEF GoesOn, Workers, Idle
    <3>2. (GoesOn("reconcileCall", w.cr) /\ w.cr.finalizer) \/ GoesOn("addFinalizer", w.cr)
      BY <3>1
    <3> QED
      BY <2>1, <3>2 DEF PassesGate
  <2> QED
    BY <1>4, <2>2, <2>3 DEF CheckPauseGate
<1>5. CASE AddFinalizer
  <2>1. w.at = "addFinalizer" /\ UNCHANGED <<graph, late>>
    BY <1>5 DEF AddFinalizer
  <2>2. CASE /\ Update([w.cr EXCEPT !.finalizer = TRUE])
             /\ w' = [w EXCEPT !.at = "reconcileCall", !.cr = [w.cr EXCEPT !.finalizer = TRUE]]
    <3>1. GoesOn("reconcileCall", [w.cr EXCEPT !.finalizer = TRUE])
      <4> DEFINE cr == [w.cr EXCEPT !.finalizer = TRUE]
      <4>1. w' = [w EXCEPT !.at = "reconcileCall", !.cr = cr]
        BY <2>2
      <4> HIDE DEF cr
      <4>2. GoesOn("reconcileCall", cr)
        BY <1>1, <2>1, <4>1 DEF GoesOn, Workers, Idle
      <4> QED
        BY <4>2 DEF cr
    <3> QED
      BY <2>1, <2>2, <3>1 DEF Attaches
  <2>3. CASE UNCHANGED log /\ ReturnAndComeBack
    BY <2>1, <2>3 DEF ReturnAndComeBack, Rests, Elsewhere
  <2> QED
    BY <1>5, <2>2, <2>3 DEF AddFinalizer
<1>6. CASE UpdateFails
  <2>1. w' = Idle /\ UNCHANGED <<graph, late>>
    BY <1>6 DEF UpdateFails, ReturnAndComeBack
  <2> QED
    BY <1>6, <2>1 DEF UpdateFails, Rests, Elsewhere, Attaches, Detaches, Reports
<1>7. CASE WriteStatus
  BY <1>7 DEF WriteStatus, ReturnAndComeBack, Rests, Elsewhere, Reports
<1>8. CASE RemoveFinalizer
  BY <1>8 DEF RemoveFinalizer, ReturnAndComeBack, ReturnForGood, Rests, Elsewhere, Detaches
<1> QED
  BY <1>2, <1>3, <1>4, <1>5, <1>6, <1>7, <1>8 DEF Worker

\* What a reply does to the worker's copy: only a reply that confirms makes it
\* ready.
LEMMA ReconcileReplies ==
    ASSUME w \in Workers, w.at # "idle", NEW reply, reply.res.EdgesUpserted \in Counts,
           AfterReconcileCall(reply)
    PROVE  \/ Refused
           \/ /\ Confirmed
              /\ reply.err = NoError /\ reply.res.Status = "ok" /\ ~reply.res.Unverified
<1>1. w.cr \in CRs /\ w.provider \in Providers \cup {NoProvider}
  BY BusyTypes
<1>2. /\ w.cr.status \in Statuses(Counts) /\ w.cr.generation \in Nat
      /\ ProviderRef[w.cr.spec] \in Providers \cup {NoProvider}
  BY <1>1, SpecsAssumption DEF CRs
<1> DEFINE segmentation == segmentationSuccessStatus(w.cr.status, w.cr.generation,
                                                     ProviderRef[w.cr.spec], w.provider)
           runtime == runtimeSuccessStatus(w.cr.status, w.cr.generation, reply.res)
<1>3. ASSUME NEW status \in {segmentation, runtime}, ToWriteStatus(status)
      PROVE  Confirmed
  <2>1. status \in Statuses(Counts)
    <3>1. segmentation \in Statuses(Counts) /\ runtime \in Statuses(Counts)
      BY <1>1, <1>2, SuccessTypes
    <3> QED
      BY <1>3, <3>1
  <2>2. StatusSet /\ w'.cr.status = status
    <3>1. StatusSet
      BY <1>3, <2>1, ToWriteStatusMoves
    <3>2. w'.cr.status = status
      BY <1>1, <1>3 DEF ToWriteStatus, Workers, Idle, CRs
    <3> QED
      BY <3>1, <3>2
  <2>3. ASSUME NEW st \in Statuses(Counts), NEW g \in Nat, NEW p, NEW q, NEW res
        PROVE  /\ segmentationSuccessStatus(st, g, p, q).ready = "True"
               /\ segmentationSuccessStatus(st, g, p, q).observedGeneration = g
               /\ runtimeSuccessStatus(st, g, res).ready = "True"
               /\ runtimeSuccessStatus(st, g, res).observedGeneration = g
    BY DEF segmentationSuccessStatus, runtimeSuccessStatus, setCondition, Statuses
  <2>4. status.ready = "True" /\ status.observedGeneration = w.cr.generation
    BY <1>2, <1>3, <2>3
  <2> QED
    BY <2>2, <2>4 DEF Confirmed
<1>4. segmentationReconcileDecision(reply).ready = "True"
         => reply.err = NoError /\ reply.res.Status = "ok" /\ ~reply.res.Unverified
  BY DEF segmentationReconcileDecision, segmentationReconcileError, NotReady, Reconciled,
         inconsistentSegmentationResult
<1>5. runtimeReconcileDecision(reply).ready = "True"
         => reply.err = NoError /\ reply.res.Status = "ok" /\ ~reply.res.Unverified
  BY DEF runtimeReconcileDecision, runtimeReconcileError, NotReady, Reconciled,
         inconsistentRuntimeResult
<1> HIDE DEF segmentation, runtime
<1>6. \/ \E reason \in Reasons : ToWriteStatus(NotReadyStatus(reason))
      \/ /\ \E status \in {segmentation, runtime} : ToWriteStatus(status)
         /\ reply.err = NoError /\ reply.res.Status = "ok" /\ ~reply.res.Unverified
  BY <1>4, <1>5, ReasonTypes DEF AfterReconcileCall, segmentation, runtime
<1> QED
  BY <1>3, <1>6, NotReadyMoves

LEMMA CloseReplies ==
    ASSUME w \in Workers, w.at # "idle", NEW reply, AfterCloseCall(reply)
    PROVE  \/ Refused
           \/ /\ GoesOn("removeFinalizer", w.cr)
              /\ segmentationReleases(reply) \/ runtimeReleases(reply)
<1>1. ASSUME w' = [w EXCEPT !.at = "removeFinalizer"] PROVE GoesOn("removeFinalizer", w.cr)
  BY <1>1 DEF Workers, Idle, GoesOn
<1> QED
  BY <1>1, ReasonTypes, NotReadyMoves DEF AfterCloseCall

\* What an exchange can do to the graph.
LEMMA ExchangeWrites ==
    ASSUME TypeOK, NEW p \in Policies, NEW s \in Specs \cup {NoSpec}, NEW wire,
           Exchange([key |-> p, spec |-> s], wire)
    PROVE  /\ graph' = graph \/ graph' = Served([key |-> p, spec |-> s])
           /\ \A q \in Policies \ {p} : Served([key |-> p, spec |-> s])[q] = graph[q]
           /\ Served([key |-> p, spec |-> s])[p].spec = s
           /\ Confirms(wire) => graph' = Served([key |-> p, spec |-> s])
           /\ ~LateCalls => late' = late
<1> DEFINE request == [key |-> p, spec |-> s]
<1>1. graph' = graph \/ graph' = Served(request)
  BY DEF Exchange, Disturb
<1>2. \A q \in Policies \ {p} : Served(request)[q] = graph[q]
  BY DEF Served, TypeOK
<1>3. Served(request)[p].spec = s
  BY DEF Served, TypeOK, Closed
<1>4. Confirms(wire) => graph' = Served(request)
  BY DEF Exchange, Confirms, PausedAnswer
<1>5. ~LateCalls => late' = late
  BY DEF Exchange, Disturb
<1> QED
  BY <1>1, <1>2, <1>3, <1>4, <1>5

\* A reply without an error and with status ok is a confirmation on the wire.
LEMMA OkMeansConfirmed ==
    ASSUME NEW wire \in WireAnswers, do(TRUE, wire).err = NoError,
           do(TRUE, wire).res.Status = "ok", ~do(TRUE, wire).res.Unverified
    PROVE  Confirms(wire)
<1>1. wire.answered /\ wire.code \in 200..299 /\ wire.body.shape = "result" /\ do(TRUE, wire).res = wire.body
  BY DEF do, Failed, Decoded, PlainError, NoError, parseAPIError, ZeroResult
<1>2. wire.code = 200
  BY <1>1 DEF WireAnswers, StatusCodes
<1> QED
  BY <1>1, <1>2 DEF Confirms

LEMMA ReconcileCallSteps ==
    ASSUME TypeOK, ReconcileCall
    PROVE  /\ w.at = "reconcileCall" /\ w.key \in Policies /\ log' = log
           /\ Refused \/ (Confirmed /\ graph'[w.key].spec = w.cr.spec)
           /\ \A q \in Policies \ {w.key} : graph'[q] = graph[q]
           /\ graph'[w.key].spec = graph[w.key].spec \/ graph'[w.key].spec = w.cr.spec
           /\ ~LateCalls => late' = late
<1>1. w.at = "reconcileCall" /\ log' = log
  BY DEF ReconcileCall, cluster
<1>2. w \in Workers /\ w.key \in Policies /\ w.cr \in CRs
  BY <1>1, BusyTypes DEF TypeOK
<1> DEFINE request == [key |-> w.key, spec |-> w.cr.spec]
<1>3. w.cr.spec \in Specs \cup {NoSpec} /\ request \in Requests
  BY <1>2 DEF CRs, Requests
<1>4. ASSUME NEW wire \in WireReplies(request), Exchange(request, wire), AfterReconcileCall(do(TRUE, wire))
      PROVE  /\ Refused \/ (Confirmed /\ graph'[w.key].spec = w.cr.spec)
             /\ \A q \in Policies \ {w.key} : graph'[q] = graph[q]
             /\ graph'[w.key].spec = graph[w.key].spec \/ graph'[w.key].spec = w.cr.spec
             /\ ~LateCalls => late' = late
  <2>1. wire \in WireAnswers
    BY <1>3, <1>4, WireReplyTypes DEF TypeOK
  <2>2. Refused \/ (Confirmed /\ Confirms(wire))
    BY <1>1, <1>2, <1>4, <2>1, ReplyTypes, ReconcileReplies, OkMeansConfirmed
  <2>3. /\ graph' = graph \/ graph' = Served(request)
        /\ \A q \in Policies \ {w.key} : Served(request)[q] = graph[q]
        /\ Served(request)[w.key].spec = w.cr.spec
        /\ Confirms(wire) => graph' = Served(request)
        /\ ~LateCalls => late' = late
    BY <1>2, <1>3, <1>4, ExchangeWrites
  <2> HIDE DEF request
  <2> QED
    BY <2>2, <2>3
<1>5. ASSUME AfterReconcileCall(Failed(UnconfiguredError)), UNCHANGED <<graph, late>>
      PROVE  Refused
  <2>1. Failed(UnconfiguredError).err # NoError
    BY DEF Failed, UnconfiguredError, NoError
  <2> QED
    BY <1>1, <1>2, <1>5, <2>1, FailedTypes, ReconcileReplies
<1>6. \/ \E wire \in WireReplies(request) : Exchange(request, wire) /\ AfterReconcileCall(do(TRUE, wire))
      \/ AfterReconcileCall(Failed(UnconfiguredError)) /\ UNCHANGED <<graph, late>>
  BY DEF ReconcileCall
<1> HIDE DEF request
<1> QED
  BY <1>1, <1>2, <1>4, <1>5, <1>6

LEMMA CloseCallSteps ==
    ASSUME TypeOK, CloseCall
    PROVE  /\ w.at = "closeCall" /\ w.key \in Policies /\ log' = log
           /\ Refused \/ GoesOn("removeFinalizer", w.cr)
           /\ \A q \in Policies \ {w.key} : graph'[q] = graph[q]
           /\ ~LateCalls => late' = late
<1>1. w.at = "closeCall" /\ log' = log
  BY DEF CloseCall, cluster
<1>2. w \in Workers /\ w.key \in Policies
  BY <1>1, BusyTypes DEF TypeOK
<1> DEFINE request == [key |-> w.key, spec |-> NoSpec]
<1>3. ASSUME NEW wire \in WireReplies(request), Exchange(request, wire), AfterCloseCall(do(TRUE, wire))
      PROVE  /\ Refused \/ GoesOn("removeFinalizer", w.cr)
             /\ \A q \in Policies \ {w.key} : graph'[q] = graph[q]
             /\ ~LateCalls => late' = late
  <2>1. Refused \/ GoesOn("removeFinalizer", w.cr)
    BY <1>1, <1>2, <1>3, CloseReplies
  <2>2. /\ graph' = graph \/ graph' = Served(request)
        /\ \A q \in Policies \ {w.key} : Served(request)[q] = graph[q]
        /\ ~LateCalls => late' = late
    BY <1>2, <1>3, ExchangeWrites
  <2> HIDE DEF request
  <2> QED
    BY <2>1, <2>2
<1>4. ASSUME AfterCloseCall(Failed(UnconfiguredError))
      PROVE  Refused \/ GoesOn("removeFinalizer", w.cr)
  BY <1>1, <1>2, <1>4, CloseReplies
<1>5. \/ \E wire \in WireReplies(request) : Exchange(request, wire) /\ AfterCloseCall(do(TRUE, wire))
      \/ AfterCloseCall(Failed(UnconfiguredError)) /\ UNCHANGED <<graph, late>>
  BY DEF CloseCall
<1> HIDE DEF request
<1> QED
  BY <1>1, <1>2, <1>3, <1>4, <1>5

LEMMA WholeIsSuffix == ASSUME log \in Histories, NEW p \in Policies PROVE log[p] \in Suffixes(p)
<1>1. log[p] \in Seq(Objects) /\ log[p] # << >> /\ Len(log[p]) \in Nat \ {0}
  BY EmptySeq DEF Histories
<1>2. log[p] = SubSeq(log[p], 1, Len(log[p])) /\ 1 \in 1..Len(log[p])
  BY <1>1, SubSeqFull
<1> QED
  BY <1>2 DEF Suffixes

\* Neither the informer nor a restart makes a version.
LEMMA RuntimeSteps ==
    ASSUME TypeOK, ControllerRuntime \/ Restart
    PROVE  /\ \A p \in Policies : log'[p] \in Suffixes(p)
           /\ w' \in {w, Idle} /\ UNCHANGED <<graph, late>>
<1>1. log \in Histories
  BY DEF TypeOK, Histories
<1> USE DEF cluster, manager, plane
<1>2. ASSUME NEW p \in Policies, Observe(p) PROVE \A q \in Policies : log'[q] \in Suffixes(q)
  <2>1. Tail(log[p]) \in Suffixes(p)
    BY <1>1, <1>2, TailIsSuffix DEF Observe
  <2>2. \A q \in Policies : log'[q] = IF q = p THEN Tail(log[p]) ELSE log[q]
    BY <1>1, <1>2 DEF Observe, Histories
  <2> QED
    BY <1>1, <2>1, <2>2, WholeIsSuffix
<1>3. ASSUME NEW p \in Policies, Observe(p) PROVE UNCHANGED <<w, graph, late>>
  BY <1>3 DEF Observe
<1>4. ASSUME NEW p \in Policies, Fire(p) PROVE UNCHANGED <<log, w, graph, late>>
  BY <1>4 DEF Fire
<1>5. CASE Restart
  BY <1>5 DEF Restart
<1> QED
  BY <1>1, <1>2, <1>3, <1>4, <1>5, WholeIsSuffix DEF ControllerRuntime

-----------------------------------------------------------------------------
(* CopyInv: every step keeps it. *)

\* Generations and observed generations are numbers, and the fields SameWork
\* and Past look at are those of CRs.
LEMMA GenerationTypes ==
    ASSUME NEW cr \in Objects
    PROVE  cr.generation \in Nat /\ cr.status.observedGeneration \in Nat
<1>1. NoStatus.observedGeneration = 0 /\ Absent.generation = 0 /\ Absent.status = NoStatus
  BY DEF NoStatus, Absent
<1>2. CASE cr \in CRs
  BY <1>2 DEF CRs, Statuses
<1>3. CASE cr = Absent
  BY <1>1, <1>3
<1> QED
  BY <1>2, <1>3 DEF Objects

LEMMA AbsentIsPast == Past(Absent)
<1>1. NoStatus.observedGeneration = 0 /\ Absent.generation = 0 /\ Absent.status = NoStatus
  BY DEF NoStatus, Absent
<1> QED
  BY <1>1 DEF Past

LEMMA CurrentIsVersion ==
    ASSUME log \in Histories, NEW p \in Policies
    PROVE  \E n \in 1..Len(log[p]) : Current(p) = log[p][n]
<1>1. log[p] \in Seq(Objects) /\ log[p] # << >>
  BY DEF Histories
<1>2. Len(log[p]) \in Nat \ {0}
  BY <1>1, EmptySeq
<1> QED
  BY <1>2 DEF Current

\* Steps that make no version and leave the worker alone or stop it.
LEMMA QuietKeepsCopy ==
    ASSUME CopyInv, TypeOK', \A p \in Policies : log'[p] \in Suffixes(p), w' \in {w, Idle}
    PROVE  CopyInv'
<1>1. log \in Histories
  BY DEF CopyInv, TypeOK, Histories
<1>2. \A p \in Policies :
         /\ log'[p][Len(log'[p])] = Current(p)
         /\ \A n \in 1..Len(log'[p]) : \E m \in 1..Len(log[p]) : log'[p][n] = log[p][m]
  BY <1>1, SkipVersions
<1>3. \A p \in Policies : Current(p)' = Current(p)
  BY <1>2 DEF Current
<1>4. \A p \in Policies : \A n \in 1..Len(log'[p]) : Past(log'[p][n])
  BY <1>2 DEF CopyInv, ObservedInThePast
<1>5. w'.at # "idle" => w' = w
  BY DEF Idle
<1>6. ObservedInThePast'
  BY <1>4, <1>5 DEF CopyInv, ObservedInThePast, Past
<1>7. ASSUME NEW p \in Policies, w'.at # "idle" /\ w'.fresh /\ w'.key = p
      PROVE  /\ w'.cr = [Current(p)' EXCEPT !.status = w'.cr.status]
             /\ \A n \in 1..Len(log'[p]) : SameWork(w'.cr, log'[p][n])
             /\ IF w'.at = "writeStatus" THEN Advanced(w'.cr, Current(p)') ELSE Unchanged(w'.cr, Current(p)')
  <2>1. /\ w.cr = [Current(p) EXCEPT !.status = w.cr.status]
        /\ \A n \in 1..Len(log[p]) : SameWork(w.cr, log[p][n])
        /\ IF w.at = "writeStatus" THEN Advanced(w.cr, Current(p)) ELSE Unchanged(w.cr, Current(p))
    BY <1>5, <1>7 DEF CopyInv, CopyIsCurrent
  <2> QED
    BY <1>2, <1>3, <1>5, <1>7, <2>1
<1>8. CopyIsCurrent'
  BY <1>7 DEF CopyIsCurrent, SameWork, Advanced, Unchanged, ReadyFor
<1> QED
  BY <1>6, <1>8 DEF CopyInv

\* A version that claims nothing of the future.
LEMMA AppendKeepsPast ==
    ASSUME CopyInv, NEW p \in Policies, NEW cr \in Objects, Past(cr),
           log' = [log EXCEPT ![p] = Append(@, cr)]
    PROVE  \A q \in Policies : \A n \in 1..Len(log'[q]) : Past(log'[q][n])
<1>1. log \in Histories
  BY DEF CopyInv, TypeOK, Histories
<1>2. /\ \A q \in Policies \ {p} : log'[q] = log[q]
      /\ \A n \in 1..Len(log'[p]) :
            log'[p][n] = cr \/ \E m \in 1..Len(log[p]) : log'[p][n] = log[p][m]
  BY <1>1, AppendVersion
<1>3. \A q \in Policies : \A n \in 1..Len(log[q]) : Past(log[q][n])
  BY DEF CopyInv, ObservedInThePast
<1>4. ASSUME NEW q \in Policies, NEW n \in 1..Len(log'[q]) PROVE Past(log'[q][n])
  <2>1. CASE q = p
    BY <1>2, <1>3, <2>1
  <2>2. CASE q # p
    BY <1>2, <1>3, <2>2
  <2> QED
    BY <2>1, <2>2
<1> QED
  BY <1>4

\* What others write claims nothing of the future either.
LEMMA UserWritesPast ==
    ASSUME NEW old \in Objects, NEW new \in Objects, UserWrites(old, new), Past(old)
    PROVE  Past(new)
<1>1. /\ old.generation \in Nat /\ old.status.observedGeneration \in Nat
      /\ new.generation \in Nat /\ new.status.observedGeneration \in Nat
  BY GenerationTypes
<1>2. CASE new.status = NoStatus
  <2>1. NoStatus.observedGeneration = 0
    BY DEF NoStatus
  <2>2. new.status.observedGeneration = 0
    BY <1>2, <2>1
  <2> QED
    BY <1>1, <2>2 DEF Past
<1>3. CASE new.status = old.status /\ (new.generation = old.generation + 1 \/ new.generation = old.generation)
  <2>1. ASSUME NEW o \in Nat, NEW g \in Nat, NEW h \in Nat, o <= g, h = g + 1 \/ h = g PROVE o <= h
    BY <2>1
  <2> QED
    BY <1>1, <1>3, <2>1 DEF Past
<1>4. CASE new = Absent
  BY <1>4, AbsentIsPast
<1> QED
  BY <1>2, <1>3, <1>4 DEF UserWrites

\* Users and other controllers: the copy of what they wrote is not fresh any more.
LEMMA StoreKeepsCopy ==
    ASSUME CopyInv, TypeOK', NEW p \in Policies, NEW cr \in Objects, Store(p, cr),
           UserWrites(Current(p), cr)
    PROVE  CopyInv'
<1>1. log \in Histories /\ w \in Workers
  BY DEF CopyInv, TypeOK, Histories
<1>2. w'.key = w.key /\ w'.at = w.at /\ w'.cr = w.cr /\ (w'.fresh => w.fresh /\ w.key # p)
  BY <1>1, StoreKeepsKey
<1>3. \A q \in Policies \ {p} : log'[q] = log[q]
  BY <1>1, AppendVersion DEF Store
<1>4. Past(cr)
  <2>1. Current(p) \in Objects /\ Past(Current(p))
    BY <1>1, VersionTypes, CurrentIsVersion DEF CopyInv, ObservedInThePast
  <2> QED
    BY <2>1, UserWritesPast
<1>5. ObservedInThePast'
  <2>1. \A q \in Policies : \A n \in 1..Len(log'[q]) : Past(log'[q][n])
    BY <1>4, AppendKeepsPast DEF Store
  <2>2. w'.at # "idle" => Past(w'.cr)
    BY <1>2 DEF CopyInv, ObservedInThePast
  <2> QED
    BY <2>1, <2>2 DEF ObservedInThePast, Past
<1>6. CopyIsCurrent'
  <2>1. ASSUME NEW q \in Policies, w'.at # "idle" /\ w'.fresh /\ w'.key = q
        PROVE  log'[q] = log[q] /\ w.at # "idle" /\ w.fresh /\ w.key = q
    BY <1>2, <1>3, <2>1
  <2> QED
    BY <1>2, <2>1 DEF CopyInv, CopyIsCurrent, Current, SameWork, Advanced, Unchanged, ReadyFor
<1> QED
  BY <1>5, <1>6 DEF CopyInv

\* Taking a key: the copy is the cached version, fresh if there is no later one.
LEMMA TakesKeepsCopy ==
    ASSUME CopyInv, TypeOK', NEW p \in Policies, Takes(p)
    PROVE  CopyInv'
<1>1. log \in Histories /\ log' = log
  BY DEF CopyInv, TypeOK, Histories, Takes, Elsewhere
<1>2. w'.key = p /\ w'.cr = Cached(p) /\ (w'.fresh => Len(log[p]) = 1) /\ w'.at # "writeStatus"
  BY DEF Takes
<1>3. Len(log[p]) \in Nat \ {0}
  BY <1>1, EmptySeq DEF Histories
<1>4. Cached(p) \in CRs
  BY <1>1, VersionTypes DEF Takes
<1>5. Past(Cached(p))
  BY <1>3 DEF CopyInv, ObservedInThePast, Cached
<1>6. ObservedInThePast'
  BY <1>1, <1>2, <1>5 DEF CopyInv, ObservedInThePast, Past
<1>7. Len(log[p]) = 1 => Cached(p) = Current(p) /\ \A n \in 1..Len(log[p]) : log[p][n] = Cached(p)
  BY DEF Cached, Current
<1>8. /\ Cached(p) = [Cached(p) EXCEPT !.status = Cached(p).status]
      /\ SameWork(Cached(p), Cached(p)) /\ Unchanged(Cached(p), Cached(p))
  BY <1>4 DEF CRs, SameWork, Unchanged
<1>9. Current(p)' = Current(p)
  BY <1>1 DEF Current
<1>10. ASSUME NEW q \in Policies, w'.fresh /\ w'.key = q
       PROVE  /\ w'.cr = [Current(q)' EXCEPT !.status = w'.cr.status]
              /\ \A n \in 1..Len(log'[q]) : SameWork(w'.cr, log'[q][n])
              /\ Unchanged(w'.cr, Current(q)')
  BY <1>1, <1>2, <1>7, <1>8, <1>9, <1>10
<1>11. CopyIsCurrent'
  BY <1>2, <1>10 DEF CopyIsCurrent, SameWork, Unchanged
<1> QED
  BY <1>6, <1>11 DEF CopyInv

\* The copy goes on as it is.
LEMMA GoesOnKeepsCopy ==
    ASSUME CopyInv, TypeOK', log' = log, w.at \notin {"idle", "writeStatus"},
           NEW at \in Steps \ {"writeStatus"}, GoesOn(at, w.cr)
    PROVE  CopyInv'
<1>1. at # "idle"
  BY DEF Steps
<1>2. ObservedInThePast'
  BY <1>1 DEF CopyInv, ObservedInThePast, GoesOn, Past
<1>3. ASSUME NEW q \in Policies, w.fresh /\ w.key = q
      PROVE  /\ w.cr = [Current(q) EXCEPT !.status = w.cr.status]
             /\ \A n \in 1..Len(log[q]) : SameWork(w.cr, log[q][n])
             /\ Unchanged(w.cr, Current(q))
  BY <1>3 DEF CopyInv, CopyIsCurrent
<1>4. \A q \in Policies : Current(q)' = Current(q)
  BY DEF Current
<1>5. CopyIsCurrent'
  BY <1>3, <1>4 DEF GoesOn, CopyIsCurrent, SameWork, Unchanged
<1> QED
  BY <1>2, <1>5 DEF CopyInv

\* Setting the status: what is new is that the generation was observed.
LEMMA StatusSetKeepsCopy ==
    ASSUME CopyInv, TypeOK', log' = log, w.at \notin {"idle", "writeStatus"}, Refused \/ Confirmed
    PROVE  CopyInv'
<1>1. w.key \in Policies /\ w.cr \in CRs /\ log \in Histories
  BY BusyTypes DEF CopyInv, TypeOK, Histories
<1>2. /\ w'.at = "writeStatus" /\ w'.key = w.key /\ w'.fresh = w.fresh
      /\ w'.cr = [w.cr EXCEPT !.status = w'.cr.status]
  BY DEF Refused, Confirmed, StatusSet
<1>3. /\ w'.cr.spec = w.cr.spec /\ w'.cr.generation = w.cr.generation
      /\ w'.cr.deleting = w.cr.deleting /\ w'.cr.exists = w.cr.exists /\ w.cr.exists
  <2>1. ASSUME NEW c \in CRs, NEW st, NEW d, d = [c EXCEPT !.status = st]
        PROVE  d.spec = c.spec /\ d.generation = c.generation /\ d.deleting = c.deleting
                  /\ d.exists = c.exists /\ c.exists
    BY <2>1 DEF CRs
  <2> QED
    BY <1>1, <1>2, <2>1
<1>4. Past(w.cr)
  BY DEF CopyInv, ObservedInThePast
<1>5. w.cr.generation \in Nat /\ w.cr.status.observedGeneration \in Nat
  BY <1>1, GenerationTypes DEF Objects
<1>6. /\ w'.cr.status.observedGeneration <= w'.cr.generation
      /\ w'.cr.status.observedGeneration >= w.cr.status.observedGeneration
  <2>1. CASE w'.cr.status.observedGeneration = w.cr.status.observedGeneration
    BY <1>3, <1>4, <1>5, <2>1 DEF Past
  <2>2. CASE w'.cr.status.observedGeneration = w.cr.generation
    BY <1>3, <1>4, <1>5, <2>2 DEF Past
  <2> QED
    BY <2>1, <2>2 DEF Refused, Confirmed
<1>7. ObservedInThePast'
  BY <1>2, <1>6 DEF CopyInv, ObservedInThePast, Past
<1>8. \/ w'.cr.status.correlatedEvidenceCount = w.cr.status.correlatedEvidenceCount
      \/ w'.cr.exists /\ w'.cr.status.ready = "True" /\ w'.cr.status.observedGeneration = w'.cr.generation
  BY <1>3 DEF Refused, Confirmed
<1>9. ASSUME NEW q \in Policies, w'.fresh /\ w'.key = q
      PROVE  /\ w'.cr = [Current(q) EXCEPT !.status = w'.cr.status]
             /\ \A n \in 1..Len(log[q]) : SameWork(w'.cr, log[q][n])
             /\ Advanced(w'.cr, Current(q))
  <2>1. /\ w.cr = [Current(q) EXCEPT !.status = w.cr.status]
        /\ \A n \in 1..Len(log[q]) : SameWork(w.cr, log[q][n])
        /\ w.cr.status = Current(q).status
    BY <1>2, <1>9 DEF CopyInv, CopyIsCurrent, Unchanged
  <2>2. w'.cr = [Current(q) EXCEPT !.status = w'.cr.status]
    <3>1. ASSUME NEW cur, NEW a, NEW b, NEW c, a = [cur EXCEPT !.status = b]
          PROVE  [a EXCEPT !.status = c] = [cur EXCEPT !.status = c]
      BY <3>1
    <3> QED
      BY <1>2, <2>1, <3>1
  <2>3. \A n \in 1..Len(log[q]) : SameWork(w'.cr, log[q][n])
    BY <1>3, <2>1 DEF SameWork
  <2>4. Advanced(w'.cr, Current(q))
    BY <1>6, <1>8, <2>1 DEF Advanced, ReadyFor
  <2> QED
    BY <2>2, <2>3, <2>4
<1>10. \A q \in Policies : Current(q)' = Current(q)
  BY DEF Current
<1>11. CopyIsCurrent'
  BY <1>2, <1>9, <1>10 DEF CopyIsCurrent, SameWork, Advanced, ReadyFor
<1> QED
  BY <1>7, <1>11 DEF CopyInv

\* The finalizer is attached to a copy that was the current version.
LEMMA AttachesKeepsCopy == ASSUME CopyInv, TypeOK', Attaches PROVE CopyInv'
<1> DEFINE cr == [w.cr EXCEPT !.finalizer = TRUE]
<1>1. w.at = "addFinalizer" /\ w.fresh /\ log' = [log EXCEPT ![w.key] = Append(@, cr)]
  BY DEF Attaches, Update
<1>2. w.key \in Policies /\ w.cr \in CRs /\ log \in Histories
  BY <1>1, BusyTypes DEF CopyInv, TypeOK, Histories
<1>3. /\ cr \in CRs /\ cr.status = w.cr.status /\ cr.generation = w.cr.generation
      /\ cr.spec = w.cr.spec /\ cr.deleting = w.cr.deleting
      /\ cr = [cr EXCEPT !.status = cr.status]
  BY <1>2 DEF CRs
<1>4. w' = Idle \/ GoesOn("reconcileCall", cr)
  BY DEF Attaches
<1> HIDE DEF cr
<1>5. Past(w.cr) /\ cr \in Objects
  BY <1>1, <1>3 DEF CopyInv, ObservedInThePast, Objects
<1>6. Past(cr)
  BY <1>3, <1>5 DEF Past
<1>7. /\ \A q \in Policies : q = w.key => Current(q)' = cr
      /\ \A n \in 1..Len(log'[w.key]) :
            log'[w.key][n] = cr \/ \E m \in 1..Len(log[w.key]) : log'[w.key][n] = log[w.key][m]
  <2>1. PICK p \in Policies : p = w.key
    BY <1>2
  <2>2. /\ Current(p)' = cr
        /\ \A n \in 1..Len(log'[p]) :
              log'[p][n] = cr \/ \E m \in 1..Len(log[p]) : log'[p][n] = log[p][m]
    BY <1>1, <1>2, <1>5, <2>1, AppendVersion
  <2> QED
    BY <2>1, <2>2
<1>8. \A q \in Policies : \A n \in 1..Len(log'[q]) : Past(log'[q][n])
  BY <1>1, <1>2, <1>5, <1>6, AppendKeepsPast
<1>9. ObservedInThePast'
  BY <1>4, <1>6, <1>8 DEF ObservedInThePast, GoesOn, Past, Idle
<1>10. \A m \in 1..Len(log[w.key]) : SameWork(w.cr, log[w.key][m])
  BY <1>1, <1>2 DEF CopyInv, CopyIsCurrent
<1>11. \A n \in 1..Len(log'[w.key]) : SameWork(cr, log'[w.key][n])
  BY <1>3, <1>7, <1>10 DEF SameWork
<1>12. CASE w' = Idle
  BY <1>9, <1>12 DEF CopyInv, CopyIsCurrent, Idle
<1>13. CASE GoesOn("reconcileCall", cr)
  <2>1. ASSUME NEW q \in Policies, w'.key = q
        PROVE  /\ w'.cr = [Current(q)' EXCEPT !.status = w'.cr.status]
               /\ \A n \in 1..Len(log'[q]) : SameWork(w'.cr, log'[q][n])
               /\ Unchanged(w'.cr, Current(q)')
    <3>1. q = w.key /\ w'.cr = cr
      BY <1>13, <2>1 DEF GoesOn
    <3>2. Current(q)' = cr
      BY <1>7, <3>1
    <3> QED
      BY <1>3, <1>11, <3>1, <3>2 DEF Unchanged
  <2>2. CopyIsCurrent'
    BY <1>13, <2>1 DEF CopyIsCurrent, GoesOn, SameWork, Unchanged
  <2> QED
    BY <1>9, <2>2 DEF CopyInv
<1> QED
  BY <1>4, <1>12, <1>13

\* A pass that ends with a write.
LEMMA EndsKeepCopy == ASSUME CopyInv, TypeOK', Detaches \/ Reports PROVE CopyInv'
<1>1. w.at # "idle" /\ w' = Idle
  BY DEF Detaches, Reports
<1>2. w.key \in Policies /\ w.cr \in CRs /\ Past(w.cr)
  BY <1>1, BusyTypes DEF CopyInv, TypeOK, ObservedInThePast
<1>3. ASSUME NEW c \in CRs, Past(c)
      PROVE  /\ c \in Objects /\ Past(Settled([c EXCEPT !.finalizer = FALSE]))
             /\ Settled([c EXCEPT !.finalizer = FALSE]) \in Objects
  <2>1. [c EXCEPT !.finalizer = FALSE] \in CRs /\ Past([c EXCEPT !.finalizer = FALSE])
    BY <1>3 DEF CRs, Past
  <2> QED
    BY <2>1, SettledTypes, AbsentIsPast DEF Settled, Objects
<1>4. \E cr \in Objects : Past(cr) /\ log' = [log EXCEPT ![w.key] = Append(@, cr)]
  BY <1>2, <1>3 DEF Detaches, Reports, Update
<1>5. \A q \in Policies : \A n \in 1..Len(log'[q]) : Past(log'[q][n])
  BY <1>2, <1>4, AppendKeepsPast
<1>6. ObservedInThePast' /\ CopyIsCurrent'
  BY <1>1, <1>5 DEF ObservedInThePast, CopyIsCurrent, Past, Idle
<1> QED
  BY <1>6 DEF CopyInv

LEMMA WorkerKeepsCopy == ASSUME CopyInv, Worker PROVE CopyInv'
<1>1. TypeOK /\ TypeOK' /\ log \in Histories
  BY WorkerTypes DEF CopyInv, TypeOK, Histories
<1>2. CASE Rests
  <2>1. \A p \in Policies : log'[p] \in Suffixes(p)
    BY <1>1, <1>2, WholeIsSuffix DEF Rests, Elsewhere
  <2> QED
    BY <1>1, <1>2, <2>1, QuietKeepsCopy DEF Rests
<1>3. CASE PassesGate
  <2>1. w.at \notin {"idle", "writeStatus"} /\ log' = log
    BY <1>3 DEF PassesGate, Elsewhere
  <2>2. Refused \/ \E at \in Steps \ {"writeStatus"} : GoesOn(at, w.cr)
    BY <1>3 DEF PassesGate, Steps
  <2> QED
    BY <1>1, <2>1, <2>2, StatusSetKeepsCopy, GoesOnKeepsCopy
<1>4. CASE ReconcileCall
  <2>1. w.at = "reconcileCall" /\ log' = log /\ (Refused \/ Confirmed)
    BY <1>1, <1>4, ReconcileCallSteps
  <2> QED
    BY <1>1, <2>1, StatusSetKeepsCopy
<1>5. CASE CloseCall
  <2>1. w.at = "closeCall" /\ log' = log /\ (Refused \/ GoesOn("removeFinalizer", w.cr))
    BY <1>1, <1>5, CloseCallSteps
  <2>2. "removeFinalizer" \in Steps \ {"writeStatus"}
    BY DEF Steps
  <2> QED
    BY <1>1, <2>1, <2>2, StatusSetKeepsCopy, GoesOnKeepsCopy
<1> QED
  BY <1>1, <1>2, <1>3, <1>4, <1>5, WorkerSteps, TakesKeepsCopy, AttachesKeepsCopy, EndsKeepCopy

LEMMA InitCopy == Init => CopyInv
<1> SUFFICES ASSUME Init PROVE CopyInv
  OBVIOUS
<1>1. TypeOK /\ w.at = "idle"
  BY InitTypes DEF Init, Idle
<1>2. ASSUME NEW p \in Policies, NEW n \in 1..Len(log[p]) PROVE log[p][n] = Absent
  BY <1>2 DEF Init
<1>3. ObservedInThePast
  BY <1>1, <1>2, AbsentIsPast DEF ObservedInThePast
<1> QED
  BY <1>1, <1>3 DEF CopyInv, CopyIsCurrent

LEMMA NextKeepsCopy == CopyInv /\ [Next]_vars => CopyInv'
<1> SUFFICES ASSUME CopyInv, [Next]_vars PROVE CopyInv'
  OBVIOUS
<1>1. TypeOK /\ log \in Histories
  BY DEF CopyInv, TypeOK, Histories
<1>2. ASSUME UNCHANGED <<log, w>>, TypeOK' PROVE CopyInv'
  BY <1>1, <1>2, WholeIsSuffix, QuietKeepsCopy
<1>3. CASE UNCHANGED vars
  BY <1>1, <1>2, <1>3 DEF vars, TypeOK
<1>4. CASE User
  <2>1. TypeOK'
    BY <1>1, <1>4, UserTypes
  <2> QED
    BY <1>1, <1>2, <1>4, <2>1, UserSteps, StoreKeepsCopy
<1>5. CASE ControllerRuntime \/ Restart
  BY <1>1, <1>5, RuntimeTypes, RuntimeSteps, QuietKeepsCopy
<1>6. ASSUME NEW request \in Requests, LateService(request) PROVE CopyInv'
  BY <1>1, <1>2, <1>6, LateTypes DEF LateService, cluster, manager
<1> QED
  BY <1>3, <1>4, <1>5, <1>6, WorkerKeepsCopy DEF Next

LEMMA CopyAlways == Spec => []CopyInv
BY InitCopy, NextKeepsCopy, PTL DEF Spec

-----------------------------------------------------------------------------
(* What follows from CopyInv about every write of the worker. *)

\* The two things a write of the worker may change of an object.
OwnFields(old, new) ==
    /\ old.exists /\ new.exists
    /\ new.spec = old.spec /\ new.generation = old.generation
    /\ new.deleting = old.deleting /\ new.foreign = old.foreign
    /\ new.status = old.status \/ Advanced(new, old)

LEMMA WorkerWrites ==
    ASSUME CopyInv, Worker, NEW p \in Policies
    PROVE  Current(p)' = Current(p) \/ ~Current(p)'.exists \/ OwnFields(Current(p), Current(p)')
<1>1. TypeOK /\ log \in Histories
  BY DEF CopyInv, TypeOK, Histories
<1>2. CASE log' = log
  BY <1>2 DEF Current
<1>3. ASSUME NEW cr \in Objects, Update(cr), w.at # "idle"
      PROVE  IF w.key = p THEN Current(p)' = cr ELSE Current(p)' = Current(p)
  <2>1. PICK q \in Policies : q = w.key
    BY <1>1, <1>3, BusyTypes DEF TypeOK
  <2>2. Current(q)' = cr /\ \A r \in Policies \ {q} : log'[r] = log[r]
    BY <1>1, <1>3, <2>1, AppendVersion DEF Update
  <2> QED
    BY <2>1, <2>2 DEF Current
<1>4. ASSUME w.at # "idle", w.fresh, w.key = p
      PROVE  /\ w.cr \in CRs /\ Current(p) \in Objects
             /\ w.cr = [Current(p) EXCEPT !.status = w.cr.status]
             /\ IF w.at = "writeStatus" THEN Advanced(w.cr, Current(p)) ELSE Unchanged(w.cr, Current(p))
  <2>1. w.cr \in CRs /\ Current(p) \in Objects
    BY <1>1, <1>4, BusyTypes, VersionTypes DEF TypeOK
  <2> QED
    BY <1>4, <2>1 DEF CopyInv, CopyIsCurrent
\* A copy that is the current version up to its status.
<1>5. ASSUME NEW cr \in CRs, NEW cur \in Objects, cr = [cur EXCEPT !.status = cr.status]
      PROVE  /\ cur.exists /\ cr.exists
             /\ cr.spec = cur.spec /\ cr.generation = cur.generation
             /\ cr.deleting = cur.deleting /\ cr.foreign = cur.foreign
  BY <1>5 DEF CRs, Objects, Absent
<1>6. ASSUME NEW cr \in CRs
      PROVE  /\ [cr EXCEPT !.finalizer = TRUE] \in Objects
             /\ cr \in Objects
             /\ Settled([cr EXCEPT !.finalizer = FALSE]) \in Objects
             /\ \/ ~Settled([cr EXCEPT !.finalizer = FALSE]).exists
                \/ Settled([cr EXCEPT !.finalizer = FALSE]) = [cr EXCEPT !.finalizer = FALSE]
  <2>1. [cr EXCEPT !.finalizer = TRUE] \in CRs /\ [cr EXCEPT !.finalizer = FALSE] \in CRs
    BY DEF CRs
  <2> QED
    BY <2>1, SettledTypes DEF Objects, Settled, Absent
<1>7. ASSUME NEW cr \in CRs, NEW f \in BOOLEAN
      PROVE  /\ [cr EXCEPT !.finalizer = f].exists = cr.exists
             /\ [cr EXCEPT !.finalizer = f].spec = cr.spec
             /\ [cr EXCEPT !.finalizer = f].generation = cr.generation
             /\ [cr EXCEPT !.finalizer = f].deleting = cr.deleting
             /\ [cr EXCEPT !.finalizer = f].foreign = cr.foreign
             /\ [cr EXCEPT !.finalizer = f].status = cr.status
  BY DEF CRs
<1>8. w.at # "idle" => w.cr \in CRs
  BY <1>1, BusyTypes DEF TypeOK
<1>9. CASE Attaches
  <2>1. w.at = "addFinalizer" /\ w.fresh /\ Update([w.cr EXCEPT !.finalizer = TRUE])
    BY <1>9 DEF Attaches, Update
  <2>2. CASE w.key = p
    <3>1. Current(p)' = [w.cr EXCEPT !.finalizer = TRUE]
      BY <1>3, <1>6, <1>8, <2>1, <2>2
    <3>2. OwnFields(Current(p), [w.cr EXCEPT !.finalizer = TRUE])
      BY <1>4, <1>5, <1>7, <2>1, <2>2 DEF OwnFields, Unchanged
    <3> QED
      BY <3>1, <3>2
  <2> QED
    BY <1>3, <1>6, <1>8, <2>1, <2>2
<1>10. CASE Detaches
  <2>1. w.at = "removeFinalizer" /\ w.fresh /\ Update(Settled([w.cr EXCEPT !.finalizer = FALSE]))
    BY <1>10 DEF Detaches, Update
  <2>2. CASE w.key = p
    <3>1. Current(p)' = Settled([w.cr EXCEPT !.finalizer = FALSE])
      BY <1>3, <1>6, <1>8, <2>1, <2>2
    <3>2. OwnFields(Current(p), [w.cr EXCEPT !.finalizer = FALSE])
      BY <1>4, <1>5, <1>7, <2>1, <2>2 DEF OwnFields, Unchanged
    <3> QED
      BY <1>6, <1>8, <2>1, <3>1, <3>2
  <2> QED
    BY <1>3, <1>6, <1>8, <2>1, <2>2
<1>11. CASE Reports
  <2>1. w.at = "writeStatus" /\ w.fresh /\ Update(w.cr)
    BY <1>11 DEF Reports, Update
  <2>2. CASE w.key = p
    <3>1. Current(p)' = w.cr
      BY <1>3, <1>6, <1>8, <2>1, <2>2
    <3>2. OwnFields(Current(p), w.cr)
      BY <1>4, <1>5, <2>1, <2>2 DEF OwnFields
    <3> QED
      BY <3>1, <3>2
  <2> QED
    BY <1>3, <1>6, <1>8, <2>1, <2>2
<1> QED
  BY <1>1, <1>2, <1>9, <1>10, <1>11, WorkerSteps, ReconcileCallSteps, CloseCallSteps
     DEF Rests, Takes, PassesGate, Elsewhere

\* However stale the worker's copy was and whatever the network does, no write
\* of the operator undoes an edit, a deletion or a foreign finalizer, brings an
\* object back, or reports an older generation than status already does.
THEOREM NobodyIsReverted == Spec => OperatorRevertsNobody
<1>1. ASSUME CopyInv, Worker, NEW p \in Policies, Current(p)'.exists
      PROVE  Current(p).exists /\ SameIntent(Current(p), Current(p)')
  <2>1. Current(p) \in Objects
    BY <1>1, VersionTypes DEF CopyInv, TypeOK, Histories
  <2>2. Current(p).status.observedGeneration >= Current(p).status.observedGeneration
    BY <2>1, GenerationTypes
  <2>3. CASE Current(p)' = Current(p)
    BY <1>1, <2>2, <2>3 DEF SameIntent
  <2>4. CASE OwnFields(Current(p), Current(p)')
    BY <2>2, <2>4 DEF OwnFields, Advanced, SameIntent
  <2> QED
    BY <1>1, <2>3, <2>4, WorkerWrites
<1>2. CopyInv /\ [Next]_vars =>
        [Worker => \A p \in Policies :
            Current(p)'.exists => Current(p).exists /\ SameIntent(Current(p), Current(p)')]_vars
  BY <1>1
<1> QED
  BY <1>2, CopyAlways, PTL DEF Spec, OperatorRevertsNobody

\* Of every kind of policy, under every fault: the evidence a status reports
\* changes only by a status write that confirms the generation it is stored with.
THEOREM EvidenceIsConfirmed == Spec => EvidenceOnlyFromConfirmation
<1> DEFINE Honest(old, new) ==
             old.exists /\ new.exists
               /\ new.status.correlatedEvidenceCount # old.status.correlatedEvidenceCount
             => ReadyFor(new)
<1>1. ASSUME CopyInv, [Next]_vars, NEW p \in Policies PROVE Honest(Current(p), Current(p)')
  <2>1. TypeOK /\ log \in Histories
    BY <1>1 DEF CopyInv, TypeOK, Histories
  <2>2. CASE Current(p)' = Current(p)
    BY <2>2
  <2>3. CASE Worker
    <3>1. Current(p)' = Current(p) \/ ~Current(p)'.exists \/ OwnFields(Current(p), Current(p)')
      BY <1>1, <2>3, WorkerWrites
    <3> QED
      BY <3>1 DEF OwnFields, Advanced
  <2>4. ASSUME NEW q \in Policies, NEW cr \in Objects, Store(q, cr), UserWrites(Current(q), cr)
        PROVE  Honest(Current(p), Current(p)')
    <3>1. Current(q)' = cr /\ \A r \in Policies \ {q} : log'[r] = log[r]
      BY <2>1, <2>4, AppendVersion DEF Store
    <3>2. p # q => Current(p)' = Current(p)
      BY <3>1 DEF Current
    <3>3. cr.exists /\ Current(q).exists => cr.status = Current(q).status
      BY <2>4 DEF UserWrites, Absent
    <3> QED
      BY <3>1, <3>2, <3>3
  <2>5. log' = log => Current(p)' = Current(p)
    BY DEF Current
  <2>6. CASE ControllerRuntime \/ Restart
    <3>1. log'[p] \in Suffixes(p)
      BY <2>1, <2>6, RuntimeSteps
    <3>2. Current(p)' = Current(p)
      BY <2>1, <3>1, SkipVersions DEF Current
    <3> QED
      BY <2>2, <3>2
  <2>7. ASSUME UNCHANGED vars \/ \E request \in Requests : LateService(request) PROVE log' = log
    BY <2>7 DEF vars, LateService, cluster
  <2> QED
    BY <1>1, <2>1, <2>2, <2>3, <2>4, <2>5, <2>6, <2>7, UserSteps DEF Next
<1>2. CopyInv /\ [Next]_vars =>
        [\A p \in Policies :
            LET old == Current(p)
                new == Current(p)'
            IN old.exists /\ new.exists
                 /\ new.status.correlatedEvidenceCount # old.status.correlatedEvidenceCount
               => ReadyFor(new)]_vars
  BY <1>1
<1> QED
  BY <1>2, CopyAlways, PTL DEF Spec, EvidenceOnlyFromConfirmation

-----------------------------------------------------------------------------
(* AppliedInv, when no request is served after the client gave up on it.   *)

\* What happens to the versions of one CR, and to what the worker holds of it.
ReadyStaysTrue(p) ==
    ReadyFor(Current(p)) =>
        /\ graph[p].spec = Current(p).spec
        /\ ~Current(p).deleting
        /\ \A n \in 1..Len(log[p]) : SameWork(Current(p), log[p][n])
        /\ w.at # "idle" /\ w.key = p => SameWork(Current(p), w.cr)

LEMMA AppliedParts ==
    AppliedInv <=> /\ CopyInv /\ CopyFits /\ late = {} /\ ConfirmedIsApplied
                   /\ \A p \in Policies : ReadyStaysTrue(p)
BY DEF AppliedInv, ReadyMeansApplied, ReadyIsOld, ReadyStaysTrue

\* No new version: nothing that is ready becomes untrue.
LEMMA NoVersionKeepsReady ==
    ASSUME log \in Histories, NEW p \in Policies, ReadyStaysTrue(p),
           log'[p] \in Suffixes(p),
           graph'[p].spec = graph[p].spec \/ graph'[p].spec = Current(p).spec
             \/ ~ReadyFor(Current(p)),
           w'.at # "idle" /\ w'.key = p =>
              \/ w.at # "idle" /\ w.key = p /\ w'.cr.spec = w.cr.spec /\ w'.cr.deleting = w.cr.deleting
              \/ \E n \in 1..Len(log[p]) : w'.cr = log[p][n]
    PROVE  ReadyStaysTrue(p)'
<1>1. /\ log'[p][Len(log'[p])] = Current(p)
      /\ \A n \in 1..Len(log'[p]) : \E m \in 1..Len(log[p]) : log'[p][n] = log[p][m]
  BY SkipVersions
<1>2. Current(p)' = Current(p)
  BY <1>1 DEF Current
<1> DEFINE Kept(cur) == /\ graph'[p].spec = cur.spec
                        /\ ~cur.deleting
                        /\ \A n \in 1..Len(log'[p]) : SameWork(cur, log'[p][n])
                        /\ w'.at # "idle" /\ w'.key = p => SameWork(cur, w'.cr)
<1>3. ReadyFor(Current(p)) => Kept(Current(p))
  BY <1>1 DEF ReadyStaysTrue, SameWork
<1>4. ReadyFor(Current(p)') => Kept(Current(p)')
  BY <1>2, <1>3
<1> QED
  BY <1>4 DEF ReadyStaysTrue, SameWork, ReadyFor

\* A version with the same work and readiness as the one before.
LEMMA SameVersionKeepsReady ==
    ASSUME log \in Histories, NEW p \in Policies, ReadyStaysTrue(p), NEW cr \in Objects,
           log' = [log EXCEPT ![p] = Append(@, cr)],
           ReadyFor(cr) => ReadyFor(Current(p)) /\ SameWork(Current(p), cr),
           graph' = graph,
           w'.at # "idle" /\ w'.key = p =>
              w.at # "idle" /\ w.key = p /\ w'.cr.spec = w.cr.spec /\ w'.cr.deleting = w.cr.deleting
    PROVE  ReadyStaysTrue(p)'
<1>1. /\ Current(p)' = cr
      /\ \A n \in 1..Len(log'[p]) :
            log'[p][n] = cr \/ \E m \in 1..Len(log[p]) : log'[p][n] = log[p][m]
  BY AppendVersion
<1> DEFINE Kept(cur) == /\ graph'[p].spec = cur.spec
                        /\ ~cur.deleting
                        /\ \A n \in 1..Len(log'[p]) : SameWork(cur, log'[p][n])
                        /\ w'.at # "idle" /\ w'.key = p => SameWork(cur, w'.cr)
<1>2. ReadyFor(cr) => Kept(cr)
  <2> SUFFICES ASSUME ReadyFor(cr) PROVE Kept(cr)
    OBVIOUS
  <2>1. /\ graph[p].spec = Current(p).spec /\ ~Current(p).deleting
        /\ \A n \in 1..Len(log[p]) : SameWork(Current(p), log[p][n])
        /\ w.at # "idle" /\ w.key = p => SameWork(Current(p), w.cr)
        /\ SameWork(Current(p), cr)
    BY DEF ReadyStaysTrue
  <2> QED
    BY <1>1, <2>1 DEF SameWork
<1>3. ReadyFor(Current(p)') => Kept(Current(p)')
  BY <1>1, <1>2
<1> QED
  BY <1>3 DEF ReadyStaysTrue, SameWork, ReadyFor

\* A step that leaves a CR alone: its versions, its intent and the worker's
\* business with it.
LEMMA OthersKeepReady ==
    ASSUME NEW q \in Policies, ReadyStaysTrue(q), log'[q] = log[q], graph'[q].spec = graph[q].spec,
           w'.at # "idle" /\ w'.key = q =>
              w.at # "idle" /\ w.key = q /\ w'.cr.spec = w.cr.spec /\ w'.cr.deleting = w.cr.deleting
    PROVE  ReadyStaysTrue(q)'
<1>1. Current(q)' = Current(q)
  BY DEF Current
<1> DEFINE Kept(cur) == /\ graph'[q].spec = cur.spec
                        /\ ~cur.deleting
                        /\ \A n \in 1..Len(log'[q]) : SameWork(cur, log'[q][n])
                        /\ w'.at # "idle" /\ w'.key = q => SameWork(cur, w'.cr)
<1>2. ReadyFor(Current(q)) => Kept(Current(q))
  BY DEF ReadyStaysTrue, SameWork
<1>3. ReadyFor(Current(q)') => Kept(Current(q)')
  BY <1>1, <1>2
<1> QED
  BY <1>3 DEF ReadyStaysTrue, SameWork, ReadyFor

\* What somebody else stores is ready only if what was there was, with the same
\* work: a new generation was not observed yet.
LEMMA UserWritesReady ==
    ASSUME NEW old \in Objects, NEW new \in Objects, UserWrites(old, new), Past(old), ReadyFor(new)
    PROVE  ReadyFor(old) /\ SameWork(old, new)
<1>1. old.generation \in Nat /\ old.status.observedGeneration \in Nat
  BY GenerationTypes
<1>2. CASE new.status = NoStatus
  <2>1. NoStatus.ready = "none"
    BY DEF NoStatus
  <2> QED
    BY <1>2, <2>1 DEF ReadyFor
<1>3. CASE new = Absent
  BY <1>3 DEF ReadyFor, Absent
<1>4. CASE new.status = old.status /\ new.generation = old.generation + 1
  <2>1. ASSUME NEW o \in Nat, NEW g \in Nat, o <= g, o = g + 1 PROVE FALSE
    BY <2>1
  <2> QED
    BY <1>1, <1>4, <2>1 DEF ReadyFor, Past
<1>5. CASE old.exists /\ new.status = old.status /\ new.generation = old.generation /\ SameWork(old, new)
  BY <1>5 DEF ReadyFor
<1> QED
  BY <1>2, <1>3, <1>4, <1>5 DEF UserWrites

LEMMA StoreKeepsApplied ==
    ASSUME AppliedInv, CopyInv', NEW p \in Policies, NEW cr \in Objects, Store(p, cr),
           UserWrites(Current(p), cr), UNCHANGED <<graph, late>>
    PROVE  AppliedInv'
<1>1. log \in Histories /\ w \in Workers
  BY DEF AppliedInv, CopyInv, TypeOK, Histories
<1>2. w'.key = w.key /\ w'.at = w.at /\ w'.cr = w.cr
  BY <1>1, StoreKeepsKey
<1>3. /\ log' = [log EXCEPT ![p] = Append(@, cr)]
      /\ \A q \in Policies \ {p} : log'[q] = log[q]
  BY <1>1, AppendVersion DEF Store
<1>4. ReadyFor(cr) => ReadyFor(Current(p)) /\ SameWork(Current(p), cr)
  <2>1. Current(p) \in Objects /\ Past(Current(p))
    BY <1>1, VersionTypes, CurrentIsVersion DEF AppliedInv, CopyInv, ObservedInThePast
  <2> QED
    BY <2>1, UserWritesReady
<1>5. \A q \in Policies : ReadyStaysTrue(q)
  BY AppliedParts
<1>6. ReadyStaysTrue(p)'
  BY <1>1, <1>2, <1>3, <1>4, <1>5, SameVersionKeepsReady
<1>7. \A q \in Policies \ {p} : ReadyStaysTrue(q)'
  BY <1>2, <1>3, <1>5, OthersKeepReady
<1>8. CopyFits' /\ ConfirmedIsApplied' /\ late' = {}
  BY <1>2 DEF AppliedInv, CopyFits, ConfirmedIsApplied
<1>9. \A q \in Policies : ReadyStaysTrue(q)'
  BY <1>6, <1>7
<1>10. (\A q \in Policies : ReadyStaysTrue(q))'
  BY <1>9
<1> QED
  BY <1>8, <1>10, AppliedParts DEF AppliedInv, ReadyMeansApplied, ReadyIsOld, ReadyStaysTrue

\* Steps that make no version and leave the worker alone or stop it.
LEMMA QuietKeepsApplied ==
    ASSUME AppliedInv, CopyInv', \A p \in Policies : log'[p] \in Suffixes(p), w' \in {w, Idle},
           \A p \in Policies : graph'[p].spec = graph[p].spec, late' = late
    PROVE  AppliedInv'
<1>1. log \in Histories /\ w \in Workers /\ Idle.at = "idle"
  BY DEF AppliedInv, CopyInv, TypeOK, Histories, Idle
<1>2. ASSUME NEW q \in Policies PROVE ReadyStaysTrue(q)'
  <2>1. ReadyStaysTrue(q)
    BY AppliedParts
  <2> QED
    BY <1>1, <2>1, NoVersionKeepsReady
<1>3. CopyFits'
  BY <1>1 DEF AppliedInv, CopyFits
<1>4. w.at # "idle" => w.key \in Policies
  BY <1>1, BusyTypes
<1>5. ConfirmedIsApplied'
  <2>1. CASE w' = Idle
    BY <1>1, <2>1 DEF ConfirmedIsApplied
  <2>2. CASE w' = w
    BY <1>4, <2>2 DEF AppliedInv, ConfirmedIsApplied
  <2> QED
    BY <2>1, <2>2
<1> QED
  BY <1>2, <1>3, <1>5, AppliedParts DEF AppliedInv, ReadyMeansApplied, ReadyIsOld, ReadyStaysTrue

\* Steps of a pass that write no version; the graph may get the intent of the
\* worker's copy, or lose the intent of a CR that is being deleted.
LEMMA PassKeepsApplied ==
    ASSUME AppliedInv, CopyInv', w.at # "idle", log' = log, late' = late,
           \/ Refused \/ \E at \in Steps \ {"writeStatus"} : GoesOn(at, w.cr)
           \/ Confirmed /\ graph'[w.key].spec = w.cr.spec /\ ~w.cr.deleting,
           \A q \in Policies \ {w.key} : graph'[q].spec = graph[q].spec,
           \/ graph'[w.key].spec = graph[w.key].spec \/ graph'[w.key].spec = w.cr.spec
           \/ w.cr.deleting,
           CopyFits'
    PROVE  AppliedInv'
<1>1. log \in Histories /\ w.key \in Policies /\ w.cr \in CRs
  BY BusyTypes DEF AppliedInv, CopyInv, TypeOK, Histories
<1>2. /\ w'.key = w.key /\ w'.cr.spec = w.cr.spec /\ w'.cr.deleting = w.cr.deleting
  <2>1. ASSUME NEW c \in CRs, NEW st, NEW d, d = [c EXCEPT !.status = st]
        PROVE  d.spec = c.spec /\ d.deleting = c.deleting
    BY <2>1 DEF CRs
  <2> QED
    BY <1>1, <2>1 DEF Refused, Confirmed, StatusSet, GoesOn
<1>3. ASSUME NEW q \in Policies PROVE ReadyStaysTrue(q)'
  <2>1. ReadyStaysTrue(q)
    BY AppliedParts
  <2>2. CASE q # w.key
    BY <1>2, <2>1, <2>2, OthersKeepReady
  <2>3. CASE q = w.key
    <3>1. log'[q] \in Suffixes(q)
      BY <1>1, WholeIsSuffix
    <3>2. \/ graph'[q].spec = graph[q].spec \/ graph'[q].spec = Current(q).spec
          \/ ~ReadyFor(Current(q))
      BY <2>1, <2>3 DEF ReadyStaysTrue, SameWork
    <3> QED
      BY <1>1, <1>2, <2>1, <2>3, <3>1, <3>2, NoVersionKeepsReady
  <2> QED
    BY <2>2, <2>3
<1>4. ConfirmedIsApplied'
  <2>1. CASE Refused
    BY <2>1 DEF Refused, ConfirmedIsApplied
  <2>2. CASE \E at \in Steps \ {"writeStatus"} : GoesOn(at, w.cr)
    BY <2>2 DEF GoesOn, ConfirmedIsApplied
  <2>3. CASE Confirmed /\ graph'[w.key].spec = w.cr.spec /\ ~w.cr.deleting
    BY <1>2, <2>3 DEF ConfirmedIsApplied
  <2> QED
    BY <2>1, <2>2, <2>3
<1> QED
  BY <1>3, <1>4 DEF AppliedInv, ReadyMeansApplied, ReadyIsOld, ReadyStaysTrue

LEMMA TakesKeepsApplied ==
    ASSUME AppliedInv, CopyInv', NEW p \in Policies, Takes(p)
    PROVE  AppliedInv'
<1>1. log \in Histories /\ log' = log /\ graph' = graph /\ late' = late /\ w.at = "idle"
  BY DEF AppliedInv, CopyInv, TypeOK, Histories, Takes, Elsewhere
<1>2. w'.key = p /\ w'.cr = Cached(p) /\ w'.at \in {"gate", "closeCall"}
  BY DEF Takes
<1>3. \E n \in 1..Len(log[p]) : Cached(p) = log[p][n]
  <2>1. Len(log[p]) \in Nat \ {0}
    BY <1>1, EmptySeq DEF Histories
  <2> QED
    BY <2>1 DEF Cached
<1>4. ASSUME NEW q \in Policies PROVE ReadyStaysTrue(q)'
  <2>1. ReadyStaysTrue(q) /\ log'[q] \in Suffixes(q)
    BY <1>1, AppliedParts, WholeIsSuffix
  <2>2. w'.at # "idle" /\ w'.key = q => \E n \in 1..Len(log[q]) : w'.cr = log[q][n]
    BY <1>2, <1>3
  <2> QED
    BY <1>1, <2>1, <2>2, NoVersionKeepsReady
<1>5. CopyFits' /\ ConfirmedIsApplied'
  BY DEF Takes, CopyFits, ConfirmedIsApplied
<1> QED
  BY <1>1, <1>4, <1>5 DEF AppliedInv, ReadyMeansApplied, ReadyIsOld, ReadyStaysTrue

\* A version that the worker writes from a fresh copy.
LEMMA OwnWriteKeepsReady ==
    ASSUME AppliedInv, w.at # "idle", NEW cr \in Objects, Update(cr), graph' = graph, late' = late,
           \A q \in Policies : q = w.key /\ ReadyFor(cr) =>
               ReadyFor(Current(q)) /\ SameWork(Current(q), cr),
           w' = Idle \/ (w'.key = w.key /\ w'.cr.spec = w.cr.spec /\ w'.cr.deleting = w.cr.deleting)
    PROVE  \A q \in Policies : ReadyStaysTrue(q)'
<1>1. log \in Histories /\ w.key \in Policies
  BY BusyTypes DEF AppliedInv, CopyInv, TypeOK, Histories
<1>2. \A q \in Policies : ReadyStaysTrue(q)
  BY AppliedParts
<1>3. log' = [log EXCEPT ![w.key] = Append(@, cr)] /\ \A q \in Policies \ {w.key} : log'[q] = log[q]
  BY <1>1, AppendVersion DEF Update
<1>4. ASSUME NEW q \in Policies PROVE ReadyStaysTrue(q)'
  <2>1. w'.at # "idle" /\ w'.key = q
           => w.at # "idle" /\ w.key = q /\ w'.cr.spec = w.cr.spec /\ w'.cr.deleting = w.cr.deleting
    BY DEF Idle
  <2>2. CASE q = w.key
    BY <1>1, <1>2, <1>3, <2>1, <2>2, SameVersionKeepsReady
  <2>3. CASE q # w.key
    BY <1>2, <1>3, <2>1, <2>3, OthersKeepReady
  <2> QED
    BY <2>2, <2>3
<1> QED
  BY <1>4

LEMMA AttachesKeepsApplied == ASSUME AppliedInv, CopyInv', Attaches PROVE AppliedInv'
<1> DEFINE cr == [w.cr EXCEPT !.finalizer = TRUE]
<1>1. w.at = "addFinalizer" /\ w.fresh /\ Update(cr) /\ graph' = graph /\ late' = late
  BY DEF Attaches, Update
<1>2. w.key \in Policies /\ w.cr \in CRs /\ log \in Histories
  BY <1>1, BusyTypes DEF AppliedInv, CopyInv, TypeOK, Histories
<1>3. /\ cr \in CRs /\ cr.status = w.cr.status /\ cr.generation = w.cr.generation
      /\ cr.spec = w.cr.spec /\ cr.deleting = w.cr.deleting /\ w.cr.exists
  BY <1>2 DEF CRs
<1>4. w' = Idle \/ GoesOn("reconcileCall", cr)
  BY DEF Attaches
<1> HIDE DEF cr
<1>5. ASSUME NEW q \in Policies, q = w.key
      PROVE  ReadyFor(cr) => ReadyFor(Current(q)) /\ SameWork(Current(q), cr)
  <2>1. w.cr = [Current(q) EXCEPT !.status = w.cr.status] /\ w.cr.status = Current(q).status
    BY <1>1, <1>5 DEF AppliedInv, CopyInv, CopyIsCurrent, Unchanged
  <2>2. Current(q) \in Objects
    BY <1>2, VersionTypes
  <2>3. ASSUME NEW c \in CRs, NEW cur \in Objects, c = [cur EXCEPT !.status = c.status]
        PROVE  cur.exists /\ c.spec = cur.spec /\ c.generation = cur.generation /\ c.deleting = cur.deleting
    BY <2>3 DEF CRs, Objects, Absent
  <2>4. /\ Current(q).exists /\ w.cr.spec = Current(q).spec
        /\ w.cr.generation = Current(q).generation /\ w.cr.deleting = Current(q).deleting
    BY <1>2, <2>1, <2>2, <2>3
  <2> QED
    BY <1>3, <2>1, <2>4 DEF ReadyFor, SameWork
<1>6. \A q \in Policies : ReadyStaysTrue(q)'
  <2>1. cr \in Objects
    BY <1>3 DEF Objects
  <2> QED
    BY <1>1, <1>3, <1>4, <1>5, <2>1, OwnWriteKeepsReady DEF GoesOn
<1>7. ~w.cr.deleting
  BY <1>1 DEF AppliedInv, CopyFits
<1>8. CopyFits' /\ ConfirmedIsApplied'
  BY <1>3, <1>4, <1>7 DEF GoesOn, Idle, CopyFits, ConfirmedIsApplied
<1> QED
  BY <1>1, <1>6, <1>8 DEF AppliedInv, ReadyMeansApplied, ReadyIsOld, ReadyStaysTrue

\* The finalizer leaves an object that is being deleted, hence was not ready.
LEMMA DetachesKeepsApplied == ASSUME AppliedInv, CopyInv', Detaches PROVE AppliedInv'
<1> DEFINE cr == Settled([w.cr EXCEPT !.finalizer = FALSE])
<1>1. /\ w.at = "removeFinalizer" /\ w.fresh /\ Update(cr) /\ graph' = graph /\ late' = late
      /\ w' = Idle
  BY DEF Detaches, Update
<1>2. w.key \in Policies /\ w.cr \in CRs /\ log \in Histories /\ w.cr.deleting
  BY <1>1, BusyTypes DEF AppliedInv, CopyInv, TypeOK, Histories, CopyFits
<1>3. ASSUME NEW c \in CRs
      PROVE  /\ Settled([c EXCEPT !.finalizer = FALSE]) \in Objects
             /\ ReadyFor(Settled([c EXCEPT !.finalizer = FALSE])) => ReadyFor(c)
  <2>1. [c EXCEPT !.finalizer = FALSE] \in CRs
    BY DEF CRs
  <2>2. ReadyFor([c EXCEPT !.finalizer = FALSE]) => ReadyFor(c)
    BY DEF CRs, ReadyFor
  <2>3. ~ReadyFor(Absent)
    BY DEF ReadyFor, Absent
  <2> QED
    BY <2>1, <2>2, <2>3, SettledTypes DEF Settled
<1>4. cr \in Objects /\ (ReadyFor(cr) => ReadyFor(w.cr))
  BY <1>2, <1>3
<1> HIDE DEF cr
<1>5. ASSUME NEW q \in Policies, q = w.key PROVE ~ReadyFor(w.cr)
  <2>1. w.cr = [Current(q) EXCEPT !.status = w.cr.status] /\ w.cr.status = Current(q).status
    BY <1>1, <1>5 DEF AppliedInv, CopyInv, CopyIsCurrent, Unchanged
  <2>2. Current(q) \in Objects
    BY <1>2, VersionTypes
  <2>3. ASSUME NEW c \in CRs, NEW cur \in Objects, c = [cur EXCEPT !.status = c.status]
        PROVE  cur.exists /\ c.generation = cur.generation /\ c.deleting = cur.deleting
    BY <2>3 DEF CRs, Objects, Absent
  <2>4. /\ Current(q).exists
        /\ w.cr.generation = Current(q).generation /\ w.cr.deleting = Current(q).deleting
    BY <1>2, <2>1, <2>2, <2>3
  <2>5. ReadyFor(w.cr) => ReadyFor(Current(q))
    BY <2>1, <2>4 DEF ReadyFor
  <2> QED
    BY <1>2, <2>4, <2>5 DEF AppliedInv, ReadyIsOld
<1>6. \A q \in Policies : ReadyStaysTrue(q)'
  BY <1>1, <1>4, <1>5, OwnWriteKeepsReady
<1>7. CopyFits' /\ ConfirmedIsApplied'
  BY <1>1 DEF Idle, CopyFits, ConfirmedIsApplied
<1> QED
  BY <1>1, <1>6, <1>7 DEF AppliedInv, ReadyMeansApplied, ReadyIsOld, ReadyStaysTrue

\* The status of a copy that was fresh: if it is ready, the graph has its intent.
LEMMA ReportsKeepsApplied == ASSUME AppliedInv, CopyInv', Reports PROVE AppliedInv'
<1>1. /\ w.at = "writeStatus" /\ w.fresh /\ log' = [log EXCEPT ![w.key] = Append(@, w.cr)]
      /\ graph' = graph /\ late' = late /\ w' = Idle
  BY DEF Reports, Update
<1>2. w.key \in Policies /\ w.cr \in CRs /\ w.cr \in Objects /\ log \in Histories
  BY <1>1, BusyTypes DEF AppliedInv, CopyInv, TypeOK, Histories, Objects
<1>3. ASSUME NEW q \in Policies, q = w.key PROVE ReadyStaysTrue(q)'
  <2>1. /\ Current(q)' = w.cr
        /\ \A n \in 1..Len(log'[q]) :
              log'[q][n] = w.cr \/ \E m \in 1..Len(log[q]) : log'[q][n] = log[q][m]
    BY <1>1, <1>2, <1>3, AppendVersion
  <2>2. \A n \in 1..Len(log[q]) : SameWork(w.cr, log[q][n])
    BY <1>1, <1>3 DEF AppliedInv, CopyInv, CopyIsCurrent
  <2>3. \A n \in 1..Len(log'[q]) : SameWork(w.cr, log'[q][n])
    BY <2>1, <2>2 DEF SameWork
  <2>4. ReadyFor(w.cr) => ~w.cr.deleting /\ graph[q].spec = w.cr.spec
    BY <1>1, <1>3 DEF AppliedInv, ConfirmedIsApplied, ReadyFor
  <2>5. w'.at = "idle"
    BY <1>1 DEF Idle
  <2> DEFINE Kept(cur) == /\ graph'[q].spec = cur.spec
                          /\ ~cur.deleting
                          /\ \A n \in 1..Len(log'[q]) : SameWork(cur, log'[q][n])
                          /\ w'.at # "idle" /\ w'.key = q => SameWork(cur, w'.cr)
  <2>6. ReadyFor(w.cr) => Kept(w.cr)
    BY <1>1, <2>3, <2>4, <2>5
  <2>7. ReadyFor(Current(q)') => Kept(Current(q)')
    BY <2>1, <2>6
  <2> QED
    BY <2>7 DEF ReadyStaysTrue, SameWork, ReadyFor
<1>4. ASSUME NEW q \in Policies, q # w.key PROVE ReadyStaysTrue(q)'
  <2>1. log'[q] = log[q] /\ ReadyStaysTrue(q)
    BY <1>1, <1>2, <1>4, AppendVersion, AppliedParts
  <2> QED
    BY <1>1, <1>4, <2>1, OthersKeepReady DEF Idle
<1>5. CopyFits' /\ ConfirmedIsApplied'
  BY <1>1 DEF Idle, CopyFits, ConfirmedIsApplied
<1> QED
  BY <1>1, <1>3, <1>4, <1>5 DEF AppliedInv, ReadyMeansApplied, ReadyIsOld, ReadyStaysTrue

LEMMA WorkerKeepsApplied == ASSUME AppliedInv, ~LateCalls, Worker PROVE AppliedInv'
<1>1. /\ TypeOK /\ CopyInv /\ CopyInv' /\ log \in Histories /\ w \in Workers
      /\ w.at # "idle" => w.key \in Policies /\ w.cr \in CRs
  BY WorkerKeepsCopy, BusyTypes DEF AppliedInv, CopyInv, TypeOK, Histories
<1>2. CASE Rests
  <2>1. \A p \in Policies : log'[p] \in Suffixes(p)
    BY <1>1, <1>2, WholeIsSuffix DEF Rests, Elsewhere
  <2> QED
    BY <1>1, <1>2, <2>1, QuietKeepsApplied DEF Rests, Elsewhere
<1>3. CASE PassesGate
  <2>1. w.at = "gate" /\ log' = log /\ graph' = graph /\ late' = late
    BY <1>3 DEF PassesGate, Elsewhere
  <2>2. Refused \/ \E at \in {"reconcileCall", "addFinalizer"} : GoesOn(at, w.cr)
    BY <1>3 DEF PassesGate
  <2>3. {"reconcileCall", "addFinalizer"} \subseteq Steps \ {"writeStatus"}
    BY DEF Steps
  <2>4. CopyFits'
    BY <2>1, <2>2 DEF AppliedInv, CopyFits, Refused, StatusSet, GoesOn
  <2> QED
    BY <1>1, <2>1, <2>2, <2>3, <2>4, PassKeepsApplied
<1>4. CASE ReconcileCall
  <2>1. /\ w.at = "reconcileCall" /\ w.key \in Policies /\ log' = log /\ late' = late
        /\ Refused \/ (Confirmed /\ graph'[w.key].spec = w.cr.spec)
        /\ \A q \in Policies \ {w.key} : graph'[q] = graph[q]
        /\ graph'[w.key].spec = graph[w.key].spec \/ graph'[w.key].spec = w.cr.spec
    BY <1>1, <1>4, ReconcileCallSteps
  <2>2. ~w.cr.deleting
    BY <2>1 DEF AppliedInv, CopyFits
  <2>3. CopyFits'
    BY <2>1 DEF CopyFits, Refused, Confirmed, StatusSet
  <2> QED
    BY <1>1, <2>1, <2>2, <2>3, PassKeepsApplied
<1>5. CASE CloseCall
  <2>1. /\ w.at = "closeCall" /\ w.key \in Policies /\ log' = log /\ late' = late
        /\ Refused \/ GoesOn("removeFinalizer", w.cr)
        /\ \A q \in Policies \ {w.key} : graph'[q] = graph[q]
    BY <1>1, <1>5, CloseCallSteps
  <2>2. w.cr.deleting
    BY <2>1 DEF AppliedInv, CopyFits
  <2>3. CopyFits'
    BY <2>1, <2>2 DEF CopyFits, Refused, StatusSet, GoesOn
  <2>4. "removeFinalizer" \in Steps \ {"writeStatus"}
    BY DEF Steps
  <2> QED
    BY <1>1, <2>1, <2>2, <2>3, <2>4, PassKeepsApplied
<1> QED
  BY <1>1, <1>2, <1>3, <1>4, <1>5, WorkerSteps, TakesKeepsApplied, AttachesKeepsApplied,
     DetachesKeepsApplied, ReportsKeepsApplied

LEMMA InitApplied == Init => AppliedInv
<1> SUFFICES ASSUME Init PROVE AppliedInv
  OBVIOUS
<1>1. CopyInv /\ w.at = "idle" /\ late = {}
  BY InitCopy DEF Init, Idle
<1>2. ASSUME NEW p \in Policies PROVE ~ReadyFor(Current(p))
  BY DEF Init, Current, ReadyFor, Absent
<1> QED
  BY <1>1, <1>2 DEF AppliedInv, CopyFits, ReadyMeansApplied, ReadyIsOld, ConfirmedIsApplied

LEMMA NextKeepsApplied == ASSUME ~LateCalls PROVE AppliedInv /\ [Next]_vars => AppliedInv'
<1> SUFFICES ASSUME AppliedInv, [Next]_vars PROVE AppliedInv'
  OBVIOUS
<1>1. CopyInv /\ CopyInv' /\ TypeOK /\ log \in Histories
  BY NextKeepsCopy DEF AppliedInv, CopyInv, TypeOK, Histories
<1>2. ASSUME UNCHANGED <<log, w, late>>, \A p \in Policies : graph'[p].spec = graph[p].spec
      PROVE  AppliedInv'
  BY <1>1, <1>2, WholeIsSuffix, QuietKeepsApplied
<1>3. CASE UNCHANGED vars
  BY <1>2, <1>3 DEF vars
<1>4. CASE User
  <2>1. ASSUME NEW p \in Policies, EdgeDrift(p) PROVE \A q \in Policies : graph'[q].spec = graph[q].spec
    <3>1. graph' = [graph EXCEPT ![p] = [graph[p] EXCEPT !.edges = 0]]
      BY <2>1 DEF EdgeDrift
    <3>2. [graph[p] EXCEPT !.edges = 0].spec = graph[p].spec
      BY <1>1 DEF TypeOK
    <3> QED
      BY <1>1, <3>1, <3>2 DEF TypeOK
  <2> QED
    BY <1>1, <1>2, <1>4, <2>1, UserSteps, StoreKeepsApplied
<1>5. CASE ControllerRuntime \/ Restart
  BY <1>1, <1>5, RuntimeSteps, QuietKeepsApplied
<1>6. ASSUME NEW request \in Requests, LateService(request) PROVE FALSE
  BY <1>6 DEF LateService, AppliedInv
<1> QED
  BY <1>3, <1>4, <1>5, <1>6, WorkerKeepsApplied DEF Next

\* For any number of CRs, specs, edits, deletions, conflicts, faults, restarts
\* and lost configurations: who reads Ready=True for the generation of the spec
\* they look at finds exactly this spec in the graph, unless the control plane
\* serves a request after the client gave up on it.
THEOREM ReadyIsApplied == ASSUME ~LateCalls PROVE Spec => []ReadyMeansApplied
<1>1. Init => AppliedInv
  BY InitApplied
<1>2. AppliedInv /\ [Next]_vars => AppliedInv'
  BY NextKeepsApplied
<1>3. AppliedInv => ReadyMeansApplied
  BY DEF AppliedInv
<1> QED
  BY <1>1, <1>2, <1>3, PTL DEF Spec

-----------------------------------------------------------------------------
(* The controller implements CREdges: what the refinement needs beside     *)
(* IInv and CopyInv.                                                       *)

\* An object whose deletion the operator holds is not followed by a guarded one
\* that is not being deleted, as long as the cache knows the old one or the
\* worker finalizes it.
Terminating(cr) == cr.exists /\ cr.deleting /\ cr.finalizer
Finalizes(p) == w.at = "closeCall" /\ w.key = p
OldTerminates(p) ==
    /\ \A n \in 1..Len(log[p]) : Terminating(log[p][n]) /\ Guarded(p) => Current(p).deleting
    /\ Finalizes(p) /\ Guarded(p) => Current(p).deleting

\* Open edges always stand for an intent.
EdgesHaveIntent == \A p \in Policies : graph[p].spec = NoSpec => graph[p] = Closed

PromiseInv ==
    /\ IInv
    /\ CopyInv
    /\ \A p \in Policies : OldTerminates(p)
    /\ EdgesHaveIntent

\* No new version, and the worker finalizes what it did or what is cached.
LEMMA NoVersionKeepsOld ==
    ASSUME log \in Histories, NEW p \in Policies, OldTerminates(p), log'[p] \in Suffixes(p),
           Finalizes(p)' => Finalizes(p) \/ \E n \in 1..Len(log[p]) : Terminating(log[p][n])
    PROVE  OldTerminates(p)'
<1>1. /\ log'[p][Len(log'[p])] = Current(p)
      /\ \A n \in 1..Len(log'[p]) : \E m \in 1..Len(log[p]) : log'[p][n] = log[p][m]
  BY SkipVersions
<1>2. Current(p)' = Current(p)
  BY <1>1 DEF Current
<1>3. Guarded(p)' <=> Guarded(p)
  BY <1>2 DEF Guarded
<1>4. \A n \in 1..Len(log'[p]) : Terminating(log'[p][n]) /\ Guarded(p)' => Current(p)'.deleting
  BY <1>1, <1>2, <1>3 DEF OldTerminates
<1>5. Finalizes(p)' /\ Guarded(p)' => Current(p)'.deleting
  BY <1>2, <1>3 DEF OldTerminates
<1> QED
  BY <1>4, <1>5 DEF OldTerminates, Terminating

\* A new version: guarded as the one before and as much under deletion, or
\* the first guarded one after versions that are not being deleted.
LEMMA VersionKeepsOld ==
    ASSUME log \in Histories, NEW p \in Policies, OldTerminates(p), NEW cr \in Objects,
           log' = [log EXCEPT ![p] = Append(@, cr)],
           cr.exists /\ cr.finalizer =>
              \/ /\ Guarded(p) /\ (Current(p).deleting => cr.deleting)
                 /\ Finalizes(p)' => Finalizes(p)
              \/ (\A n \in 1..Len(log[p]) : ~log[p][n].deleting) /\ ~Finalizes(p)'
    PROVE  OldTerminates(p)'
<1>1. /\ Current(p)' = cr
      /\ \A n \in 1..Len(log'[p]) :
            log'[p][n] = cr \/ \E m \in 1..Len(log[p]) : log'[p][n] = log[p][m]
  BY AppendVersion
<1>2. Guarded(p)' <=> cr.exists /\ cr.finalizer
  BY <1>1 DEF Guarded
<1>3. ASSUME NEW n \in 1..Len(log'[p]), Terminating(log'[p][n]), Guarded(p)' PROVE cr.deleting
  <2>1. CASE log'[p][n] = cr
    BY <1>3, <2>1 DEF Terminating
  <2>2. CASE \E m \in 1..Len(log[p]) : log'[p][n] = log[p][m]
    BY <1>2, <1>3, <2>2 DEF Terminating, OldTerminates
  <2> QED
    BY <1>1, <2>1, <2>2
<1>4. Finalizes(p)' /\ Guarded(p)' => cr.deleting
  BY <1>2 DEF OldTerminates
<1> QED
  BY <1>1, <1>3, <1>4 DEF OldTerminates, Terminating

\* A step that leaves a CR alone.
LEMMA OthersKeepOld ==
    ASSUME NEW q \in Policies, OldTerminates(q), log'[q] = log[q], Finalizes(q)' => Finalizes(q)
    PROVE  OldTerminates(q)'
<1>1. Current(q)' = Current(q)
  BY DEF Current
<1>2. Guarded(q)' <=> Guarded(q)
  BY <1>1 DEF Guarded
<1>3. \A n \in 1..Len(log'[q]) : Terminating(log'[q][n]) /\ Guarded(q)' => Current(q)'.deleting
  BY <1>1, <1>2 DEF OldTerminates
<1>4. Finalizes(q)' /\ Guarded(q)' => Current(q)'.deleting
  BY <1>1, <1>2 DEF OldTerminates
<1> QED
  BY <1>3, <1>4 DEF OldTerminates, Terminating

\* What a fresh copy and the current version have in common.
LEMMA FreshAgrees ==
    ASSUME CopyInv, w.at # "idle", w.fresh, NEW p \in Policies, p = w.key
    PROVE  /\ w.cr \in CRs /\ Current(p) \in Objects
           /\ Current(p).exists
           /\ Current(p).finalizer = w.cr.finalizer /\ Current(p).deleting = w.cr.deleting
           /\ Current(p).foreign = w.cr.foreign
           /\ \A n \in 1..Len(log[p]) : SameWork(w.cr, log[p][n])
<1>1. w.cr \in CRs /\ Current(p) \in Objects
  BY BusyTypes, VersionTypes DEF CopyInv, TypeOK, Histories
<1>2. /\ w.cr = [Current(p) EXCEPT !.status = w.cr.status]
      /\ \A n \in 1..Len(log[p]) : SameWork(w.cr, log[p][n])
  BY DEF CopyInv, CopyIsCurrent
<1>3. ASSUME NEW c \in CRs, NEW cur \in Objects, c = [cur EXCEPT !.status = c.status]
      PROVE  /\ cur.exists /\ cur.finalizer = c.finalizer
             /\ cur.deleting = c.deleting /\ cur.foreign = c.foreign
  BY <1>3 DEF CRs, Objects, Absent
<1> QED
  BY <1>1, <1>2, <1>3

LEMMA UserKeepsOld ==
    ASSUME PromiseInv, NEW p \in Policies, NEW cr \in Objects, Store(p, cr), UserWrites(Current(p), cr)
    PROVE  \A q \in Policies : OldTerminates(q)'
<1>1. log \in Histories /\ w \in Workers
  BY DEF PromiseInv, CopyInv, TypeOK, Histories
<1>2. w'.key = w.key /\ w'.at = w.at
  BY <1>1, StoreKeepsKey
<1>3. \A q \in Policies : Finalizes(q)' => Finalizes(q)
  BY <1>2 DEF Finalizes
<1>4. log' = [log EXCEPT ![p] = Append(@, cr)] /\ \A q \in Policies \ {p} : log'[q] = log[q]
  BY <1>1, AppendVersion DEF Store
<1>5. cr.exists /\ cr.finalizer => Guarded(p) /\ (Current(p).deleting => cr.deleting)
  <2>1. ~Absent.exists
    BY DEF Absent
  <2>2. ASSUME cr.exists, cr.finalizer
        PROVE  /\ Current(p).exists /\ cr.finalizer = Current(p).finalizer
               /\ (Current(p).deleting => cr.deleting) \/ cr.deleting = Current(p).deleting
    BY <2>1, <2>2 DEF UserWrites, SameWork
  <2> QED
    BY <2>2 DEF Guarded
<1>6. \A q \in Policies : OldTerminates(q)
  BY DEF PromiseInv
<1>7. OldTerminates(p)'
  BY <1>1, <1>3, <1>4, <1>5, <1>6, VersionKeepsOld
<1>8. \A q \in Policies \ {p} : OldTerminates(q)'
  BY <1>3, <1>4, <1>6, OthersKeepOld
<1> QED
  BY <1>7, <1>8

LEMMA WorkerKeepsOld ==
    ASSUME PromiseInv, Worker PROVE \A q \in Policies : OldTerminates(q)'
<1>1. /\ TypeOK /\ IInv /\ CopyInv /\ log \in Histories /\ w \in Workers
      /\ \A q \in Policies : OldTerminates(q)
  BY DEF PromiseInv, CopyInv, TypeOK, Histories
<1>2. ASSUME log' = log,
             \A q \in Policies : Finalizes(q)' =>
                Finalizes(q) \/ \E n \in 1..Len(log[q]) : Terminating(log[q][n])
      PROVE  \A q \in Policies : OldTerminates(q)'
  BY <1>1, <1>2, WholeIsSuffix, NoVersionKeepsOld
<1>3. ASSUME w'.at # "closeCall", log' = log PROVE \A q \in Policies : OldTerminates(q)'
  BY <1>2, <1>3 DEF Finalizes
<1>4. CASE Rests
  BY <1>2, <1>4 DEF Rests, Elsewhere, Finalizes, Idle
<1>5. ASSUME NEW p \in Policies, Takes(p) PROVE \A q \in Policies : OldTerminates(q)'
  <2>1. Len(log[p]) \in Nat \ {0}
    BY <1>1, EmptySeq DEF Histories
  <2>2. w'.at = "closeCall" => \E n \in 1..Len(log[p]) : Terminating(log[p][n])
    BY <1>5, <2>1 DEF Takes, Cached, Terminating
  <2> QED
    BY <1>2, <1>5, <2>2 DEF Takes, Elsewhere, Finalizes
<1>6. CASE PassesGate
  BY <1>3, <1>6 DEF PassesGate, Elsewhere, Refused, StatusSet, GoesOn
<1>7. CASE ReconcileCall
  BY <1>1, <1>3, <1>7, ReconcileCallSteps DEF Refused, Confirmed, StatusSet
<1>8. CASE CloseCall
  BY <1>1, <1>3, <1>8, CloseCallSteps DEF Refused, StatusSet, GoesOn
<1>9. ASSUME NEW cr \in Objects, Update(cr), w.at # "idle", w'.at # "closeCall",
             \A p \in Policies : p = w.key /\ cr.exists /\ cr.finalizer =>
                \/ Guarded(p) /\ (Current(p).deleting => cr.deleting)
                \/ \A n \in 1..Len(log[p]) : ~log[p][n].deleting
      PROVE  \A q \in Policies : OldTerminates(q)'
  <2>1. w.key \in Policies
    BY <1>1, <1>9, BusyTypes
  <2>2. log' = [log EXCEPT ![w.key] = Append(@, cr)] /\ \A q \in Policies \ {w.key} : log'[q] = log[q]
    BY <1>1, <1>9, <2>1, AppendVersion DEF Update
  <2>3. \A q \in Policies : ~Finalizes(q)'
    BY <1>9 DEF Finalizes
  <2>4. ASSUME NEW q \in Policies PROVE OldTerminates(q)'
    <3>1. CASE q = w.key
      BY <1>1, <1>9, <2>2, <2>3, <3>1, VersionKeepsOld
    <3>2. CASE q # w.key
      BY <1>1, <2>2, <2>3, <3>2, OthersKeepOld
    <3> QED
      BY <3>1, <3>2
  <2> QED
    BY <2>4
<1>10. ASSUME NEW c \in CRs
       PROVE  /\ c \in Objects
              /\ [c EXCEPT !.finalizer = TRUE] \in Objects
              /\ Settled([c EXCEPT !.finalizer = FALSE]) \in Objects
              /\ ~Settled([c EXCEPT !.finalizer = FALSE]).finalizer
  <2>1. [c EXCEPT !.finalizer = TRUE] \in CRs /\ [c EXCEPT !.finalizer = FALSE] \in CRs
    BY DEF CRs
  <2>2. ~[c EXCEPT !.finalizer = FALSE].finalizer /\ ~Absent.finalizer
    BY DEF CRs, Absent
  <2> QED
    BY <2>1, <2>2, SettledTypes DEF Objects, Settled
<1>11. w.at # "idle" => w.cr \in CRs /\ w.key \in Policies
  BY <1>1, BusyTypes
<1>12. CASE Attaches
  <2>1. /\ w.at = "addFinalizer" /\ w.fresh /\ Update([w.cr EXCEPT !.finalizer = TRUE])
        /\ w'.at # "closeCall"
    <3>1. w.at = "addFinalizer" /\ Update([w.cr EXCEPT !.finalizer = TRUE]) /\ w.fresh
      BY <1>12 DEF Attaches, Update
    <3>2. w' = Idle \/ w'.at = "reconcileCall"
      BY <1>12 DEF Attaches, GoesOn
    <3>3. Idle.at = "idle"
      BY DEF Idle
    <3> QED
      BY <3>1, <3>2, <3>3
  <2>2. ~w.cr.deleting
    BY <1>1, <2>1 DEF IInv, FreshCopy
  <2>3. \A p \in Policies : p = w.key => \A n \in 1..Len(log[p]) : ~log[p][n].deleting
    BY <1>1, <2>1, <2>2, FreshAgrees DEF SameWork
  <2> QED
    BY <1>9, <1>10, <1>11, <2>1, <2>3
<1>13. CASE Detaches
  <2>1. /\ w.at = "removeFinalizer" /\ Update(Settled([w.cr EXCEPT !.finalizer = FALSE]))
        /\ w'.at # "closeCall"
    BY <1>13 DEF Detaches, Idle
  <2> QED
    BY <1>9, <1>10, <1>11, <2>1
<1>14. CASE Reports
  <2>1. w.at = "writeStatus" /\ w.fresh /\ Update(w.cr) /\ w'.at # "closeCall"
    BY <1>14 DEF Reports, Update, Idle
  <2>2. \A p \in Policies : p = w.key /\ w.cr.finalizer =>
           Guarded(p) /\ (Current(p).deleting => w.cr.deleting)
    BY <1>1, <2>1, FreshAgrees DEF Guarded
  <2> QED
    BY <1>9, <1>10, <1>11, <2>1, <2>2
<1> QED
  BY <1>1, <1>4, <1>5, <1>6, <1>7, <1>8, <1>12, <1>13, <1>14, WorkerSteps

\* A step keeps the shape of the graph's records.
LEMMA EdgesKeepIntent ==
    ASSUME TypeOK, EdgesHaveIntent, [Next]_vars PROVE EdgesHaveIntent'
<1>1. CASE UNCHANGED graph
  BY <1>1 DEF EdgesHaveIntent
<1>2. ASSUME NEW p \in Policies, EdgeDrift(p) PROVE EdgesHaveIntent'
  <2>1. graph' = [graph EXCEPT ![p] = [graph[p] EXCEPT !.edges = 0]] /\ graph[p].edges # 0
    BY <1>2 DEF EdgeDrift
  <2>2. graph[p].spec # NoSpec
    BY <2>1 DEF EdgesHaveIntent, Closed
  <2>3. [graph[p] EXCEPT !.edges = 0].spec = graph[p].spec
    BY DEF TypeOK
  <2> QED
    BY <2>1, <2>2, <2>3 DEF EdgesHaveIntent, TypeOK
<1>3. ASSUME NEW request \in Requests, graph' = Served(request) PROVE EdgesHaveIntent'
  <2>1. request.key \in Policies
    BY DEF Requests
  <2>2. \A q \in Policies \ {request.key} : graph'[q] = graph[q]
    BY <1>3 DEF Served, TypeOK
  <2>3. graph'[request.key] = IF request.spec = NoSpec THEN Closed
                              ELSE [spec |-> request.spec, edges |-> workloads[request.key]]
    BY <1>3, <2>1 DEF Served, TypeOK
  <2> QED
    BY <2>2, <2>3 DEF EdgesHaveIntent
<1>4. ASSUME NEW request \in Requests, NEW wire, Exchange(request, wire) PROVE EdgesHaveIntent'
  BY <1>1, <1>3, <1>4 DEF Exchange, Disturb
<1>5. ASSUME NEW request \in Requests, LateService(request) PROVE EdgesHaveIntent'
  BY <1>1, <1>3, <1>5 DEF LateService
<1>6. CASE ReconcileCall \/ CloseCall
  <2>1. w.key \in Policies /\ w.cr \in CRs
    BY <1>6, BusyTypes DEF ReconcileCall, CloseCall, TypeOK
  <2>2. [key |-> w.key, spec |-> w.cr.spec] \in Requests /\ [key |-> w.key, spec |-> NoSpec] \in Requests
    BY <2>1 DEF Requests, CRs
  <2> QED
    BY <1>1, <1>4, <1>6, <2>2 DEF ReconcileCall, CloseCall
<1>7. CASE Worker
  BY <1>1, <1>6, <1>7, WorkerSteps
     DEF Rests, Takes, PassesGate, Elsewhere, Attaches, Detaches, Reports
<1>8. CASE User
  BY <1>1, <1>2, <1>8, UserSteps
<1>9. CASE ControllerRuntime \/ Restart
  BY <1>1, <1>9, RuntimeSteps
<1>10. CASE UNCHANGED vars
  BY <1>1, <1>10 DEF vars
<1> QED
  BY <1>5, <1>7, <1>8, <1>9, <1>10 DEF Next

LEMMA PromiseInvAlways == ASSUME ~ConfigLoss, ~LateCalls PROVE Spec => []PromiseInv
<1>1. Init => PromiseInv
  <2> SUFFICES ASSUME Init PROVE PromiseInv
    OBVIOUS
  <2>1. ASSUME NEW p \in Policies PROVE OldTerminates(p)
    <3>1. \A n \in 1..Len(log[p]) : log[p][n] = Absent
      BY DEF Init
    <3>2. ~Absent.exists /\ w.at = "idle"
      BY DEF Init, Idle, Absent
    <3> QED
      BY <3>1, <3>2 DEF OldTerminates, Terminating, Finalizes
  <2>2. EdgesHaveIntent
    BY DEF Init, EdgesHaveIntent
  <2> QED
    BY <2>1, <2>2, InitSafe, InitCopy DEF PromiseInv
<1>2. PromiseInv /\ IInv' /\ [Next]_vars => PromiseInv'
  <2> SUFFICES ASSUME PromiseInv, IInv', [Next]_vars PROVE PromiseInv'
    OBVIOUS
  <2>1. TypeOK /\ log \in Histories /\ CopyInv' /\ EdgesHaveIntent'
    BY NextKeepsCopy, EdgesKeepIntent DEF PromiseInv, CopyInv, TypeOK, Histories
  <2>2. ASSUME \A p \in Policies : log'[p] \in Suffixes(p), w' \in {w, Idle}
        PROVE  \A p \in Policies : OldTerminates(p)'
    <3>1. \A p \in Policies : Finalizes(p)' => Finalizes(p)
      BY <2>2 DEF Finalizes, Idle
    <3> QED
      BY <2>1, <2>2, <3>1, NoVersionKeepsOld DEF PromiseInv
  <2>3. ASSUME UNCHANGED <<log, w>> PROVE \A p \in Policies : OldTerminates(p)'
    BY <2>1, <2>2, <2>3, WholeIsSuffix
  <2>4. \A p \in Policies : OldTerminates(p)'
    <3>1. CASE User
      BY <2>1, <2>3, <3>1, UserSteps, UserKeepsOld
    <3>2. CASE ControllerRuntime \/ Restart
      BY <2>1, <2>2, <3>2, RuntimeSteps
    <3>3. CASE Worker
      BY <3>3, WorkerKeepsOld
    <3>4. CASE \E request \in Requests : LateService(request)
      BY <2>3, <3>4 DEF LateService, cluster, manager
    <3>5. CASE UNCHANGED vars
      BY <2>3, <3>5 DEF vars
    <3> QED
      BY <3>1, <3>2, <3>3, <3>4, <3>5 DEF Next
  <2> QED
    BY <2>1, <2>4 DEF PromiseInv
<1> QED
  BY <1>1, <1>2, Inductive, PTL DEF Spec

-----------------------------------------------------------------------------
(* The refinement mapping, step by step. *)

LifeOf(cur) ==
    CASE ~cur.exists -> "absent"
      [] cur.exists /\ ~cur.finalizer -> "unguarded"
      [] cur.exists /\ cur.finalizer /\ ~cur.deleting -> "guarded"
      [] OTHER -> "terminating"

OpenSet == {p \in Policies : IsOpen(p)}

LEMMA LifeIs == life = [p \in Policies |-> LifeOf(Current(p))]
BY DEF life, LifeOf, Guarded

\* What a new version of p may do to its life.
Legal(p, from, to) ==
    \/ from = to
    \/ from = "absent" /\ to = "unguarded"
    \/ from = "unguarded" /\ to \in {"absent", "guarded"}
    \/ from = "guarded" /\ to = "terminating"
    \/ from = "terminating" /\ to \in {"absent", "unguarded"} /\ ~IsOpen(p)

LEMMA VersionIsMove ==
    ASSUME log \in Histories, NEW p \in Policies, NEW cr \in Objects,
           log' = [log EXCEPT ![p] = Append(@, cr)], graph' = graph,
           Legal(p, LifeOf(Current(p)), LifeOf(cr))
    PROVE  [Promise!Next]_(Promise!vars)
<1> DEFINE from == LifeOf(Current(p))
           to   == LifeOf(cr)
<1>1. /\ Current(p)' = cr
      /\ \A q \in Policies \ {p} : log'[q] = log[q]
  BY AppendVersion
<1>2. \A q \in Policies \ {p} : Current(q)' = Current(q)
  BY <1>1 DEF Current
<1>3. life' = [q \in Policies |-> LifeOf(Current(q)')]
  BY DEF life, LifeOf, Guarded
<1>4. life[p] = from /\ life' = [life EXCEPT ![p] = to]
  BY <1>1, <1>2, <1>3, LifeIs
<1>5. OpenSet' = OpenSet
  BY DEF OpenSet, IsOpen
<1>6. Promise!Move(p, from, to)
  BY <1>4, <1>5 DEF Promise!Move, OpenSet
<1>7. ~IsOpen(p) => p \notin OpenSet
  BY DEF OpenSet
<1>8. CASE from = to
  <2>1. life' = life
    BY <1>4, <1>8, LifeIs
  <2> QED
    BY <1>5, <2>1 DEF Promise!vars, OpenSet
<1> HIDE DEF from, to
<1>9. CASE from # to
  <2>1. Promise!Create(p) \/ Promise!Vanish(p) \/ Promise!Guard(p) \/ Promise!Delete(p) \/ Promise!Release(p)
    BY <1>6, <1>7, <1>9
       DEF Legal, Promise!Create, Promise!Vanish, Promise!Guard, Promise!Delete, Promise!Release,
           OpenSet, from, to
  <2> QED
    BY <2>1 DEF Promise!Next
<1> QED
  BY <1>8, <1>9

\* Steps that make no version: they are about the graph alone.
LEMMA NoVersionIsMove ==
    ASSUME log \in Histories, \A p \in Policies : log'[p] \in Suffixes(p),
           \/ OpenSet' = OpenSet
           \/ \E p \in Policies : Guarded(p) /\ OpenSet' = OpenSet \cup {p}
           \/ \E p \in Policies : Guarded(p) /\ Current(p).deleting /\ OpenSet' = OpenSet \ {p}
    PROVE  [Promise!Next]_(Promise!vars)
<1>1. \A p \in Policies : Current(p)' = Current(p)
  <2>1. \A p \in Policies : log'[p][Len(log'[p])] = Current(p)
    BY SkipVersions
  <2> QED
    BY <2>1 DEF Current
<1>2. life' = [q \in Policies |-> LifeOf(Current(q)')]
  BY DEF life, LifeOf, Guarded
<1>3. life' = life
  BY <1>1, <1>2, LifeIs
<1>4. CASE OpenSet' = OpenSet
  BY <1>3, <1>4 DEF Promise!vars, OpenSet
<1>5. ASSUME NEW p \in Policies, Guarded(p), OpenSet' = OpenSet \cup {p} PROVE Promise!Write(p)
  <2>1. LifeOf(Current(p)) \in {"guarded", "terminating"}
    BY <1>5 DEF LifeOf, Guarded
  <2>2. life[p] \in {"guarded", "terminating"}
    BY <2>1, LifeIs
  <2> QED
    BY <1>3, <1>5, <2>2 DEF Promise!Write, OpenSet
<1>6. ASSUME NEW p \in Policies, Guarded(p), Current(p).deleting, OpenSet' = OpenSet \ {p}
      PROVE  Promise!Close(p)
  <2>1. LifeOf(Current(p)) = "terminating"
    BY <1>6 DEF LifeOf, Guarded
  <2>2. life[p] = "terminating"
    BY <2>1, LifeIs
  <2> QED
    BY <1>3, <1>6, <2>2 DEF Promise!Close, OpenSet
<1> QED
  BY <1>4, <1>5, <1>6 DEF Promise!Next

LEMMA UserIsLegal ==
    ASSUME NEW p, NEW old \in Objects, NEW new \in Objects, UserWrites(old, new)
    PROVE  Legal(p, LifeOf(old), LifeOf(new))
<1>1. ~Absent.exists
  BY DEF Absent
<1>2. CASE ~old.exists /\ new.exists /\ ~new.deleting /\ ~new.finalizer
  BY <1>2 DEF LifeOf, Legal
<1>3. CASE /\ old.exists /\ new.exists /\ new.finalizer = old.finalizer
           /\ (old.deleting => new.deleting) \/ new.deleting = old.deleting
  BY <1>3 DEF LifeOf, Legal
<1>4. CASE old.exists /\ ~old.finalizer /\ new = Absent
  BY <1>1, <1>4 DEF LifeOf, Legal
<1> QED
  BY <1>2, <1>3, <1>4 DEF UserWrites, SameWork

LEMMA WorkerPromises ==
    ASSUME ~LateCalls, PromiseInv, Worker
    PROVE  [Promise!Next]_(Promise!vars)
<1>1. /\ TypeOK /\ IInv /\ CopyInv /\ log \in Histories /\ w \in Workers /\ late = {}
      /\ w.at # "idle" => w.key \in Policies /\ w.cr \in CRs
  BY BusyTypes DEF PromiseInv, IInv, CopyInv, TypeOK, Histories
<1>2. ASSUME log' = log, graph' = graph PROVE [Promise!Next]_(Promise!vars)
  <2>1. \A p \in Policies : log'[p] \in Suffixes(p)
    BY <1>1, <1>2, WholeIsSuffix
  <2>2. OpenSet' = OpenSet
    BY <1>2 DEF OpenSet, IsOpen
  <2> QED
    BY <1>1, <2>1, <2>2, NoVersionIsMove
<1>3. ASSUME NEW p \in Policies, NEW s \in Specs \cup {NoSpec}, NEW wire,
             Exchange([key |-> p, spec |-> s], wire)
      PROVE  \/ graph' = graph
             \/ s # NoSpec /\ OpenSet' = OpenSet \cup {p}
             \/ s = NoSpec /\ OpenSet' = OpenSet \ {p}
  <2> DEFINE request == [key |-> p, spec |-> s]
  <2>1. /\ graph' = graph \/ graph' = Served(request)
        /\ \A q \in Policies \ {p} : Served(request)[q] = graph[q]
    BY <1>1, <1>3, ExchangeWrites
  <2>2. Served(request)[p] = IF s = NoSpec THEN Closed ELSE [spec |-> s, edges |-> workloads[p]]
    BY <1>1 DEF Served, TypeOK
  <2>3. Served(request)[p] # Closed <=> s # NoSpec
    BY <2>2 DEF Closed
  <2> HIDE DEF request
  <2>4. CASE graph' = Served(request)
    <3>1. \A q \in Policies : IsOpen(q)' <=> IF q = p THEN s # NoSpec ELSE IsOpen(q)
      BY <2>1, <2>3, <2>4 DEF IsOpen, Closed
    <3> QED
      BY <3>1 DEF OpenSet
  <2> QED
    BY <2>1, <2>4
\* Intent is written for a guarded CR.
<1>4. CASE ReconcileCall
  <2>1. w.at = "reconcileCall" /\ log' = log /\ w.key \in Policies
    BY <1>1, <1>4, ReconcileCallSteps
  <2>2. Guarded(w.key) /\ w.cr.spec \in Specs /\ w.cr.spec # NoSpec
    BY <1>1, <2>1, NamesAssumption DEF IInv, CopyGuarded, CRs
  <2>3. \/ graph' = graph
        \/ \E wire : Exchange([key |-> w.key, spec |-> w.cr.spec], wire)
    BY <1>4 DEF ReconcileCall
  <2>4. graph' = graph \/ OpenSet' = OpenSet \cup {w.key}
    BY <1>3, <2>1, <2>2, <2>3
  <2>5. \A p \in Policies : log'[p] \in Suffixes(p)
    BY <1>1, <2>1, WholeIsSuffix
  <2> QED
    BY <1>1, <1>2, <2>1, <2>2, <2>4, <2>5, NoVersionIsMove
\* Edges are closed only of a CR that is being deleted, even from a stale copy.
<1>5. CASE CloseCall
  <2>1. w.at = "closeCall" /\ log' = log /\ w.key \in Policies
    BY <1>1, <1>5, CloseCallSteps
  <2>2. \/ graph' = graph
        \/ \E wire : Exchange([key |-> w.key, spec |-> NoSpec], wire)
    BY <1>5 DEF CloseCall
  <2>3. graph' = graph \/ OpenSet' = OpenSet \ {w.key}
    BY <1>3, <2>1, <2>2
  <2>4. IsOpen(w.key) => Guarded(w.key) /\ Current(w.key).deleting
    BY <1>1, <2>1 DEF IInv, NoOrphanedEdges, PromiseInv, OldTerminates, Finalizes
  <2>5. ~IsOpen(w.key) => OpenSet \ {w.key} = OpenSet
    BY DEF OpenSet
  <2>6. \A p \in Policies : log'[p] \in Suffixes(p)
    BY <1>1, <2>1, WholeIsSuffix
  <2> QED
    BY <1>1, <1>2, <2>1, <2>3, <2>4, <2>5, <2>6, NoVersionIsMove
<1>6. ASSUME NEW c \in CRs, NEW cur \in Objects,
             cur.exists, cur.finalizer = c.finalizer, cur.deleting = c.deleting, NEW p
      PROVE  /\ c \in Objects /\ Legal(p, LifeOf(cur), LifeOf(c))
             /\ [c EXCEPT !.finalizer = TRUE] \in Objects
             /\ ~c.deleting => Legal(p, LifeOf(cur), LifeOf([c EXCEPT !.finalizer = TRUE]))
             /\ Settled([c EXCEPT !.finalizer = FALSE]) \in Objects
             /\ c.deleting /\ ~IsOpen(p)
                  => Legal(p, LifeOf(cur), LifeOf(Settled([c EXCEPT !.finalizer = FALSE])))
  <2>1. [c EXCEPT !.finalizer = TRUE] \in CRs /\ [c EXCEPT !.finalizer = FALSE] \in CRs /\ c.exists
    BY DEF CRs
  <2>2. LifeOf(c) = LifeOf(cur)
    BY <1>6, <2>1 DEF LifeOf
  <2>3. /\ [c EXCEPT !.finalizer = TRUE].exists /\ [c EXCEPT !.finalizer = TRUE].finalizer
        /\ [c EXCEPT !.finalizer = TRUE].deleting = c.deleting
        /\ [c EXCEPT !.finalizer = FALSE].exists /\ ~[c EXCEPT !.finalizer = FALSE].finalizer
    BY DEF CRs
  <2>4. ~c.deleting => LifeOf([c EXCEPT !.finalizer = TRUE]) = "guarded"
    BY <2>3 DEF LifeOf
  <2>5. ~c.deleting => LifeOf(cur) \in {"unguarded", "guarded"}
    BY <1>6 DEF LifeOf
  <2>6. ~Absent.exists
    BY DEF Absent
  <2>7. LifeOf(Settled([c EXCEPT !.finalizer = FALSE])) \in {"absent", "unguarded"}
    BY <2>3, <2>6 DEF LifeOf, Settled
  <2>8. c.deleting => LifeOf(cur) \in {"unguarded", "terminating"}
    BY <1>6 DEF LifeOf
  <2> QED
    BY <2>1, <2>2, <2>4, <2>5, <2>7, <2>8, SettledTypes DEF Legal, Objects
<1>7. ASSUME w.at # "idle", w.fresh, NEW p \in Policies, p = w.key
      PROVE  /\ Current(p) \in Objects /\ Current(p).exists
             /\ Current(p).finalizer = w.cr.finalizer /\ Current(p).deleting = w.cr.deleting
  BY <1>1, <1>7, FreshAgrees
<1>8. CASE Attaches
  <2>1. /\ w.at = "addFinalizer" /\ w.fresh /\ graph' = graph
        /\ log' = [log EXCEPT ![w.key] = Append(@, [w.cr EXCEPT !.finalizer = TRUE])]
    BY <1>8 DEF Attaches, Update
  <2>2. ~w.cr.deleting
    BY <1>1, <2>1 DEF IInv, FreshCopy
  <2>3. PICK p \in Policies : p = w.key
    BY <1>1, <2>1
  <2>4. /\ [w.cr EXCEPT !.finalizer = TRUE] \in Objects
        /\ Legal(p, LifeOf(Current(p)), LifeOf([w.cr EXCEPT !.finalizer = TRUE]))
    BY <1>1, <1>6, <1>7, <2>1, <2>2, <2>3
  <2> QED
    BY <1>1, <2>1, <2>3, <2>4, VersionIsMove
\* The finalizer leaves once nothing of the CR is open.
<1>9. CASE Detaches
  <2>1. /\ w.at = "removeFinalizer" /\ w.fresh /\ graph' = graph
        /\ log' = [log EXCEPT ![w.key] = Append(@, Settled([w.cr EXCEPT !.finalizer = FALSE]))]
    BY <1>9 DEF Detaches, Update
  <2>2. w.cr.deleting /\ ~IsOpen(w.key)
    BY <1>1, <2>1 DEF IInv, FreshCopy, ClosedBeforeRelease
  <2>3. PICK p \in Policies : p = w.key
    BY <1>1, <2>1
  <2>4. /\ Settled([w.cr EXCEPT !.finalizer = FALSE]) \in Objects
        /\ Legal(p, LifeOf(Current(p)), LifeOf(Settled([w.cr EXCEPT !.finalizer = FALSE])))
    BY <1>1, <1>6, <1>7, <2>1, <2>2, <2>3
  <2> QED
    BY <1>1, <2>1, <2>3, <2>4, VersionIsMove
<1>10. CASE Reports
  <2>1. /\ w.at = "writeStatus" /\ w.fresh /\ graph' = graph
        /\ log' = [log EXCEPT ![w.key] = Append(@, w.cr)]
    BY <1>10 DEF Reports, Update
  <2>2. PICK p \in Policies : p = w.key
    BY <1>1, <2>1
  <2>3. w.cr \in Objects /\ Legal(p, LifeOf(Current(p)), LifeOf(w.cr))
    BY <1>1, <1>6, <1>7, <2>1, <2>2
  <2> QED
    BY <1>1, <2>1, <2>2, <2>3, VersionIsMove
<1>11. Rests \/ (\E p \in Policies : Takes(p)) \/ PassesGate => log' = log /\ graph' = graph
  BY DEF Rests, Takes, PassesGate, Elsewhere
<1> QED
  BY <1>1, <1>2, <1>4, <1>5, <1>8, <1>9, <1>10, <1>11, WorkerSteps

\* For any number of CRs and any interleaving of users, cache, worker, faults
\* and restarts, the controller's whole behaviour, seen as the lives of the CRs
\* and the set of those with intent in the graph, is one of CREdges: guarded
\* before anything is written, closed before the guard leaves.
THEOREM PromiseIsKept == ASSUME ~ConfigLoss, ~LateCalls PROVE Spec => KeepsPromise
<1>1. Init => Promise!Init
  <2> SUFFICES ASSUME Init PROVE Promise!Init
    OBVIOUS
  <2>1. \A p \in Policies : ~Current(p).exists /\ ~IsOpen(p)
    BY DEF Init, Current, Absent, IsOpen
  <2>2. life = [p \in Policies |-> "absent"]
    BY <2>1, LifeIs DEF LifeOf
  <2> QED
    BY <2>1, <2>2 DEF Promise!Init
<1>2. PromiseInv /\ [Next]_vars => [Promise!Next]_(Promise!vars)
  <2> SUFFICES ASSUME PromiseInv, [Next]_vars PROVE [Promise!Next]_(Promise!vars)
    OBVIOUS
  <2>1. TypeOK /\ log \in Histories /\ late = {}
    BY DEF PromiseInv, IInv, TypeOK, Histories
  <2>2. ASSUME \A p \in Policies : log'[p] \in Suffixes(p), \A q \in Policies : IsOpen(q)' <=> IsOpen(q)
        PROVE  [Promise!Next]_(Promise!vars)
    <3>1. OpenSet' = OpenSet
      BY <2>2 DEF OpenSet
    <3> QED
      BY <2>1, <2>2, <3>1, NoVersionIsMove
  <2>3. ASSUME NEW p \in Policies, NEW cr \in Objects, Store(p, cr), UserWrites(Current(p), cr),
               graph' = graph
        PROVE  [Promise!Next]_(Promise!vars)
    <3>1. Legal(p, LifeOf(Current(p)), LifeOf(cr))
      BY <2>1, <2>3, VersionTypes, UserIsLegal
    <3> QED
      BY <2>1, <2>3, <3>1, VersionIsMove DEF Store
  <2>4. ASSUME NEW p \in Policies, EdgeDrift(p) PROVE \A q \in Policies : IsOpen(q)' <=> IsOpen(q)
    <3>1. graph' = [graph EXCEPT ![p] = [graph[p] EXCEPT !.edges = 0]] /\ graph[p].edges # 0
      BY <2>4 DEF EdgeDrift
    <3>2. graph[p].spec # NoSpec
      BY <3>1 DEF PromiseInv, EdgesHaveIntent, Closed
    <3>3. [graph[p] EXCEPT !.edges = 0].spec = graph[p].spec
      BY <2>1 DEF TypeOK
    <3>4. graph[p] # Closed /\ [graph[p] EXCEPT !.edges = 0] # Closed
      BY <3>2, <3>3 DEF Closed
    <3> QED
      BY <2>1, <3>1, <3>4 DEF IsOpen, TypeOK
  <2>5. \A p \in Policies : log[p] \in Suffixes(p)
    BY <2>1, WholeIsSuffix
  <2>6. CASE User
    <3>1. CASE log' = log /\ graph' = graph
      BY <2>2, <2>5, <3>1 DEF IsOpen
    <3>2. CASE log' = log /\ \E p \in Policies : EdgeDrift(p)
      BY <2>2, <2>4, <2>5, <3>2
    <3> QED
      BY <2>1, <2>3, <2>6, <3>1, <3>2, UserSteps
  <2>7. CASE ControllerRuntime \/ Restart
    BY <2>1, <2>2, <2>7, RuntimeSteps DEF IsOpen
  <2>8. CASE UNCHANGED vars
    BY <2>2, <2>5, <2>8 DEF vars, IsOpen
  <2>9. ASSUME NEW request \in Requests, LateService(request) PROVE FALSE
    BY <2>1, <2>9 DEF LateService
  <2> QED
    BY <2>6, <2>7, <2>8, <2>9, WorkerPromises DEF Next
<1> QED
  BY <1>1, <1>2, PromiseInvAlways, PTL DEF Spec, KeepsPromise, Promise!Spec
=============================================================================
