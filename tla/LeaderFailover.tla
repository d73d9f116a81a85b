----------------------------- MODULE LeaderFailover -----------------------------
(***************************************************************************)
(* Several managers of the operator around one SegmentationPolicy: one     *)
(* holds the leader lease, the others keep their informer caches warm and  *)
(* wait (main.go:63-71 and 147-154).  Each cache lags behind the API       *)
(* server at its own pace, so a new leader may know less than its          *)
(* predecessor did.                                                        *)
(*                                                                         *)
(* Here a resourceVersion is the position in the history of the object, a  *)
(* cache is a position, and an update is accepted when the copy it changes *)
(* is the last version.  The gate is open and the control plane unpaused;  *)
(* the answers to a call are reduced to confirmed or not (PolicyController *)
(* has the rest).                                                          *)
(***************************************************************************)
EXTENDS Naturals, Sequences, FiniteSets

CONSTANTS
    Managers,         \* the pods of the Deployment, old and new
    NoManager,        \* nobody holds the lease
    Specs,            \* the specs users write
    NoSpec,           \* no intent recorded in the graph
    LeaderElect,      \* the flag: does a manager wait for the lease?
    MaxDisturbances   \* how many disturbances a behaviour has

ASSUME NamesAssumption == NoManager \notin Managers /\ NoSpec \notin Specs
ASSUME FlagsAssumption == LeaderElect \in BOOLEAN
ASSUME MaxDisturbancesAssumption == MaxDisturbances \in Nat

VARIABLES
    history,   \* the versions of the object, the last one being stored
    graph,     \* the spec the Knowledge Graph holds edges for, or NoSpec
    lease,     \* who holds the leader lease
    state,     \* per manager: "down", "standby" or "leading"
    cache,     \* per manager: the position in history its informer has reached
    seen,      \* the last position a leader's cache has reached
    due,       \* managers with the object in their queue or on a timer
    w,         \* per manager: its worker
    orderly,   \* (history) has every leader been alone and caught up with its predecessors?
    budget     \* disturbances left

vars == <<history, graph, lease, state, cache, seen, due, w, orderly, budget>>

-----------------------------------------------------------------------------

Versions ==
    [exists : {TRUE}, spec : Specs, generation : Nat, deleting : BOOLEAN,
     finalizer : BOOLEAN, ready : BOOLEAN, observedGeneration : Nat]

Absent == [exists |-> FALSE, spec |-> NoSpec, generation |-> 0, deleting |-> FALSE,
           finalizer |-> FALSE, ready |-> FALSE, observedGeneration |-> 0]

Current == history[Len(history)]
Guarded == Current.exists /\ Current.finalizer

Idle == [at |-> "idle", cr |-> Absent, version |-> 0]

Workers ==
    {Idle} \cup [at : {"addFinalizer", "reconcileCall", "writeStatus", "closeCall", "removeFinalizer"},
                 cr : Versions, version : Nat]

TypeOK ==
    /\ history \in Seq(Versions \cup {Absent}) \ {<< >>}
    /\ graph \in Specs \cup {NoSpec}
    /\ lease \in Managers \cup {NoManager}
    /\ state \in [Managers -> {"down", "standby", "leading"}]
    /\ cache \in [Managers -> 1..Len(history)]
    /\ seen \in 1..Len(history)
    /\ due \subseteq Managers
    /\ w \in [Managers -> Workers]
    /\ orderly \in BOOLEAN
    /\ budget \in Nat

Init ==
    /\ history = <<Absent>>
    /\ graph = NoSpec
    /\ lease = NoManager
    /\ state = [m \in Managers |-> "down"]
    /\ cache = [m \in Managers |-> 1]
    /\ seen = 1
    /\ due = {}
    /\ w = [m \in Managers |-> Idle]
    /\ orderly = TRUE
    /\ budget = MaxDisturbances

-----------------------------------------------------------------------------
(* Users. *)

Disturb == budget > 0 /\ budget' = budget - 1

Store(cr) == history' = Append(history, cr)

\* The API server drops an object that is being deleted and has no finalizer.
Settled(cr) == IF cr.deleting /\ ~cr.finalizer THEN Absent ELSE cr

Create ==
    /\ Disturb /\ ~Current.exists
    /\ \E s \in Specs : Store([Absent EXCEPT !.exists = TRUE, !.spec = s, !.generation = 1])
    /\ UNCHANGED <<graph, lease, state, cache, seen, due, w, orderly>>

Edit ==
    /\ Disturb /\ Current.exists
    /\ \E s \in Specs \ {Current.spec} :
          Store([Current EXCEPT !.spec = s, !.generation = @ + 1])
    /\ UNCHANGED <<graph, lease, state, cache, seen, due, w, orderly>>

Delete ==
    /\ Disturb /\ Current.exists /\ ~Current.deleting
    /\ Store(Settled([Current EXCEPT !.deleting = TRUE, !.generation = @ + 1]))
    /\ UNCHANGED <<graph, lease, state, cache, seen, due, w, orderly>>

-----------------------------------------------------------------------------
(* Managers and the lease. *)

\* A pod starts; its first list may be served from an old state of the API
\* server's own cache.
Start(m) ==
    /\ state[m] = "down"
    /\ state' = [state EXCEPT ![m] = "standby"]
    /\ \E n \in 1..Len(history) : cache' = [cache EXCEPT ![m] = n]
    /\ UNCHANGED <<history, graph, lease, seen, due, w, budget, orderly>>

\* Mutant of MayLead: nobody waits for the lease.
MayLead_Always(m) == TRUE

\* Without leader election every manager runs its controllers at once.
MayLead(m) == LeaderElect => lease = NoManager

\* The controllers start and queue what the cache holds, which may be less than
\* an earlier leader has seen.
Lead(m) ==
    /\ state[m] = "standby"
    /\ MayLead(m)
    /\ lease' = IF LeaderElect THEN m ELSE lease
    /\ state' = [state EXCEPT ![m] = "leading"]
    /\ seen' = IF cache[m] > seen THEN cache[m] ELSE seen
    /\ due' = IF history[cache[m]].exists THEN due \cup {m} ELSE due
    /\ orderly' = (orderly /\ cache[m] >= seen)
    /\ UNCHANGED <<history, graph, cache, w, budget>>

\* The process is gone, with its queue, timers and the reconcile under way.  A
\* request it has sent was served before or never is: requests that are served
\* after their sender gave up are left to PolicyController's LateCalls.
Stopped(m) ==
    /\ state' = [state EXCEPT ![m] = "down"]
    /\ due' = due \ {m}
    /\ w' = [w EXCEPT ![m] = Idle]

\* A pod crashes, is evicted or is replaced; its lease, if it has it, runs out.
Crash(m) ==
    /\ Disturb
    /\ state[m] # "down"
    /\ Stopped(m)
    /\ lease' = IF lease = m THEN NoManager ELSE lease
    /\ UNCHANGED <<history, graph, cache, seen, orderly>>

\* A lease is not renewed in time while its holder goes on ...
Expire(m) ==
    /\ Disturb
    /\ lease = m
    /\ lease' = NoManager
    /\ orderly' = FALSE
    /\ UNCHANGED <<history, graph, state, cache, seen, due, w>>

\* ... until mgr.Start returns the error that ends the process.
GiveUp(m) ==
    /\ LeaderElect /\ state[m] = "leading" /\ lease # m
    /\ Stopped(m)
    /\ UNCHANGED <<history, graph, lease, cache, seen, budget, orderly>>

\* An informer moves on; only a leader's event handlers queue the object.
Observe(m) ==
    /\ state[m] # "down" /\ cache[m] < Len(history)
    /\ cache' = [cache EXCEPT ![m] = @ + 1]
    /\ seen' = IF state[m] = "leading" /\ cache[m] + 1 > seen THEN cache[m] + 1 ELSE seen
    /\ due' = IF state[m] = "leading" THEN due \cup {m} ELSE due
    /\ UNCHANGED <<history, graph, lease, state, w, budget, orderly>>

-----------------------------------------------------------------------------
(* The reconcile of a leader. *)

To(m, step, cr) == w' = [w EXCEPT ![m].at = step, ![m].cr = cr]

\* Mutant of ComeBack: the copy of one pass is still there in the next.
ComeBack_KeepsCopy(m) == w' = [w EXCEPT ![m].at = "idle"] /\ due' = due \cup {m}

\* A pass ends with an error or a RequeueAfter.
ComeBack(m) == w' = [w EXCEPT ![m] = Idle] /\ due' = due \cup {m}

\* Update: stored when the copy is the last version, refused otherwise.
Update(m, cr, then) ==
    \/ /\ w[m].version = Len(history)
       /\ Store(cr)
       /\ w' = [w EXCEPT ![m] = [at |-> then, cr |-> cr, version |-> Len(history) + 1]]
       /\ UNCHANGED due
    \/ /\ w[m].version # Len(history)
       /\ ComeBack(m) /\ UNCHANGED history

Get(m) ==
    /\ m \in due /\ w[m].at = "idle"
    /\ due' = due \ {m}
    /\ LET cr == history[cache[m]]
           step == CASE cr.deleting /\ cr.finalizer -> "closeCall"
                     [] ~cr.deleting /\ cr.finalizer -> "reconcileCall"
                     [] OTHER -> "addFinalizer"
       IN IF cr.exists /\ (cr.deleting => cr.finalizer)
          THEN w' = [w EXCEPT ![m] = [at |-> step, cr |-> cr, version |-> cache[m]]]
          ELSE UNCHANGED w
    /\ UNCHANGED <<history, graph, lease, state, cache, seen, budget, orderly>>

AddFinalizer(m) ==
    /\ w[m].at = "addFinalizer"
    /\ Update(m, [w[m].cr EXCEPT !.finalizer = TRUE], "reconcileCall")
    /\ UNCHANGED <<graph, lease, state, cache, seen, budget, orderly>>

Ready(cr)    == [cr EXCEPT !.ready = TRUE, !.observedGeneration = cr.generation]
NotReady(cr) == [cr EXCEPT !.ready = FALSE]

\* Mutant of ReconcileCall: an error is taken for a confirmation.
ReconcileCall_IgnoresError(m) ==
    /\ w[m].at = "reconcileCall"
    /\ \/ graph' = w[m].cr.spec /\ UNCHANGED budget
       \/ Disturb /\ graph' \in {graph, w[m].cr.spec}
    /\ To(m, "writeStatus", Ready(w[m].cr))
    /\ UNCHANGED <<history, lease, state, cache, seen, due, orderly>>

\* A call is confirmed, or nothing is known of it: it was done or not.
ReconcileCall(m) ==
    /\ w[m].at = "reconcileCall"
    /\ \/ graph' = w[m].cr.spec /\ To(m, "writeStatus", Ready(w[m].cr)) /\ UNCHANGED budget
       \/ Disturb /\ graph' \in {graph, w[m].cr.spec} /\ To(m, "writeStatus", NotReady(w[m].cr))
    /\ UNCHANGED <<history, lease, state, cache, seen, due, orderly>>

CloseCall(m) ==
    /\ w[m].at = "closeCall"
    /\ \/ graph' = NoSpec /\ To(m, "removeFinalizer", w[m].cr) /\ UNCHANGED budget
       \/ Disturb /\ graph' \in {graph, NoSpec} /\ To(m, "writeStatus", NotReady(w[m].cr))
    /\ UNCHANGED <<history, lease, state, cache, seen, due, orderly>>

\* Mutant of WriteStatus: a reconcile that is done asks for no resync.
WriteStatus_NoResync(m) ==
    /\ w[m].at = "writeStatus"
    /\ \/ w[m].version = Len(history) /\ w[m].cr # Current /\ Store(w[m].cr)
       \/ (w[m].version # Len(history) \/ w[m].cr = Current) /\ UNCHANGED history
    /\ w' = [w EXCEPT ![m] = Idle] /\ UNCHANGED due
    /\ UNCHANGED <<graph, lease, state, cache, seen, budget, orderly>>

\* Writing what is stored already makes no version; the reconcile comes back.
WriteStatus(m) ==
    /\ w[m].at = "writeStatus"
    /\ \/ w[m].version = Len(history) /\ w[m].cr # Current /\ Store(w[m].cr)
       \/ (w[m].version # Len(history) \/ w[m].cr = Current) /\ UNCHANGED history
    /\ ComeBack(m)
    /\ UNCHANGED <<graph, lease, state, cache, seen, budget, orderly>>

RemoveFinalizer(m) ==
    /\ w[m].at = "removeFinalizer"
    /\ \/ /\ w[m].version = Len(history)
          /\ Store(Settled([w[m].cr EXCEPT !.finalizer = FALSE]))
          /\ w' = [w EXCEPT ![m] = Idle] /\ UNCHANGED due
       \/ w[m].version # Len(history) /\ ComeBack(m) /\ UNCHANGED history
    /\ UNCHANGED <<graph, lease, state, cache, seen, budget, orderly>>

-----------------------------------------------------------------------------

User == Create \/ Edit \/ Delete

Lifecycle(m) == Start(m) \/ Lead(m) \/ Crash(m) \/ Expire(m) \/ GiveUp(m) \/ Observe(m)

Reconcile(m) == \/ AddFinalizer(m) \/ ReconcileCall(m) \/ CloseCall(m)
                \/ WriteStatus(m) \/ RemoveFinalizer(m)

Next == User \/ \E m \in Managers : Lifecycle(m) \/ Get(m) \/ Reconcile(m)

Spec == Init /\ [][Next]_vars

\* The Deployment keeps its pods up, somebody takes a free lease, a leader
\* without one gives up, informers deliver, and a leader works.
Fairness ==
    /\ WF_vars(\E m \in Managers : Lead(m))
    /\ \A m \in Managers :
          /\ WF_vars(Start(m)) /\ WF_vars(GiveUp(m)) /\ WF_vars(Observe(m))
          /\ WF_vars(Get(m)) /\ WF_vars(Reconcile(m))

FairSpec == Spec /\ Fairness

-----------------------------------------------------------------------------

\* Across failovers, crashes included, edges are in the graph only while the
\* finalizer is on the object (segmentationpolicy_controller.go:63-69) ...
NoOrphanedEdges == graph # NoSpec => Guarded

\* ... as long as each leader was alone and had caught up with its predecessors.
NoOrphanedEdgesInOrder == orderly => NoOrphanedEdges

\* Under the same condition Ready=True for the current generation means that the
\* graph holds this spec, whoever wrote it and whoever leads now
\* (common.go:35-39).
ReadyMeansAppliedInOrder ==
    orderly /\ Current.exists /\ Current.ready /\ Current.observedGeneration = Current.generation
        => graph = Current.spec

\* Whatever leaders with old caches or expired leases wrote in between, the
\* graph ends up with the spec of an object that stays, and a deletion ends.
Heals ==
    /\ <>[](Current.exists /\ ~Current.deleting) => <>[](graph = Current.spec)
    /\ Guarded /\ Current.deleting ~> ~Guarded
=============================================================================
