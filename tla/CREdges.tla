-------------------------------- MODULE CREdges --------------------------------
(***************************************************************************)
(* What the finalizer k8boss.io/cr-edges promises (common.go:27-32),       *)
(* without a cache, a worker, a network or a status: a CR's intent is in   *)
(* the Knowledge Graph only while a finalizer holds the CR, and the        *)
(* finalizer leaves only once the intent is out of the graph.              *)
(*                                                                         *)
(* PolicyController implements this module; its refinement mapping is      *)
(* there.                                                                  *)
(***************************************************************************)
CONSTANTS
    Policies    \* the names a CR can have

VARIABLES
    life,       \* life[p]: where the CR called p stands
    open        \* the CRs whose intent is in the graph

vars == <<life, open>>

\* "unguarded": it exists, without the finalizer.  "guarded": with it.
\* "terminating": with it, and its deletion has been asked for.
Lives == {"absent", "unguarded", "guarded", "terminating"}

TypeOK ==
    /\ life \in [Policies -> Lives]
    /\ open \subseteq Policies

Init ==
    /\ life = [p \in Policies |-> "absent"]
    /\ open = {}

Move(p, from, to) ==
    /\ life[p] = from
    /\ life' = [life EXCEPT ![p] = to]
    /\ UNCHANGED open

Create(p) == Move(p, "absent", "unguarded")

\* Without the finalizer nothing holds the object.
Vanish(p) == Move(p, "unguarded", "absent")

Guard(p) == Move(p, "unguarded", "guarded")

Delete(p) == Move(p, "guarded", "terminating")

\* Intent is written for a guarded CR only; a CR that is being deleted is
\* still guarded.
Write(p) ==
    /\ life[p] \in {"guarded", "terminating"}
    /\ open' = open \cup {p}
    /\ UNCHANGED life

Close(p) ==
    /\ life[p] = "terminating"
    /\ open' = open \ {p}
    /\ UNCHANGED life

\* The object goes, unless another controller's finalizer still holds it.
Release(p) ==
    /\ p \notin open
    /\ Move(p, "terminating", "absent") \/ Move(p, "terminating", "unguarded")

Next == \E p \in Policies :
            \/ Create(p) \/ Vanish(p) \/ Guard(p) \/ Delete(p)
            \/ Write(p) \/ Close(p) \/ Release(p)

Spec == Init /\ [][Next]_vars

\* A CR's intent is in the graph only while its finalizer holds it.
OpenIsGuarded == \A p \in open : life[p] \in {"guarded", "terminating"}
=============================================================================
