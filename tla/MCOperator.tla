------------------------------ MODULE MCOperator ------------------------------
(***************************************************************************)
(* Values for the constants of Operator.                                   *)
(***************************************************************************)
EXTENDS Operator

MCProviderRef == [s \in Specs |-> NoProvider]

OneReport ==
    {<<[Checked |-> TRUE, Healthy |-> "true", Message |-> FALSE,
        LastQueryError |-> FALSE, Blockers |-> FALSE]>>}

\* A request that is lost, in either direction; a switch that says where it
\* still stands.
NotAnswered == [answered |-> FALSE, code |-> 200, body |-> [shape |-> "opaque", key |-> ""]]
Standing(v) == [answered |-> TRUE, code |-> 200, body |-> [shape |-> "paused", Paused |-> v]]

Lost     == {NotAnswered}
StaysPut == {NotAnswered} \cup {Standing(v) : v \in BOOLEAN}
None     == {}

\* What Init leads to by Create, Edit and Observe alone: nothing exists, or the
\* policies and the singleton do, their creation has been seen and queued, and
\* the singleton, created unpaused, may have been paused since.
CreatedConfig == [C!NoConfig EXCEPT !.exists = TRUE, !.paused = FALSE, !.generation = 1]
PausedSince   == [CreatedConfig EXCEPT !.paused = TRUE, !.generation = 2]
CreatedPolicy(s) == [P!Absent EXCEPT !.exists = TRUE, !.spec = s, !.generation = 1]

WrittenInit ==
    /\ \/ /\ configLog = [n \in Names |-> <<C!NoConfig>>] /\ asked = {}
          /\ log = [p \in Policies |-> <<P!Absent>>]
       \/ /\ \/ configLog = [n \in Names |-> <<CreatedConfig>>] /\ asked = {FALSE}
             \/ configLog = [n \in Names |-> <<CreatedConfig, PausedSince>>] /\ asked = BOOLEAN
          /\ log \in [Policies -> {<<CreatedPolicy(s)>> : s \in Specs}]
    /\ queue = {p \in Policies : P!Cached(p).exists}
    /\ configQueue = {n \in Names : C!Cached(n).exists}
    /\ delayed = {} /\ w = P!Idle /\ late = {}
    /\ configDelayed = {} /\ configW = C!Idle /\ latePush = {}
    /\ configured = TRUE
    /\ serverPaused \in SwitchStart
    /\ workloads = [p \in Policies |-> 1]
    /\ graph = [p \in Policies |-> P!Closed]
    /\ budget = MaxDisturbances /\ overtaken = FALSE

WrittenFairSpec == WrittenInit /\ [][Next]_vars /\ Fairness
=============================================================================
