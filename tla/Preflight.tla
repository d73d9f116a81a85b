------------------------------- MODULE Preflight -------------------------------
(***************************************************************************)
(* The readiness probe (preflight.go): are the three CRDs served, and does *)
(* the control plane answer?  Probes overlap: the health endpoint serves   *)
(* each request in a goroutine of its own, and all of them share the       *)
(* lazily built discovery client of one Checker, which no lock guards.     *)
(*                                                                         *)
(* Time is counted per probe, in units of its own timeout's scale.  The    *)
(* discovery client brings a timeout of its own (client-go's default); the *)
(* control plane's client obeys the probe's context.                       *)
(***************************************************************************)
EXTENDS Naturals, FiniteSets

CONSTANTS
    Probes,             \* requests to the endpoint that can be under way at once
    requiredResources,  \* the three CRDs
    Timeout,            \* of a probe (defaultTimeout)
    DiscoveryTimeout,   \* of the discovery client
    StartConfigured,    \* may the backend client be configured (TRUE), not (FALSE)?
    MaxDisturbances     \* how often the world changes in a behaviour

ASSUME ResourcesAssumption == requiredResources # {}
ASSUME TimeoutsAssumption == Timeout \in Nat \ {0} /\ DiscoveryTimeout \in Nat \ {0}
ASSUME ConfiguredAssumption == StartConfigured \subseteq BOOLEAN
ASSUME MaxDisturbancesAssumption == MaxDisturbances \in Nat

VARIABLES
    served,      \* the required resources the API server serves
    api,         \* how discovery is answered: "answers", "fails" or "hangs"
    backend,     \* how GET /paused is answered: "answers", "fails" or "hangs"
    configured,  \* was the client built by New?
    Discovery,   \* c.Discovery: "nil", "torn" (an interface half written) or "built"
    at,          \* where each probe is
    elapsed,     \* how long each probe has been under way
    result,      \* what each probe returned
    facts,       \* (history) what was the case at some time during each probe
    budget       \* changes of the world left

world == <<served, api, backend, configured>>
vars  == <<world, Discovery, at, elapsed, result, facts, budget>>

-----------------------------------------------------------------------------

Conditions == {"answers", "fails", "hangs"}

\* nil, the errors Check tells apart, and a panic that net/http recovers.
Outcomes == {"none", "ready", "notInstalled", "incomplete", "undetermined",
             "backendNotConfirmed", "panic"}

Facts == {"all served", "some missing", "discovery up", "backend up", "backend down"}

\* What is the case now.
Now == {IF served = requiredResources THEN "all served" ELSE "some missing",
        IF backend = "answers" THEN "backend up" ELSE "backend down"}
          \cup (IF api = "answers" THEN {"discovery up"} ELSE {})

TypeOK ==
    /\ served \subseteq requiredResources
    /\ api \in Conditions /\ backend \in Conditions
    /\ configured \in BOOLEAN
    /\ Discovery \in {"nil", "torn", "built"}
    /\ at \in [Probes -> {"idle", "find", "build", "store", "list", "backend"}]
    /\ elapsed \in [Probes -> 0..Timeout \cup 0..DiscoveryTimeout]
    /\ result \in [Probes -> Outcomes]
    /\ facts \in [Probes -> SUBSET Facts]
    /\ budget \in Nat

Init ==
    /\ served \in SUBSET requiredResources
    /\ api \in Conditions /\ backend \in Conditions
    /\ configured \in StartConfigured
    /\ Discovery = "nil"
    /\ at = [p \in Probes |-> "idle"]
    /\ elapsed = [p \in Probes |-> 0]
    /\ result = [p \in Probes |-> "none"]
    /\ facts = [p \in Probes |-> {}]
    /\ budget = MaxDisturbances

-----------------------------------------------------------------------------

\* CRDs come and go, the API server and the control plane fail and recover;
\* every probe under way lives to see it.
Change ==
    /\ budget > 0 /\ budget' = budget - 1
    /\ \/ served' \in SUBSET requiredResources \ {served} /\ UNCHANGED <<api, backend>>
       \/ api' \in Conditions \ {api} /\ UNCHANGED <<served, backend>>
       \/ backend' \in Conditions \ {backend} /\ UNCHANGED <<served, api>>
    /\ facts' = [p \in Probes |-> IF at[p] = "idle" THEN facts[p] ELSE facts[p] \cup Now']
    /\ UNCHANGED <<configured, Discovery, at, elapsed, result>>

\* A request comes in: Check starts.
Begin(p) ==
    /\ at[p] = "idle"
    /\ at' = [at EXCEPT ![p] = "find"]
    /\ elapsed' = [elapsed EXCEPT ![p] = 0]
    /\ result' = [result EXCEPT ![p] = "none"]
    /\ facts' = [facts EXCEPT ![p] = Now]
    /\ UNCHANGED <<world, Discovery, budget>>

Goto(p, step) == at' = [at EXCEPT ![p] = step] /\ UNCHANGED result

Return(p, outcome) ==
    /\ at' = [at EXCEPT ![p] = "idle"]
    /\ result' = [result EXCEPT ![p] = outcome]

\* lister := c.Discovery.  An interface value is two words: a half written one
\* is not nil, and calling it panics.
Find(p) ==
    /\ at[p] = "find"
    /\ \/ Discovery = "nil" /\ Goto(p, "build")
       \/ Discovery = "built" /\ Goto(p, "list")
       \/ Discovery = "torn" /\ Return(p, "panic")
    /\ UNCHANGED <<world, Discovery, elapsed, facts, budget>>

\* The client is built and its first word stored; a client that is already
\* there is replaced by its like.  Building it can fail.
Build(p) ==
    /\ at[p] = "build"
    /\ \/ /\ Discovery' = IF Discovery = "built" THEN "built" ELSE "torn"
          /\ Goto(p, "store")
       \/ UNCHANGED Discovery /\ Return(p, "undetermined")
    /\ UNCHANGED <<world, elapsed, facts, budget>>

Store(p) ==
    /\ at[p] = "store"
    /\ Discovery' = "built"
    /\ Goto(p, "list")
    /\ UNCHANGED <<world, elapsed, facts, budget>>

\* Mutant of List: it is enough that the group is served.
List_GroupIsEnough(p) ==
    /\ at[p] = "list"
    /\ \/ /\ api = "answers"
          /\ \/ served # {} /\ Goto(p, "backend")
             \/ served = {} /\ Return(p, "notInstalled")
       \/ api = "fails" /\ Return(p, "undetermined")
       \/ api = "hangs" /\ elapsed[p] >= DiscoveryTimeout /\ Return(p, "undetermined")
    /\ UNCHANGED <<world, Discovery, elapsed, facts, budget>>

\* Mutant of List: every error of discovery is taken for NotFound.
List_ErrorIsAbsence(p) ==
    /\ at[p] = "list"
    /\ \/ /\ api = "answers"
          /\ \/ served = requiredResources /\ Goto(p, "backend")
             \/ served # requiredResources /\ Return(p, "incomplete")
       \/ api = "fails" /\ Return(p, "notInstalled")
       \/ api = "hangs" /\ elapsed[p] >= DiscoveryTimeout /\ Return(p, "notInstalled")
    /\ UNCHANGED <<world, Discovery, elapsed, facts, budget>>

\* Mutant of List: discovery has no timeout of any kind.
List_Unbounded(p) ==
    /\ at[p] = "list"
    /\ \/ /\ api = "answers"
          /\ \/ served = requiredResources /\ Goto(p, "backend")
             \/ served # requiredResources /\ Return(p, "incomplete")
       \/ api = "fails" /\ Return(p, "undetermined")
       \/ api = "hangs" /\ Goto(p, "list")
    /\ UNCHANGED <<world, Discovery, elapsed, facts, budget>>

\* ServerResourcesForGroupVersion, which knows nothing of the probe's context:
\* NotFound and missing resources are confirmed absence, another error is not.
List(p) ==
    /\ at[p] = "list"
    /\ \/ /\ api = "answers"
          /\ \/ served = requiredResources /\ Goto(p, "backend")
             \/ served = {} /\ Return(p, "notInstalled")
             \/ served \notin {{}, requiredResources} /\ Return(p, "incomplete")
       \/ api = "fails" /\ Return(p, "undetermined")
       \/ api = "hangs" /\ elapsed[p] >= DiscoveryTimeout /\ Return(p, "undetermined")
    /\ UNCHANGED <<world, Discovery, elapsed, facts, budget>>

\* GetPaused within what is left of the probe's time; the value does not matter.
CheckBackend(p) ==
    /\ at[p] = "backend"
    /\ \/ ~configured /\ Return(p, "ready")
       \/ configured /\ elapsed[p] < Timeout /\ backend = "answers" /\ Return(p, "ready")
       \/ configured /\ (backend = "fails" \/ elapsed[p] >= Timeout) /\ Return(p, "backendNotConfirmed")
    /\ UNCHANGED <<world, Discovery, elapsed, facts, budget>>

\* Mutant of Tick: no deadline ends a wait.
Tick_NoDeadline(p) ==
    /\ at[p] \in {"list", "backend"}
    /\ elapsed' = [elapsed EXCEPT ![p] = @ + 1]
    /\ UNCHANGED <<world, Discovery, at, result, facts, budget>>

\* Time passes for a probe that waits for an answer.
Tick(p) ==
    /\ \/ at[p] = "list" /\ elapsed[p] < DiscoveryTimeout
       \/ at[p] = "backend" /\ configured /\ elapsed[p] < Timeout
    /\ elapsed' = [elapsed EXCEPT ![p] = @ + 1]
    /\ UNCHANGED <<world, Discovery, at, result, facts, budget>>

Step(p) == Find(p) \/ Build(p) \/ Store(p) \/ List(p) \/ CheckBackend(p)

Next == Change \/ \E p \in Probes : Begin(p) \/ Step(p) \/ Tick(p)

Spec == Init /\ [][Next]_vars

\* A goroutine that can go on goes on, and time passes.
FairSpec == Spec /\ \A p \in Probes : WF_vars(Step(p)) /\ WF_vars(Tick(p))

-----------------------------------------------------------------------------

\* Ready is returned only when, during this very probe, all CRDs were served, to
\* a discovery that answered, and the control plane answered or nobody ever
\* configured one: neither the race on c.Discovery nor a change half-way makes a
\* probe answer from what an earlier one saw (preflight.go:10-16 and 87-89).
ReadyIsConfirmed ==
    \A p \in Probes : result[p] = "ready" =>
        /\ {"all served", "discovery up"} \subseteq facts[p]
        /\ configured => "backend up" \in facts[p]

\* "Confirmed missing" is kept apart from "could not look"
\* (preflight.go:87-89 and 136-143).
AbsenceIsConfirmed ==
    \A p \in Probes : result[p] \in {"notInstalled", "incomplete"} =>
        {"some missing", "discovery up"} \subseteq facts[p]

\* Every probe comes to an end, whoever hangs.
EveryProbeEnds == \A p \in Probes : at[p] # "idle" ~> at[p] = "idle"

=============================================================================
