------------------------- MODULE PlatformConfigProofs -------------------------
(***************************************************************************)
(* Theorems about PlatformConfig for every set of names, every faulty      *)
(* answer and any number of disturbances, with machine-checked proofs.     *)
(***************************************************************************)
EXTENDS PlatformConfig, SequenceTheorems, TLAPS

-----------------------------------------------------------------------------
(* Versions of an object. *)

Objects   == Configs \cup {NoConfig}
Histories == [Names -> Seq(Objects) \ {<< >>}]

\* Every version is an object, a stored one of those that exist, and there is
\* always one.
LEMMA VersionTypes ==
    ASSUME log \in Histories, NEW n \in Names
    PROVE  /\ Len(log[n]) \in Nat \ {0}
           /\ \A k \in 1..Len(log[n]) : /\ log[n][k] \in Objects
                                        /\ log[n][k].exists => log[n][k] \in Configs
           /\ Current(n) \in Objects /\ (Current(n).exists => Current(n) \in Configs)
           /\ Cached(n) \in Objects /\ (Cached(n).exists => Cached(n) \in Configs)
<1>1. log[n] \in Seq(Objects) /\ log[n] # << >>
  BY DEF Histories
<1>2. Len(log[n]) \in Nat \ {0}
  BY <1>1, EmptySeq
<1>3. \A k \in 1..Len(log[n]) : log[n][k] \in Objects
  BY <1>1, ElementOfSeq
<1>4. \A cr \in Objects : cr.exists => cr \in Configs
  BY DEF Objects, NoConfig
<1> QED
  BY <1>2, <1>3, <1>4 DEF Current, Cached

\* Storing a version makes it the current one and changes nothing else.
LEMMA AppendVersion ==
    ASSUME log \in Histories, NEW n \in Names, NEW cr \in Objects,
           log' = [log EXCEPT ![n] = Append(@, cr)]
    PROVE  /\ log' \in Histories
           /\ Len(log'[n]) = Len(log[n]) + 1
           /\ \A k \in 1..Len(log[n]) : log'[n][k] = log[n][k]
           /\ log'[n][Len(log[n]) + 1] = cr
           /\ Current(n)' = cr /\ Cached(n)' = Cached(n)
           /\ \A m \in Names \ {n} : log'[m] = log[m]
<1>1. log[n] \in Seq(Objects) /\ log'[n] = Append(log[n], cr)
  BY DEF Histories
<1>2. /\ Append(log[n], cr) \in Seq(Objects)
      /\ Append(log[n], cr) # << >>
      /\ Len(Append(log[n], cr)) = Len(log[n]) + 1
      /\ \A k \in 1..Len(log[n]) : Append(log[n], cr)[k] = log[n][k]
      /\ Append(log[n], cr)[Len(log[n]) + 1] = cr
  BY <1>1, AppendProperties
<1>3. Len(log[n]) \in Nat \ {0}
  BY VersionTypes
<1>4. log' \in Histories
  BY <1>1, <1>2 DEF Histories
<1>5. Current(n)' = cr /\ Cached(n)' = Cached(n)
  BY <1>1, <1>2, <1>3 DEF Current, Cached
<1> QED
  BY <1>1, <1>2, <1>4, <1>5 DEF Histories

\* A delivery drops the versions before the k-th.
LEMMA DropVersions ==
    ASSUME log \in Histories, NEW n \in Names, NEW k \in 1..Len(log[n]),
           log' = [log EXCEPT ![n] = SubSeq(@, k, Len(@))]
    PROVE  /\ log' \in Histories
           /\ Len(log'[n]) = Len(log[n]) - k + 1
           /\ \A i \in 1..Len(log'[n]) : log'[n][i] = log[n][i + k - 1] /\ i + k - 1 \in 1..Len(log[n])
           /\ Current(n)' = Current(n) /\ Cached(n)' = log[n][k]
           /\ \A m \in Names \ {n} : log'[m] = log[m]
<1>1. log'[n] = SubSeq(log[n], k, Len(log[n]))
  BY DEF Histories
<1>2. Len(log[n]) \in Nat \ {0} /\ \A i \in k..Len(log[n]) : log[n][i] \in Objects
  BY VersionTypes
<1>3. /\ log'[n] \in Seq(Objects)
      /\ Len(log'[n]) = Len(log[n]) - k + 1
      /\ \A i \in 1..Len(log[n]) - k + 1 : log'[n][i] = log[n][k + i - 1]
  BY <1>1, <1>2, SubSeqProperties
<1>4. log'[n] # << >>
  <2>1. Len(log'[n]) # 0
    BY <1>2, <1>3
  <2> QED
    BY <2>1
<1>5. log' \in Histories
  BY <1>3, <1>4 DEF Histories
<1>6. Current(n)' = Current(n) /\ Cached(n)' = log[n][k]
  BY <1>2, <1>3 DEF Current, Cached
<1>7. \A i \in 1..Len(log'[n]) : log'[n][i] = log[n][i + k - 1] /\ i + k - 1 \in 1..Len(log[n])
  BY <1>2, <1>3
<1> QED
  BY <1>3, <1>5, <1>6, <1>7 DEF Histories

-----------------------------------------------------------------------------
(* What the worker makes of an answer.                                     *)

\* Every reported provider gets an entry, and one without a verdict is Unknown.
LEMMA SplitProviderHealth ==
    ASSUME NEW providers \in Seq(ReportedProviders)
    PROVE  LET health == splitProviderHealth(providers)
           IN /\ health.entries \in Seq(HealthEntries)
              /\ health.undetermined = {} <=> ~\E n \in DOMAIN health.entries : health.entries[n].Health = "Unknown"
<1> DEFINE health == splitProviderHealth(providers)
<1>1. Len(providers) \in Nat /\ DOMAIN providers = 1..Len(providers)
  BY LenProperties
<1>2. ASSUME NEW n \in DOMAIN providers
      PROVE  /\ healthEntry(providers[n]) \in HealthEntries
             /\ healthEntry(providers[n]).Health = "Unknown" <=> ~Determinate(providers[n])
  <2>1. providers[n] \in ReportedProviders
    BY <1>1, <1>2, ElementOfSeq
  <2>2. ASSUME NEW p \in ReportedProviders
        PROVE  why(p) \in {"", "message", "unchecked", "no verdict"}
    BY <2>2 DEF why, ReportedProviders
  <2>3. ASSUME NEW p \in ReportedProviders
        PROVE  lastQueryError(p) \subseteq {"reported", "message", "unexplained", "blockers"}
    BY <2>3 DEF lastQueryError, ReportedProviders
  <2> QED
    BY <2>1, <2>2, <2>3 DEF healthEntry, HealthEntries, Determinate
<1>3. health.entries = [n \in DOMAIN providers |-> healthEntry(providers[n])]
  BY DEF splitProviderHealth
<1>4. health.entries \in [1..Len(providers) -> HealthEntries]
  BY <1>1, <1>2, <1>3
<1>5. health.entries \in Seq(HealthEntries)
  BY <1>1, <1>4, SeqDef
<1>6. health.undetermined = {n \in DOMAIN providers : ~Determinate(providers[n])}
  BY DEF splitProviderHealth
<1> QED
  BY <1>2, <1>3, <1>5, <1>6

\* The worker's copy is changed in its status only.
StatusSet ==
    /\ w'.at = "writeStatus" /\ w'.name = w.name /\ w'.fresh = w.fresh
    /\ w'.cr = [w.cr EXCEPT !.status = w'.cr.status]

\* It is told why it is not ready, and nothing else.
Refused ==
    /\ StatusSet
    /\ w'.cr.status.ready = "False"
    /\ w'.cr.status.reason # "NotTheConfiguredSingleton"
    /\ w'.cr.status.providerHealth = w.cr.status.providerHealth
    /\ w'.cr.status.observedGeneration = w.cr.status.observedGeneration

\* It is told that it is ready, with the entries of a completed read.
Confirmed ==
    /\ StatusSet
    /\ w'.cr.status.ready = "True" /\ w'.cr.status.reason = "Reconciled"
    /\ w'.cr.status.observedGeneration = w.cr.generation
    /\ w'.cr.status.healthKnown = IF SomeUnknown(w'.cr.status) THEN "False" ELSE "True"

LEMMA BusyTypes ==
    ASSUME w \in Workers, w.at # "idle"
    PROVE  /\ w \in [at : {"setPaused", "providerHealth", "writeStatus"}, name : Names,
                     cr : Configs, fresh : BOOLEAN]
           /\ w.name \in Names /\ w.cr \in Configs /\ w.cr.status \in ConfigStatuses
           /\ w.cr.exists /\ w.cr.paused \in BOOLEAN /\ w.cr.generation \in Nat /\ w.fresh \in BOOLEAN
<1>1. w \in [at : {"setPaused", "providerHealth", "writeStatus"}, name : Names, cr : Configs, fresh : BOOLEAN]
  BY DEF Workers, Idle
<1>2. w.name \in Names /\ w.cr \in Configs /\ w.fresh \in BOOLEAN
  BY <1>1
<1>3. w.cr.status \in ConfigStatuses /\ w.cr.paused \in BOOLEAN /\ w.cr.generation \in Nat /\ w.cr.exists = TRUE
  BY <1>2 DEF Configs
<1> QED
  BY <1>1, <1>2, <1>3

LEMMA StatusSetKeeps ==
    ASSUME w \in Workers, w.at # "idle", w' \in Workers, StatusSet
    PROVE  /\ w'.cr.paused = w.cr.paused /\ w'.cr.generation = w.cr.generation /\ w'.cr.exists
           /\ w'.cr \in Configs /\ w'.cr.status \in ConfigStatuses
<1>1. w.cr \in Configs
  BY BusyTypes
<1>2. w' # Idle
  BY DEF StatusSet, Idle
<1>3. w' \in [at : {"setPaused", "providerHealth", "writeStatus"}, name : Names, cr : Configs, fresh : BOOLEAN]
  BY <1>2 DEF Workers
<1>4. w'.cr \in Configs /\ w'.cr = [w.cr EXCEPT !.status = w'.cr.status]
  BY <1>3 DEF StatusSet
<1> QED
  BY <1>1, <1>4 DEF Configs

LEMMA ToWriteStatusMoves ==
    ASSUME w \in Workers, w.at # "idle", NEW status \in ConfigStatuses, ToWriteStatus(status)
    PROVE  w' \in Workers /\ StatusSet /\ w'.cr.status = status
<1>1. w \in [at : {"setPaused", "providerHealth", "writeStatus"}, name : Names, cr : Configs, fresh : BOOLEAN]
  BY BusyTypes
<1>2. w' = [w EXCEPT !.at = "writeStatus", !.cr = [w.cr EXCEPT !.status = status]]
  BY <1>1 DEF ToWriteStatus
<1>3. [w.cr EXCEPT !.status = status] \in Configs /\ [w.cr EXCEPT !.status = status].status = status
  BY <1>1 DEF Configs
<1>4. w' \in Workers
  BY <1>1, <1>2, <1>3 DEF Workers
<1> QED
  BY <1>1, <1>2, <1>3, <1>4 DEF StatusSet

\* A refusal of either call.
LEMMA RefusedMoves ==
    ASSUME w \in Workers, w.at # "idle", NEW err, NEW known \in {"none", "True", "False"},
           NEW reason \in {pauseErrorReason(err), healthErrorReason(err), "WriteNotVerified"},
           ToWriteStatus(notReady([w.cr.status EXCEPT !.healthKnown = known], reason))
    PROVE  w' \in Workers /\ Refused
<1>1. w.cr.status \in ConfigStatuses
  BY BusyTypes
<1>2. reason \in ReasonsOfConfig \ {"NotTheConfiguredSingleton"}
  BY DEF pauseErrorReason, healthErrorReason, ReasonsOfConfig
<1> DEFINE status == notReady([w.cr.status EXCEPT !.healthKnown = known], reason)
<1>3. /\ status \in ConfigStatuses /\ status.ready = "False" /\ status.reason = reason
      /\ status.providerHealth = w.cr.status.providerHealth
      /\ status.observedGeneration = w.cr.status.observedGeneration
  BY <1>1, <1>2 DEF notReady, ConfigStatuses
<1> HIDE DEF status
<1>4. w' \in Workers /\ StatusSet /\ w'.cr.status = status
  BY <1>3, ToWriteStatusMoves DEF status
<1> QED
  BY <1>2, <1>3, <1>4 DEF Refused

LEMMA AfterSetPausedMoves ==
    ASSUME w \in Workers, w.at # "idle", NEW reply, AfterSetPaused(reply)
    PROVE  /\ w' \in Workers
           /\ \/ Refused
              \/ reply.err = NoError /\ reply.Paused = w.cr.paused /\ w' = [w EXCEPT !.at = "providerHealth"]
<1>1. w.cr.status \in ConfigStatuses
  BY BusyTypes
<1>2. w.cr.status = [w.cr.status EXCEPT !.healthKnown = w.cr.status.healthKnown]
      /\ w.cr.status.healthKnown \in {"none", "True", "False"}
  BY <1>1 DEF ConfigStatuses
<1>3. ASSUME NEW reason \in {pauseErrorReason(reply.err), "WriteNotVerified"},
             ToWriteStatus(notReady(w.cr.status, reason))
      PROVE  w' \in Workers /\ Refused
  BY <1>2, <1>3, RefusedMoves
<1>4. CASE reply.err = NoError /\ reply.Paused = w.cr.paused /\ w' = [w EXCEPT !.at = "providerHealth"]
  BY <1>4, BusyTypes DEF Workers
<1> QED
  BY <1>3, <1>4 DEF AfterSetPaused

LEMMA AfterProviderHealthMoves ==
    ASSUME w \in Workers, w.at # "idle", NEW reply, reply.Providers \in Seq(ReportedProviders),
           AfterProviderHealth(reply)
    PROVE  w' \in Workers /\ (Refused \/ Confirmed)
<1> DEFINE health == splitProviderHealth(reply.Providers)
           known  == IF health.undetermined = {} THEN "True" ELSE "False"
           status == [ready |-> "True", reason |-> "Reconciled", healthKnown |-> known,
                      observedGeneration |-> w.cr.generation, providerHealth |-> health.entries]
<1>1. CASE ToWriteStatus(notReady([w.cr.status EXCEPT !.healthKnown = "False"], healthErrorReason(reply.err)))
  BY <1>1, RefusedMoves
<1>2. CASE ToWriteStatus(status)
  <2>1. /\ health.entries \in Seq(HealthEntries)
        /\ health.undetermined = {} <=> ~\E n \in DOMAIN health.entries : health.entries[n].Health = "Unknown"
    BY SplitProviderHealth
  <2> HIDE DEF health
  <2>2. status \in ConfigStatuses
    BY <2>1, BusyTypes DEF ConfigStatuses, ReasonsOfConfig
  <2>3. known = IF SomeUnknown(status) THEN "False" ELSE "True"
    BY <2>1 DEF SomeUnknown
  <2>4. /\ status.ready = "True" /\ status.reason = "Reconciled" /\ status.healthKnown = known
        /\ status.observedGeneration = w.cr.generation
    OBVIOUS
  <2> HIDE DEF status
  <2>5. w' \in Workers /\ StatusSet /\ w'.cr.status = status
    BY <1>2, <2>2, ToWriteStatusMoves
  <2> QED
    BY <2>3, <2>4, <2>5 DEF Confirmed
<1> QED
  BY <1>1, <1>2 DEF AfterProviderHealth

\* What a step of SetPaused can have done.
LEMMA SetPausedMoves ==
    ASSUME TypeOK, SetPaused
    PROVE  /\ w.at = "setPaused" /\ w' \in Workers
           /\ Refused \/ w' = [w EXCEPT !.at = "providerHealth"]
           /\ serverPaused' \in {serverPaused, w.cr.paused}
           /\ late' \in {late, late \cup {w.cr.paused}} /\ (late' # late => LateCalls)
           /\ budget' \in Nat
           /\ UNCHANGED <<log, queue, delayed, configured, asked>>
<1>1. w \in Workers /\ w.at = "setPaused" /\ budget \in Nat
  BY DEF TypeOK, SetPaused
<1>2. PICK reply : AfterSetPaused(reply)
  BY DEF SetPaused
<1>3. w' \in Workers /\ (Refused \/ w' = [w EXCEPT !.at = "providerHealth"])
  BY <1>1, <1>2, AfterSetPausedMoves
<1>4. CASE \E wire : Push(w.cr.paused, wire)
  BY <1>1, <1>3, <1>4 DEF SetPaused, Push, Disturb
<1>5. CASE UNCHANGED <<serverPaused, late, budget>>
  BY <1>1, <1>3, <1>5 DEF SetPaused
<1> QED
  BY <1>4, <1>5 DEF SetPaused

\* What a step of ProviderHealthRead can have done.
LEMMA ProviderHealthReadMoves ==
    ASSUME TypeOK, ProviderHealthRead
    PROVE  /\ w.at = "providerHealth" /\ w' \in Workers
           /\ Refused \/ Confirmed
           /\ budget' \in Nat
           /\ UNCHANGED <<log, queue, delayed, configured, serverPaused, late, asked>>
<1>1. w \in Workers /\ w.at = "providerHealth" /\ budget \in Nat /\ budget' \in Nat
  BY DEF TypeOK, ProviderHealthRead, Disturb
<1>2. PICK wire : /\ AfterProviderHealth(providerHealthReply(wire))
                  /\ wire \in HealthFaults \/ \E report \in HealthReports : wire = Ok(HealthBody(report))
  BY DEF ProviderHealthRead
<1>3. << >> \in Seq(ReportedProviders)
  BY EmptySeq
<1>4. providerHealthReply(wire).Providers \in Seq(ReportedProviders)
  BY <1>2, <1>3, ReportsAssumption DEF providerHealthReply, Ok, HealthBody
<1>5. w' \in Workers /\ (Refused \/ Confirmed)
  BY <1>1, <1>2, <1>4, AfterProviderHealthMoves
<1> QED
  BY <1>1, <1>5 DEF ProviderHealthRead

-----------------------------------------------------------------------------
(* What the other steps do. *)

LEMMA LogTypes == TypeOK <=> /\ log \in Histories /\ queue \subseteq Names /\ delayed \subseteq Names
                             /\ w \in Workers /\ configured \in BOOLEAN /\ serverPaused \in BOOLEAN
                             /\ late \subseteq BOOLEAN /\ asked \subseteq BOOLEAN /\ budget \in Nat
BY DEF TypeOK, Histories, Objects

\* A user's version of n: an object is created with an empty status, edited with
\* its status and the next generation, or gone.
Written(n, cr) ==
    /\ cr.exists /\ Current(n).exists =>
          cr.status = Current(n).status /\ cr.generation = Current(n).generation + 1
    /\ cr.exists /\ ~Current(n).exists => cr.status = NoConfigStatus /\ cr.generation = 1
    /\ ~cr.exists => cr = NoConfig /\ Current(n).exists
    /\ asked' = IF Governs(n) /\ cr.exists THEN asked \cup {cr.paused} ELSE asked

LEMMA UserMoves ==
    ASSUME TypeOK, NEW n \in Names, Create(n) \/ Edit(n) \/ Delete(n)
    PROVE  /\ \E cr \in Objects : Store(n, cr) /\ Written(n, cr)
           /\ budget' \in Nat /\ asked' \subseteq BOOLEAN
<1>1. Current(n).exists => Current(n) \in Configs
  BY VersionTypes, LogTypes
<1>2. budget' \in Nat
  <2>1. Disturb
    BY DEF Create, Edit, Delete
  <2> QED
    BY <2>1 DEF Disturb, TypeOK
<1>3. CASE Create(n)
  <2>1. PICK v \in BOOLEAN :
          /\ Store(n, [NoConfig EXCEPT !.exists = TRUE, !.paused = v, !.generation = 1])
          /\ asked' = IF Governs(n) THEN asked \cup {v} ELSE asked
    BY <1>3 DEF Create
  <2> DEFINE cr == [NoConfig EXCEPT !.exists = TRUE, !.paused = v, !.generation = 1]
  <2>2. NoConfigStatus \in ConfigStatuses
    BY EmptySeq DEF NoConfigStatus, ConfigStatuses, ReasonsOfConfig
  <2>3. cr \in Objects /\ cr.exists = TRUE /\ cr.paused = v /\ cr.generation = 1 /\ cr.status = NoConfigStatus
    BY <2>2 DEF NoConfig, Objects, Configs
  <2>4. ~Current(n).exists
    BY <1>3 DEF Create
  <2> HIDE DEF cr
  <2>5. Written(n, cr)
    BY <2>1, <2>3, <2>4 DEF Written
  <2>6. asked' \subseteq BOOLEAN
    BY <2>1 DEF TypeOK
  <2> QED
    BY <1>2, <2>1, <2>3, <2>5, <2>6 DEF cr
<1>4. CASE Edit(n)
  <2>1. PICK v \in BOOLEAN :
          /\ Store(n, [Current(n) EXCEPT !.paused = v, !.generation = @ + 1])
          /\ asked' = IF Governs(n) THEN asked \cup {v} ELSE asked
    BY <1>4 DEF Edit
  <2> DEFINE cr == [Current(n) EXCEPT !.paused = v, !.generation = @ + 1]
  <2>2. Current(n).exists /\ Current(n) \in Configs
    BY <1>1, <1>4 DEF Edit
  <2>3. /\ cr \in Objects /\ cr.exists = TRUE /\ cr.paused = v
        /\ cr.generation = Current(n).generation + 1 /\ cr.status = Current(n).status
    <3>1. ASSUME NEW c \in Configs, NEW g \in Nat
          PROVE  LET d == [c EXCEPT !.paused = v, !.generation = g]
                 IN /\ d \in Configs /\ d.exists = TRUE /\ d.paused = v
                    /\ d.generation = g /\ d.status = c.status
      BY DEF Configs
    <3>2. Current(n).generation + 1 \in Nat
      BY <2>2 DEF Configs
    <3> QED
      BY <2>2, <3>1, <3>2 DEF Objects
  <2> HIDE DEF cr
  <2>4. Written(n, cr)
    BY <2>1, <2>2, <2>3 DEF Written
  <2>5. asked' \subseteq BOOLEAN
    BY <2>1 DEF TypeOK
  <2> QED
    BY <1>2, <2>1, <2>3, <2>4, <2>5 DEF cr
<1>5. CASE Delete(n)
  <2>1. ~NoConfig.exists /\ NoConfig \in Objects
    BY DEF NoConfig, Objects
  <2> QED
    BY <1>2, <1>5, <2>1 DEF Delete, Written, TypeOK
<1> QED
  BY <1>3, <1>4, <1>5

\* Whoever stores a version, the worker keeps its copy and may lose its freshness.
LEMMA StoreMoves ==
    ASSUME TypeOK, NEW n \in Names, NEW cr \in Objects, Store(n, cr)
    PROVE  /\ w' \in Workers /\ w'.at = w.at /\ w'.name = w.name /\ w'.cr = w.cr
           /\ w'.fresh => w.fresh /\ w.name # n
<1> DEFINE stillFresh == w.fresh /\ w.name # n
<1>1. w \in Workers /\ w' = [w EXCEPT !.fresh = stillFresh] /\ stillFresh \in BOOLEAN
  BY DEF TypeOK, Store
<1>2. CASE w = Idle
  <2>1. ~stillFresh
    BY <1>2 DEF Idle
  <2>2. w' = [Idle EXCEPT !.fresh = FALSE]
    BY <1>1, <1>2, <2>1
  <2> QED
    BY <1>2, <2>2 DEF Workers, Idle
<1>3. CASE w # Idle
  <2>1. w \in [at : {"setPaused", "providerHealth", "writeStatus"}, name : Names, cr : Configs, fresh : BOOLEAN]
    BY <1>1, <1>3 DEF Workers
  <2> HIDE DEF stillFresh
  <2>2. w' \in Workers /\ w'.at = w.at /\ w'.name = w.name /\ w'.cr = w.cr /\ w'.fresh = stillFresh
    BY <1>1, <2>1 DEF Workers
  <2> QED
    BY <2>2 DEF stillFresh
<1> QED
  BY <1>2, <1>3

\* A delivery skips versions only after a gap in the watch.
LEMMA DeliveryMoves ==
    ASSUME TypeOK, NEW n \in Names, Observe(n) \/ Relist(n)
    PROVE  /\ \E k \in 2..Len(log[n]) : Deliver(n, k) /\ (k = 2 \/ WatchGaps)
           /\ budget' \in Nat
<1>1. Len(log[n]) \in Nat \ {0} /\ budget \in Nat
  BY VersionTypes, LogTypes
<1> QED
  BY <1>1 DEF Observe, Relist, Disturb

\* A pass begins.
LEMMA GetMoves ==
    ASSUME TypeOK, NEW n \in Names, Get(n)
    PROVE  /\ w.at = "idle" /\ w' \in Workers
           /\ \/ w' = Idle /\ ~Cached(n).exists
              \/ /\ w'.name = n /\ (w'.fresh <=> Len(log[n]) = 1) /\ Cached(n).exists
                 /\ w'.cr = [Cached(n) EXCEPT !.status = w'.cr.status]
                 /\ w'.cr.status.observedGeneration = Cached(n).status.observedGeneration
                 /\ w'.cr.status.providerHealth = Cached(n).status.providerHealth
                 /\ \/ w'.at = "setPaused" /\ Governs(n)
                    \/ w'.at = "writeStatus" /\ ~Governs(n) /\ w'.cr.status.ready = "False"
           /\ UNCHANGED <<log, delayed, configured, serverPaused, late, asked, budget>>
           /\ queue' = queue \ {n}
<1>1. /\ w.at = "idle" /\ queue' = queue \ {n}
      /\ UNCHANGED <<log, delayed, configured, serverPaused, late, asked, budget>>
  BY DEF Get
<1>2. CASE w' = Idle /\ ~Cached(n).exists
  BY <1>1, <1>2 DEF Workers
<1> DEFINE cr == Cached(n)
           fresh == Len(log[n]) = 1
           copy == [at |-> "setPaused", name |-> n, cr |-> cr, fresh |-> fresh]
<1>3. ASSUME cr.exists PROVE cr \in Configs /\ cr = [cr EXCEPT !.status = cr.status]
  <2>1. cr \in Configs
    BY <1>3, VersionTypes, LogTypes
  <2> QED
    BY <2>1 DEF Configs
<1>4. CASE cr.exists /\ Governs(n) /\ w' = copy
  <2>1. w' = copy /\ cr \in Configs /\ fresh \in BOOLEAN
    BY <1>3, <1>4
  <2> HIDE DEF fresh, cr
  <2>2. w' \in Workers /\ w'.name = n /\ w'.fresh = fresh /\ w'.cr = cr /\ w'.at = "setPaused"
    BY <2>1 DEF Workers
  <2> QED
    BY <1>1, <1>3, <1>4, <2>2 DEF fresh, cr
<1>5. CASE cr.exists /\ ~Governs(n)
           /\ w' = [copy EXCEPT !.at = "writeStatus",
                                !.cr.status = notReady(@, "NotTheConfiguredSingleton")]
  <2> DEFINE status == notReady(cr.status, "NotTheConfiguredSingleton")
  <2>1. cr \in Configs /\ fresh \in BOOLEAN
    BY <1>3, <1>5
  <2> HIDE DEF fresh, cr
  <2>2. cr.status \in ConfigStatuses
    BY <2>1 DEF Configs
  <2>3. /\ status \in ConfigStatuses /\ status.ready = "False"
        /\ status.observedGeneration = cr.status.observedGeneration
        /\ status.providerHealth = cr.status.providerHealth
    BY <2>2 DEF notReady, ConfigStatuses, ReasonsOfConfig
  <2>4. w' = [at |-> "writeStatus", name |-> n, cr |-> [cr EXCEPT !.status = status], fresh |-> fresh]
    BY <1>5 DEF cr
  <2> HIDE DEF status
  <2>5. [cr EXCEPT !.status = status] \in Configs /\ [cr EXCEPT !.status = status].status = status
    BY <2>1, <2>3 DEF Configs
  <2>6. w' \in Workers /\ w'.name = n /\ w'.fresh = fresh /\ w'.cr = [cr EXCEPT !.status = status]
        /\ w'.at = "writeStatus"
    BY <2>1, <2>4, <2>5 DEF Workers
  <2>7. w'.cr.status = status
    BY <2>5, <2>6
  <2>8. cr.exists /\ ~Governs(n)
    BY <1>5
  <2> QED
    BY <1>1, <2>3, <2>6, <2>7, <2>8 DEF fresh, cr
<1> QED
  BY <1>2, <1>4, <1>5 DEF Get

\* A pass ends: its copy is stored while it is fresh, or nothing is, and only an
\* object that governs nothing is not queued again.
LEMMA WriteMoves ==
    ASSUME TypeOK, WriteStatus \/ WriteStatusFails
    PROVE  /\ w.at = "writeStatus" /\ w.name \in Names /\ w.cr \in Objects /\ w' = Idle
           /\ \/ w.fresh /\ log' = [log EXCEPT ![w.name] = Append(@, w.cr)]
              \/ UNCHANGED log
           /\ \/ delayed' = delayed \cup {w.name}
              \/ /\ w.fresh /\ w.cr.status.reason = "NotTheConfiguredSingleton" /\ UNCHANGED delayed
                 /\ log' = log => w.cr = Current(w.name)
           /\ budget' \in Nat
           /\ UNCHANGED <<queue, configured, serverPaused, late, asked>>
<1>1. w.at = "writeStatus" /\ w \in Workers /\ budget \in Nat
  BY DEF TypeOK, WriteStatus, WriteStatusFails
<1>2. w.name \in Names /\ w.cr \in Objects
  BY <1>1, BusyTypes DEF Objects
<1>3. CASE WriteStatus
  <2>1. log \in Histories
    BY LogTypes
  <2>2. ASSUME log' = log, log' = [log EXCEPT ![w.name] = Append(@, w.cr)] PROVE FALSE
    <3>1. Len(log[w.name]) \in Nat /\ Len(log'[w.name]) = Len(log[w.name]) + 1
      BY <1>2, <2>1, <2>2, AppendVersion, VersionTypes
    <3> QED
      BY <2>2, <3>1
  <2> QED
    BY <1>1, <1>2, <1>3, <2>2 DEF WriteStatus, ReturnAndComeBack, ReturnForGood
<1>4. CASE WriteStatusFails
  BY <1>1, <1>2, <1>4 DEF WriteStatusFails, Disturb, ReturnAndComeBack
<1> QED
  BY <1>3, <1>4

LEMMA InitTypes == Init => TypeOK
<1> SUFFICES ASSUME Init PROVE TypeOK
  OBVIOUS
<1>1. <<NoConfig>> \in Seq(Objects) /\ <<NoConfig>> # << >>
  BY DEF Objects
<1>2. log \in Histories
  BY <1>1 DEF Init, Histories
<1> QED
  BY <1>2, LogTypes, FlagsAssumption, MaxDisturbancesAssumption DEF Init, Workers

LEMMA TypesKept == TypeOK /\ [Next]_vars => TypeOK'
<1> SUFFICES ASSUME TypeOK, [Next]_vars PROVE TypeOK'
  OBVIOUS
<1>0. log \in Histories /\ w \in Workers
  BY LogTypes
<1>1. ASSUME NEW n \in Names, Create(n) \/ Edit(n) \/ Delete(n) PROVE TypeOK'
  <2>1. PICK cr \in Objects : Store(n, cr)
    BY <1>1, UserMoves
  <2>2. log' \in Histories
    BY <1>0, <2>1, AppendVersion DEF Store
  <2> QED
    BY <1>1, <2>1, <2>2, StoreMoves, UserMoves DEF TypeOK, Store, Histories, Objects
<1>2. CASE Flip
  BY <1>2 DEF Flip, Disturb, TypeOK
<1>3. ASSUME NEW n \in Names, Observe(n) \/ Relist(n) PROVE TypeOK'
  <2>1. PICK k \in 2..Len(log[n]) : Deliver(n, k)
    BY <1>3, DeliveryMoves
  <2>2. k \in 1..Len(log[n])
    BY <2>1, <1>0, VersionTypes
  <2>3. log' \in Histories
    BY <1>0, <2>1, <2>2, DropVersions DEF Deliver
  <2> QED
    BY <1>3, <2>1, <2>3, DeliveryMoves DEF TypeOK, Deliver, Histories, Objects
<1>4. ASSUME NEW n \in Names, Fire(n) PROVE TypeOK'
  BY <1>4 DEF Fire, TypeOK
<1>5. CASE Restart
  BY <1>5, FlagsAssumption DEF Restart, Disturb, TypeOK, Workers
<1>6. ASSUME NEW n \in Names, Get(n) PROVE TypeOK'
  BY <1>6, GetMoves DEF TypeOK
<1>7. ASSUME NEW n \in Names, GetFails(n) PROVE TypeOK'
  BY <1>7 DEF GetFails, Disturb, TypeOK
<1>8. CASE SetPaused
  BY <1>0, <1>8, SetPausedMoves, BusyTypes DEF TypeOK
<1>9. CASE ProviderHealthRead
  BY <1>9, ProviderHealthReadMoves DEF TypeOK
<1>10. CASE WriteStatus \/ WriteStatusFails
  <2>1. log' \in Histories
    BY <1>0, <1>10, WriteMoves, AppendVersion
  <2> QED
    BY <1>10, <2>1, WriteMoves DEF TypeOK, Workers, Histories, Objects
<1>11. ASSUME NEW v \in BOOLEAN, LateService(v) PROVE TypeOK'
  BY <1>11 DEF LateService, TypeOK
<1>12. CASE UNCHANGED vars
  BY <1>12 DEF vars, TypeOK
<1> QED
  BY <1>1, <1>2, <1>3, <1>4, <1>5, <1>6, <1>7, <1>8, <1>9, <1>10, <1>11, <1>12
     DEF Next, User, ControllerRuntime, Worker

\* Every reachable state is well typed, whatever the control plane answers and
\* whatever is flipped, served late, relisted or restarted.
THEOREM TypeCorrect == Spec => []TypeOK
<1>1. Init => TypeOK
  BY InitTypes
<1>2. TypeOK /\ [Next]_vars => TypeOK'
  BY TypesKept
<1> QED
  BY <1>1, <1>2, PTL DEF Spec

-----------------------------------------------------------------------------
(* The invariants the proofs need beyond what the properties say.          *)

\* No version, stored or copied, claims to know a later generation than its own.
ObservedInThePast ==
    /\ \A n \in Names : \A k \in 1..Len(log[n]) :
          log[n][k].status.observedGeneration <= log[n][k].generation
    /\ w.at # "idle" => w.cr.status.observedGeneration <= w.cr.generation

\* A copy that could be written back is the only version the informer has left
\* to show, up to its status.
FreshCopy ==
    w.at # "idle" /\ w.fresh =>
        /\ Len(log[w.name]) = 1
        /\ w.cr = [Current(w.name) EXCEPT !.status = w.cr.status]

\* Once the current version is ready for its generation, the cache holds no
\* version with another word on the switch, and neither does the worker.
ReadyIsOld ==
    \A n \in Names : ReadyFor(Current(n)) =>
        /\ \A k \in 1..Len(log[n]) : log[n][k].paused = Current(n).paused
        /\ w.at # "idle" /\ w.name = n => w.cr.paused = Current(n).paused

\* The worker is past a confirmed push while it reads health, and with a
\* Ready=True to write.
PushConfirmed ==
    \/ w.at = "providerHealth"
    \/ w.at = "writeStatus" /\ w.cr.status.ready = "True"
PushedBeforeReady == PushConfirmed => serverPaused = w.cr.paused

\* Only for an object it answers to does the worker get that far.
OnlyTheSingletonPushes == w.at = "setPaused" \/ PushConfirmed => Governs(w.name)

\* The worker's copies are in step with the objects: inductive whoever else
\* moves the switch.
CopyInv ==
    /\ TypeOK
    /\ ObservedInThePast
    /\ FreshCopy
    /\ ReadyIsOld
    /\ OnlyTheSingletonPushes

\* The switch is where the worker confirmed it and where Ready=True says it is.
SwitchMatches ==
    /\ ReadyMeansSwitchMatches
    /\ PushedBeforeReady

\* The inductive invariant behind ReadyMeansSwitchMatches.
SwitchInv ==
    /\ CopyInv
    /\ SwitchMatches
    /\ late = {}

\* The singleton is never told that it governs nothing, and every status that
\* is written says something.
WrittenStatusSpeaks ==
    w.at = "writeStatus" =>
        /\ w.cr.status.ready # "none"
        /\ Governs(w.name) => w.cr.status.reason # "NotTheConfiguredSingleton"

\* An update the predicate drops is a status write, so what it brings has a
\* status.
DroppedUpdatesSpeak ==
    \A n \in Names : \A k \in 1..Len(log[n]) - 1 :
        log[n][k].exists /\ ~Wakes(log[n][k], log[n][k + 1]) => log[n][k + 1].status.ready # "none"

\* The inductive invariant behind SingletonAlwaysDue and NoSilentConfig.
DueInv ==
    /\ TypeOK
    /\ SingletonAlwaysDue
    /\ WrittenStatusSpeaks
    /\ DroppedUpdatesSpeak
    /\ ~WatchGaps => NoSilentConfig

\* What is stored, copied or under way for a singleton is a word of its own.
AskedInv ==
    /\ TypeOK
    /\ \A n \in Names : Governs(n) =>
          \A k \in 1..Len(log[n]) : log[n][k].exists => log[n][k].paused \in asked
    /\ w.at # "idle" /\ Governs(w.name) => w.cr.paused \in asked
    /\ w.at = "setPaused" => Governs(w.name)
    /\ late \subseteq asked

\* The worker's copy has the stored entries, or those of a completed read.
Entries(worker, current) ==
    \/ worker.cr.status.providerHealth = current.status.providerHealth
    \/ /\ worker.at = "writeStatus"
       /\ ReadyFor(worker.cr)
       /\ worker.cr.status.healthKnown = IF SomeUnknown(worker.cr.status) THEN "False" ELSE "True"

\* The inductive invariant behind HealthOnlyFromRead.
HealthInv ==
    /\ TypeOK
    /\ FreshCopy
    /\ \A n \in Names : w.at # "idle" /\ w.fresh /\ w.name = n => Entries(w, Current(n))

-----------------------------------------------------------------------------
(* Something always leads back to an object. *)

\* A new version keeps what dropped updates bring, if it is one that wakes the
\* controller or has a status.
LEMMA AppendSpeaks ==
    ASSUME log \in Histories, DroppedUpdatesSpeak, NEW n \in Names, NEW cr \in Objects,
           log' = [log EXCEPT ![n] = Append(@, cr)],
           Current(n).exists /\ ~Wakes(Current(n), cr) => cr.status.ready # "none"
    PROVE  DroppedUpdatesSpeak'
<1>1. /\ Len(log'[n]) = Len(log[n]) + 1 /\ Len(log[n]) \in Nat \ {0}
      /\ \A k \in 1..Len(log[n]) : log'[n][k] = log[n][k]
      /\ log'[n][Len(log[n]) + 1] = cr
      /\ \A m \in Names \ {n} : log'[m] = log[m]
  BY AppendVersion, VersionTypes
<1>2. ASSUME NEW k \in 1..Len(log'[n]) - 1, log'[n][k].exists, ~Wakes(log'[n][k], log'[n][k + 1])
      PROVE  log'[n][k + 1].status.ready # "none"
  <2>1. CASE k = Len(log[n])
    BY <1>1, <1>2, <2>1 DEF Current
  <2>2. CASE k \in 1..Len(log[n]) - 1
    <3>1. log'[n][k] = log[n][k] /\ log'[n][k + 1] = log[n][k + 1]
      BY <1>1, <2>2
    <3> QED
      BY <1>2, <2>2, <3>1 DEF DroppedUpdatesSpeak
  <2> QED
    BY <1>1, <2>1, <2>2
<1> QED
  BY <1>1, <1>2 DEF DroppedUpdatesSpeak, Wakes

LEMMA DropSpeaks ==
    ASSUME log \in Histories, DroppedUpdatesSpeak, NEW n \in Names, NEW k \in 1..Len(log[n]),
           log' = [log EXCEPT ![n] = SubSeq(@, k, Len(@))]
    PROVE  DroppedUpdatesSpeak'
<1>1. /\ Len(log'[n]) = Len(log[n]) - k + 1 /\ Len(log[n]) \in Nat
      /\ \A i \in 1..Len(log'[n]) : log'[n][i] = log[n][i + k - 1]
      /\ \A m \in Names \ {n} : log'[m] = log[m]
  BY DropVersions, VersionTypes
<1>2. ASSUME NEW i \in 1..Len(log'[n]) - 1, log'[n][i].exists, ~Wakes(log'[n][i], log'[n][i + 1])
      PROVE  log'[n][i + 1].status.ready # "none"
  <2>1. log'[n][i] = log[n][i + k - 1] /\ log'[n][i + 1] = log[n][(i + k - 1) + 1]
    BY <1>1
  <2>2. i + k - 1 \in 1..Len(log[n]) - 1
    BY <1>1
  <2> QED
    BY <1>2, <2>1, <2>2 DEF DroppedUpdatesSpeak
<1> QED
  BY <1>1, <1>2 DEF DroppedUpdatesSpeak, Wakes

LEMMA DueKept == DueInv /\ [Next]_vars => DueInv'
<1> SUFFICES ASSUME DueInv, [Next]_vars PROVE DueInv'
  OBVIOUS
<1>1. /\ TypeOK /\ TypeOK' /\ log \in Histories /\ w \in Workers
      /\ \A n \in Names : Governs(n) /\ Cached(n).exists => Due(n)
      /\ WrittenStatusSpeaks /\ DroppedUpdatesSpeak
  BY TypesKept, LogTypes DEF DueInv, SingletonAlwaysDue
<1>2. ASSUME ~WatchGaps, NEW n \in Names, Cached(n).exists, Len(log[n]) = 1, Cached(n).status.ready = "none"
      PROVE  Due(n)
  BY <1>2 DEF DueInv, NoSilentConfig
<1>3. w.at = "idle" => w = Idle /\ w.name \notin Names
  BY <1>1, NamesAssumption DEF Workers, Idle
<1>4. ASSUME UNCHANGED log, \A n \in Names : Due(n) => Due(n)', WrittenStatusSpeaks'
      PROVE  DueInv'
  BY <1>1, <1>2, <1>4 DEF DueInv, SingletonAlwaysDue, NoSilentConfig, DroppedUpdatesSpeak, Cached, Wakes
<1>5. ASSUME NEW n \in Names, Create(n) \/ Edit(n) \/ Delete(n) PROVE DueInv'
  <2>1. PICK cr \in Objects : Store(n, cr) /\ Written(n, cr)
    BY <1>1, <1>5, UserMoves
  <2>2. /\ \A m \in Names \ {n} : log'[m] = log[m]
        /\ Len(log'[n]) # 1 /\ Cached(n)' = Cached(n)
    <3>1. /\ \A m \in Names \ {n} : log'[m] = log[m]
          /\ Len(log'[n]) = Len(log[n]) + 1 /\ Len(log[n]) \in Nat \ {0} /\ Cached(n)' = Cached(n)
      BY <1>1, <2>1, AppendVersion, VersionTypes DEF Store
    <3>2. Len(log'[n]) # 1
      BY <3>1
    <3> QED
      BY <3>1, <3>2
  <2>3. w'.at = w.at /\ w'.name = w.name /\ w'.cr = w.cr /\ queue' = queue /\ delayed' = delayed
    BY <1>1, <2>1, StoreMoves DEF Store
  <2>4. ASSUME Current(n).exists PROVE Wakes(Current(n), cr)
    <3>1. Current(n).generation \in Nat
      BY <1>1, <2>4, VersionTypes DEF Configs
    <3>2. CASE cr.exists
      <4>1. cr.generation = Current(n).generation + 1
        BY <2>1, <2>4, <3>2 DEF Written
      <4> QED
        BY <3>1, <4>1 DEF Wakes
    <3>3. CASE ~cr.exists
      BY <2>4, <3>3 DEF Wakes
    <3> QED
      BY <3>2, <3>3
  <2>5. DroppedUpdatesSpeak'
    BY <1>1, <2>1, <2>4, AppendSpeaks DEF Store
  <2>6. WrittenStatusSpeaks' /\ \A m \in Names : Due(m)' <=> Due(m)
    BY <1>1, <2>3 DEF WrittenStatusSpeaks, Due
  <2>7. SingletonAlwaysDue'
    BY <1>1, <2>2, <2>6 DEF SingletonAlwaysDue, Cached
  <2>8. ASSUME ~WatchGaps, NEW m \in Names, Cached(m)'.exists, Len(log'[m]) = 1, Cached(m)'.status.ready = "none"
        PROVE  Due(m)'
    <3>1. m # n
      BY <2>2, <2>8
    <3> QED
      BY <1>2, <2>2, <2>6, <2>8, <3>1 DEF Cached
  <2> QED
    BY <1>1, <2>5, <2>6, <2>7, <2>8 DEF DueInv, NoSilentConfig
<1>6. CASE Flip
  BY <1>1, <1>4, <1>6 DEF Flip, Due, WrittenStatusSpeaks
<1>7. ASSUME NEW n \in Names, Observe(n) \/ Relist(n) PROVE DueInv'
  <2>1. PICK k \in 2..Len(log[n]) : Deliver(n, k) /\ (k = 2 \/ WatchGaps)
    BY <1>1, <1>7, DeliveryMoves
  <2>2. Len(log[n]) \in Nat \ {0} /\ k \in 1..Len(log[n])
    BY <1>1, <2>1, VersionTypes
  <2>3. Cached(n)' = log[n][k] /\ \A m \in Names \ {n} : log'[m] = log[m]
    BY <1>1, <2>1, <2>2, DropVersions DEF Deliver
  <2>4. w' = w /\ delayed' = delayed /\ queue \subseteq queue' /\ (Wakes(Cached(n), log[n][k]) => n \in queue')
    BY <2>1 DEF Deliver
  <2>5. DroppedUpdatesSpeak'
    BY <1>1, <2>1, <2>2, DropSpeaks DEF Deliver
  <2>6. WrittenStatusSpeaks' /\ \A m \in Names : Due(m) => Due(m)'
    BY <1>1, <2>4 DEF WrittenStatusSpeaks, Due
  <2>7. Wakes(Cached(n), log[n][k]) => Due(n)'
    BY <2>4 DEF Due
  <2>8. ~Wakes(Cached(n), log[n][k]) => (Cached(n).exists <=> log[n][k].exists)
    BY DEF Wakes
  <2>9. SingletonAlwaysDue'
    BY <1>1, <2>3, <2>6, <2>7, <2>8 DEF SingletonAlwaysDue, Cached
  <2>10. ASSUME ~WatchGaps, log[n][k].exists, ~Wakes(Cached(n), log[n][k]) PROVE log[n][k].status.ready # "none"
    <3>1. k = 1 + 1 /\ 1 \in 1..Len(log[n]) - 1
      BY <2>1, <2>2, <2>10
    <3> QED
      BY <1>1, <2>8, <2>10, <3>1 DEF DroppedUpdatesSpeak, Cached
  <2>11. ~WatchGaps => NoSilentConfig'
    BY <1>2, <2>3, <2>6, <2>7, <2>10 DEF NoSilentConfig, Cached
  <2> QED
    BY <1>1, <2>5, <2>6, <2>9, <2>11 DEF DueInv
<1>8. ASSUME NEW n \in Names, Fire(n) PROVE DueInv'
  BY <1>1, <1>4, <1>8 DEF Fire, Due, WrittenStatusSpeaks
<1>9. CASE Restart
  <2>1. /\ log' = log /\ queue' = {n \in Names : Cached(n).exists} /\ w' = Idle
    BY <1>9 DEF Restart
  <2>2. \A n \in Names : Cached(n).exists => Due(n)'
    BY <2>1 DEF Due
  <2>3. WrittenStatusSpeaks' /\ DroppedUpdatesSpeak'
    BY <1>1, <2>1 DEF WrittenStatusSpeaks, DroppedUpdatesSpeak, Idle, Wakes
  <2> QED
    BY <1>1, <2>1, <2>2, <2>3 DEF DueInv, SingletonAlwaysDue, NoSilentConfig, Cached
<1>10. ASSUME NEW n \in Names, Get(n) PROVE DueInv'
  <2>1. log' = log /\ delayed' = delayed /\ queue' = queue \ {n} /\ w.at = "idle"
    BY <1>1, <1>10, GetMoves
  <2>2. \A m \in Names \ {n} : Due(m) => Due(m)'
    BY <1>3, <2>1 DEF Due
  <2>3. Cached(n).exists => Due(n)'
    BY <1>1, <1>10, GetMoves DEF Due
  <2>4. WrittenStatusSpeaks'
    <3>1. \/ w' = Idle
          \/ w'.at = "setPaused"
          \/ w'.name = n /\ ~Governs(n) /\ w'.cr.status.ready = "False"
      BY <1>1, <1>10, GetMoves
    <3> QED
      BY <3>1 DEF WrittenStatusSpeaks, Idle
  <2>5. DroppedUpdatesSpeak'
    BY <1>1, <2>1 DEF DroppedUpdatesSpeak, Wakes
  <2>6. SingletonAlwaysDue' /\ (~WatchGaps => NoSilentConfig')
    BY <1>1, <1>2, <2>1, <2>2, <2>3 DEF SingletonAlwaysDue, NoSilentConfig, Cached
  <2> QED
    BY <1>1, <2>4, <2>5, <2>6 DEF DueInv
<1>11. ASSUME NEW n \in Names, GetFails(n) PROVE DueInv'
  BY <1>1, <1>4, <1>11 DEF GetFails, Due, WrittenStatusSpeaks
<1>12. CASE SetPaused
  <2>1. UNCHANGED <<log, queue, delayed>> /\ w'.name = w.name
    BY <1>1, <1>12, SetPausedMoves, BusyTypes DEF Refused, StatusSet
  <2>2. WrittenStatusSpeaks'
    BY <1>1, <1>12, SetPausedMoves, BusyTypes DEF Refused, WrittenStatusSpeaks
  <2> QED
    BY <1>4, <2>1, <2>2 DEF Due
<1>13. CASE ProviderHealthRead
  <2>1. UNCHANGED <<log, queue, delayed>> /\ w'.name = w.name /\ WrittenStatusSpeaks'
    BY <1>1, <1>13, ProviderHealthReadMoves DEF Refused, Confirmed, StatusSet, WrittenStatusSpeaks
  <2> QED
    BY <1>4, <2>1 DEF Due
<1>14. CASE WriteStatus \/ WriteStatusFails
  <2>1. w.at = "writeStatus" /\ w' = Idle /\ queue' = queue /\ w.cr \in Objects
    BY <1>1, <1>14, WriteMoves
  <2>2. PICK n \in Names : n = w.name
    BY <1>1, <1>14, WriteMoves
  <2>3. w.cr.status.ready # "none" /\ (Governs(n) => w.cr.status.reason # "NotTheConfiguredSingleton")
    BY <1>1, <2>1, <2>2 DEF WrittenStatusSpeaks
  <2>4. \A m \in Names \ {n} : Due(m) => Due(m)'
    BY <1>1, <1>14, <2>2, WriteMoves DEF Due
  <2>5. Governs(n) => Due(n)'
    BY <1>1, <1>14, <2>2, <2>3, WriteMoves DEF Due
  <2>6. WrittenStatusSpeaks'
    BY <2>1 DEF WrittenStatusSpeaks, Idle
  <2>7. CASE log' = [log EXCEPT ![w.name] = Append(@, w.cr)]
    <3>1. log' = [log EXCEPT ![n] = Append(@, w.cr)]
      BY <2>2, <2>7
    <3>2. /\ \A m \in Names \ {n} : log'[m] = log[m]
          /\ Len(log'[n]) # 1 /\ Cached(n)' = Cached(n)
      <4>1. /\ \A m \in Names \ {n} : log'[m] = log[m]
            /\ Len(log'[n]) = Len(log[n]) + 1 /\ Len(log[n]) \in Nat \ {0} /\ Cached(n)' = Cached(n)
        BY <1>1, <2>1, <3>1, AppendVersion, VersionTypes
      <4>2. Len(log'[n]) # 1
        BY <4>1
      <4> QED
        BY <4>1, <4>2
    <3>3. DroppedUpdatesSpeak'
      BY <1>1, <2>1, <2>3, <3>1, AppendSpeaks
    <3>4. SingletonAlwaysDue'
      BY <1>1, <2>4, <2>5, <3>2 DEF SingletonAlwaysDue, Cached
    <3>5. ASSUME ~WatchGaps, NEW m \in Names, Cached(m)'.exists, Len(log'[m]) = 1, Cached(m)'.status.ready = "none"
          PROVE  Due(m)'
      <4>1. m # n
        BY <3>2, <3>5
      <4> QED
        BY <1>2, <2>4, <3>2, <3>5, <4>1 DEF Cached
    <3> QED
      BY <1>1, <2>6, <3>3, <3>4, <3>5 DEF DueInv, NoSilentConfig
  <2>8. CASE UNCHANGED log
    <3>1. Due(n)' \/ w.cr = Current(n)
      BY <1>1, <1>14, <2>2, <2>8, WriteMoves DEF Due
    <3>2. Len(log[n]) = 1 /\ Cached(n).status.ready = "none" => Due(n)'
      BY <2>3, <3>1 DEF Current, Cached
    <3>3. SingletonAlwaysDue'
      BY <1>1, <2>4, <2>5, <2>8 DEF SingletonAlwaysDue, Cached
    <3>4. DroppedUpdatesSpeak'
      BY <1>1, <2>8 DEF DroppedUpdatesSpeak, Wakes
    <3>5. ASSUME ~WatchGaps, NEW m \in Names, Cached(m)'.exists, Len(log'[m]) = 1, Cached(m)'.status.ready = "none"
          PROVE  Due(m)'
      <4>1. CASE m = n
        BY <2>8, <3>2, <3>5, <4>1 DEF Cached
      <4>2. CASE m # n
        BY <1>2, <2>4, <2>8, <3>5, <4>2 DEF Cached
      <4> QED
        BY <4>1, <4>2
    <3> QED
      BY <1>1, <2>6, <3>3, <3>4, <3>5 DEF DueInv, NoSilentConfig
  <2> QED
    BY <1>1, <1>14, <2>7, <2>8, WriteMoves
<1>15. ASSUME NEW v \in BOOLEAN, LateService(v) PROVE DueInv'
  BY <1>1, <1>4, <1>15 DEF LateService, Due, WrittenStatusSpeaks
<1>16. CASE UNCHANGED vars
  BY <1>1, <1>4, <1>16 DEF vars, Due, WrittenStatusSpeaks
<1> QED
  BY <1>5, <1>6, <1>7, <1>8, <1>9, <1>10, <1>11, <1>12, <1>13, <1>14, <1>15, <1>16
     DEF Next, User, ControllerRuntime, Worker

LEMMA DueAlways == Spec => []DueInv
<1>1. Init => DueInv
  <2> SUFFICES ASSUME Init PROVE DueInv
    OBVIOUS
  <2>1. TypeOK
    BY InitTypes
  <2>2. \A n \in Names : log[n] = <<NoConfig>> /\ Len(log[n]) = 1 /\ ~Cached(n).exists
    BY DEF Init, Cached, NoConfig
  <2> QED
    BY <2>1, <2>2 DEF Init, Idle, DueInv, SingletonAlwaysDue, WrittenStatusSpeaks, DroppedUpdatesSpeak, NoSilentConfig
<1> QED
  BY <1>1, DueKept, PTL DEF Spec

\* Whatever is created, relisted, restarted, refused or lost, the singleton the
\* cache holds is queued, on a timer or being worked on.
THEOREM SingletonIsDue == Spec => []SingletonAlwaysDue
<1>1. DueInv => SingletonAlwaysDue
  BY DEF DueInv
<1> QED
  BY <1>1, DueAlways, PTL

\* While the informer never loses its watch, an object without a status that the
\* cache is up to date with is queued, on a timer or being worked on.
THEOREM NobodyIsSilent == ASSUME ~WatchGaps PROVE Spec => []NoSilentConfig
<1>1. DueInv => NoSilentConfig
  BY DEF DueInv
<1> QED
  BY <1>1, DueAlways, PTL

-----------------------------------------------------------------------------
(* Only a word of the singleton moves the switch. *)

LEMMA AppendWords ==
    ASSUME AskedInv, NEW n \in Names, NEW cr \in Objects,
           log' = [log EXCEPT ![n] = Append(@, cr)], asked \subseteq asked',
           Governs(n) /\ cr.exists => cr.paused \in asked'
    PROVE  \A m \in Names : Governs(m) =>
              \A k \in 1..Len(log'[m]) : log'[m][k].exists => log'[m][k].paused \in asked'
<1>1. /\ Len(log'[n]) = Len(log[n]) + 1 /\ Len(log[n]) \in Nat \ {0}
      /\ \A k \in 1..Len(log[n]) : log'[n][k] = log[n][k]
      /\ log'[n][Len(log[n]) + 1] = cr
      /\ \A m \in Names \ {n} : log'[m] = log[m]
  BY AppendVersion, VersionTypes, LogTypes DEF AskedInv
<1>2. ASSUME Governs(n), NEW k \in 1..Len(log'[n]), log'[n][k].exists PROVE log'[n][k].paused \in asked'
  <2>1. CASE k = Len(log[n]) + 1
    BY <1>1, <1>2, <2>1
  <2>2. CASE k \in 1..Len(log[n])
    BY <1>1, <1>2, <2>2 DEF AskedInv
  <2> QED
    BY <1>1, <2>1, <2>2
<1>3. ASSUME NEW m \in Names \ {n}, Governs(m), NEW k \in 1..Len(log'[m]), log'[m][k].exists
      PROVE  log'[m][k].paused \in asked'
  BY <1>1, <1>3 DEF AskedInv
<1> QED
  BY <1>2, <1>3

\* What a pass pushes was read from a version of the singleton.
LEMMA AskedKept == AskedInv /\ [Next]_vars => AskedInv'
<1> SUFFICES ASSUME AskedInv, [Next]_vars PROVE AskedInv'
  OBVIOUS
<1>1. TypeOK /\ TypeOK' /\ log \in Histories /\ w \in Workers
  BY TypesKept, LogTypes DEF AskedInv
<1>2. ASSUME UNCHANGED <<log, asked>>, late' \subseteq asked,
             w'.at # "idle" /\ Governs(w'.name) => w'.cr.paused \in asked,
             w'.at = "setPaused" => Governs(w'.name)
      PROVE  AskedInv'
  BY <1>1, <1>2 DEF AskedInv, Governs
<1>3. ASSUME NEW n \in Names, Create(n) \/ Edit(n) \/ Delete(n) PROVE AskedInv'
  <2>1. PICK cr \in Objects : Store(n, cr) /\ Written(n, cr)
    BY <1>1, <1>3, UserMoves
  <2>2. asked \subseteq asked' /\ (Governs(n) /\ cr.exists => cr.paused \in asked') /\ late' = late
    BY <2>1 DEF Written, Store
  <2>3. w'.at = w.at /\ w'.name = w.name /\ w'.cr = w.cr
    BY <1>1, <2>1, StoreMoves
  <2> QED
    BY <1>1, <2>1, <2>2, <2>3, AppendWords DEF AskedInv, Store, Governs
<1>4. CASE Flip
  BY <1>2, <1>4 DEF Flip, AskedInv
<1>5. ASSUME NEW n \in Names, Observe(n) \/ Relist(n) PROVE AskedInv'
  <2>1. PICK k \in 2..Len(log[n]) : Deliver(n, k)
    BY <1>1, <1>5, DeliveryMoves
  <2>2. k \in 1..Len(log[n])
    BY <1>1, <2>1, VersionTypes
  <2>3. /\ \A i \in 1..Len(log'[n]) : log'[n][i] = log[n][i + k - 1] /\ i + k - 1 \in 1..Len(log[n])
        /\ \A m \in Names \ {n} : log'[m] = log[m]
    BY <1>1, <2>1, <2>2, DropVersions DEF Deliver
  <2>4. asked' = asked /\ w' = w /\ late' = late
    BY <2>1 DEF Deliver
  <2>5. ASSUME NEW m \in Names, Governs(m), NEW i \in 1..Len(log'[m]), log'[m][i].exists
        PROVE  log'[m][i].paused \in asked
    <3>1. CASE m = n
      BY <2>3, <2>5, <3>1 DEF AskedInv
    <3>2. CASE m # n
      BY <2>3, <2>5, <3>2 DEF AskedInv
    <3> QED
      BY <3>1, <3>2
  <2> QED
    BY <1>1, <2>4, <2>5 DEF AskedInv, Governs
<1>6. ASSUME NEW n \in Names, Fire(n) \/ GetFails(n) PROVE AskedInv'
  BY <1>2, <1>6 DEF Fire, GetFails, AskedInv
<1>7. CASE Restart
  BY <1>2, <1>7 DEF Restart, AskedInv, Idle
<1>8. ASSUME NEW n \in Names, Get(n) PROVE AskedInv'
  <2>1. UNCHANGED <<log, late, asked>>
    BY <1>1, <1>8, GetMoves
  <2>2. CASE w' = Idle
    BY <1>2, <2>1, <2>2 DEF AskedInv, Idle
  <2>3. CASE /\ w'.name = n /\ Cached(n).exists
             /\ w'.cr = [Cached(n) EXCEPT !.status = w'.cr.status]
             /\ w'.at = "setPaused" => Governs(n)
    <3>1. Cached(n) \in Configs /\ 1 \in 1..Len(log[n])
      BY <1>1, <2>3, VersionTypes
    <3>2. w'.cr.paused = Cached(n).paused
      BY <2>3, <3>1 DEF Configs
    <3>3. Governs(n) => Cached(n).paused \in asked
      BY <2>3, <3>1 DEF AskedInv, Cached
    <3> QED
      BY <1>2, <2>1, <2>3, <3>2, <3>3 DEF AskedInv
  <2> QED
    BY <1>1, <1>8, <2>2, <2>3, GetMoves
<1>9. CASE SetPaused
  <2>1. /\ w'.at # "setPaused" /\ w.at # "idle" /\ w'.name = w.name /\ w'.cr.paused = w.cr.paused
    BY <1>1, <1>9, SetPausedMoves, BusyTypes, StatusSetKeeps DEF Refused, StatusSet
  <2>2. Governs(w.name) /\ w.cr.paused \in asked
    BY <1>1, <1>9, SetPausedMoves DEF AskedInv
  <2>3. UNCHANGED <<log, asked>> /\ late' \subseteq asked
    BY <1>1, <1>9, <2>2, SetPausedMoves DEF AskedInv
  <2> QED
    BY <1>2, <2>1, <2>2, <2>3
<1>10. CASE ProviderHealthRead
  <2>1. /\ w'.at # "setPaused" /\ w.at # "idle" /\ w'.name = w.name /\ w'.cr.paused = w.cr.paused
    BY <1>1, <1>10, ProviderHealthReadMoves, StatusSetKeeps DEF Refused, Confirmed, StatusSet
  <2>2. UNCHANGED <<log, asked, late>>
    BY <1>1, <1>10, ProviderHealthReadMoves
  <2> QED
    BY <1>2, <2>1, <2>2 DEF AskedInv
<1>11. CASE WriteStatus \/ WriteStatusFails
  <2>1. w.at = "writeStatus" /\ w' = Idle /\ late' = late /\ asked' = asked /\ w.cr \in Objects
    BY <1>1, <1>11, WriteMoves
  <2>2. PICK n \in Names : n = w.name
    BY <1>1, <1>11, WriteMoves
  <2>3. CASE UNCHANGED log
    BY <1>2, <2>1, <2>3 DEF AskedInv, Idle
  <2>4. CASE log' = [log EXCEPT ![n] = Append(@, w.cr)]
    <3>1. Governs(n) => w.cr.paused \in asked
      BY <2>1, <2>2 DEF AskedInv
    <3>2. \A m \in Names : Governs(m) =>
              \A k \in 1..Len(log'[m]) : log'[m][k].exists => log'[m][k].paused \in asked'
      BY <2>1, <2>4, <3>1, AppendWords
    <3> QED
      BY <1>1, <2>1, <3>2 DEF AskedInv, Idle, Governs
  <2> QED
    BY <1>1, <1>11, <2>2, <2>3, <2>4, WriteMoves
<1>12. ASSUME NEW v \in BOOLEAN, LateService(v) PROVE AskedInv'
  BY <1>2, <1>12 DEF LateService, AskedInv
<1>13. CASE UNCHANGED vars
  BY <1>2, <1>13 DEF vars, AskedInv
<1> QED
  BY <1>3, <1>4, <1>5, <1>6, <1>7, <1>8, <1>9, <1>10, <1>11, <1>12, <1>13
     DEF Next, User, ControllerRuntime, Worker

LEMMA AskedAlways == Spec => []AskedInv
<1>1. Init => AskedInv
  <2> SUFFICES ASSUME Init PROVE AskedInv
    OBVIOUS
  <2>1. TypeOK
    BY InitTypes
  <2>2. \A n \in Names : Len(log[n]) = 1 /\ log[n][1].exists = FALSE
    BY DEF Init, NoConfig
  <2> QED
    BY <2>1, <2>2 DEF Init, Idle, AskedInv
<1> QED
  BY <1>1, AskedKept, PTL DEF Spec

\* Whatever fails, is relisted, restarted or served late, the switch is only
\* moved by an outsider or to a value that some singleton's spec has had.
THEOREM SingletonsWordAlone == Spec => OnlyTheSingletonsWord
<1>1. ASSUME AskedInv, [Next]_vars PROVE [serverPaused' # serverPaused => Flip \/ serverPaused' \in asked]_vars
  <2>1. TypeOK
    BY <1>1 DEF AskedInv
  <2>2. ASSUME SetPaused PROVE serverPaused' \in {serverPaused} \cup asked
    BY <1>1, <2>1, <2>2, SetPausedMoves DEF AskedInv
  <2>3. ASSUME NEW v \in BOOLEAN, LateService(v) PROVE serverPaused' \in asked
    BY <1>1, <2>3 DEF LateService, AskedInv
  <2>4. ASSUME NEW n \in Names, Create(n) \/ Edit(n) \/ Delete(n) PROVE UNCHANGED serverPaused
    BY <2>4 DEF Create, Edit, Delete, Store
  <2>5. ASSUME NEW n \in Names, Observe(n) \/ Relist(n) \/ Fire(n) PROVE UNCHANGED serverPaused
    BY <2>5 DEF Observe, Relist, Deliver, Fire
  <2>6. ASSUME Restart \/ ProviderHealthRead \/ WriteStatus \/ WriteStatusFails PROVE UNCHANGED serverPaused
    BY <2>6 DEF Restart, ProviderHealthRead, WriteStatus, WriteStatusFails
  <2>7. ASSUME NEW n \in Names, Get(n) \/ GetFails(n) PROVE UNCHANGED serverPaused
    BY <2>7 DEF Get, GetFails
  <2>8. CASE UNCHANGED vars
    BY <2>8 DEF vars
  <2> QED
    BY <1>1, <2>2, <2>3, <2>4, <2>5, <2>6, <2>7, <2>8 DEF Next, User, ControllerRuntime, Worker
<1> QED
  BY <1>1, AskedAlways, PTL DEF Spec, OnlyTheSingletonsWord

-----------------------------------------------------------------------------
(* Only a completed read changes the health entries. *)

\* The copy of a pass follows the object as long as it can be written back.
LEMMA FreshKept == TypeOK /\ FreshCopy /\ [Next]_vars => FreshCopy'
<1> SUFFICES ASSUME TypeOK, FreshCopy, [Next]_vars PROVE FreshCopy'
  OBVIOUS
<1>1. TypeOK' /\ log \in Histories /\ w \in Workers /\ w' \in Workers
  <2>1. TypeOK' /\ TypeOK
    BY TypesKept
  <2> QED
    BY <2>1, LogTypes DEF TypeOK
<1>2. CASE w' = Idle
  BY <1>2 DEF FreshCopy, Idle
<1>3. ASSUME UNCHANGED log, w' = w \/ (w' = [w EXCEPT !.at = "providerHealth"] /\ w.at # "idle") PROVE FreshCopy'
  <2>1. CASE w' = w
    BY <1>3, <2>1 DEF FreshCopy, Current
  <2>2. CASE w' = [w EXCEPT !.at = "providerHealth"] /\ w.at # "idle"
    <3>1. w'.name = w.name /\ w'.cr = w.cr /\ w'.fresh = w.fresh
      BY <1>1, <2>2, BusyTypes
    <3> QED
      BY <1>3, <2>2, <3>1 DEF FreshCopy, Current
  <2> QED
    BY <1>3, <2>1, <2>2
<1>4. ASSUME UNCHANGED log, w.at # "idle", StatusSet PROVE FreshCopy'
  <2>1. ASSUME w.fresh PROVE w'.cr = [Current(w.name) EXCEPT !.status = w'.cr.status]
    <3>1. w.cr \in Configs /\ w.name \in Names /\ w'.cr = [w.cr EXCEPT !.status = w'.cr.status]
      BY <1>1, <1>4, BusyTypes DEF StatusSet
    <3>2. Current(w.name) \in Objects /\ w.cr = [Current(w.name) EXCEPT !.status = w.cr.status]
      BY <1>1, <1>4, <2>1, <3>1, VersionTypes DEF FreshCopy
    <3>3. ASSUME NEW c \in Objects, NEW s, NEW t
          PROVE  [[c EXCEPT !.status = s] EXCEPT !.status = t] = [c EXCEPT !.status = t]
      BY DEF Objects, Configs, NoConfig
    <3> QED
      BY <3>1, <3>2, <3>3
  <2> QED
    BY <1>4, <2>1 DEF FreshCopy, StatusSet, Current
<1>5. ASSUME NEW n \in Names, Create(n) \/ Edit(n) \/ Delete(n) PROVE FreshCopy'
  <2>1. PICK cr \in Objects : Store(n, cr)
    BY <1>5, UserMoves
  <2>2. /\ w'.at = w.at /\ w'.name = w.name /\ w'.cr = w.cr
        /\ w'.fresh => w.fresh /\ w.name # n
    BY <2>1, StoreMoves
  <2>3. \A m \in Names \ {n} : log'[m] = log[m]
    BY <1>1, <2>1, AppendVersion DEF Store
  <2>4. w.at # "idle" => w.name \in Names
    BY <1>1, BusyTypes
  <2> QED
    BY <2>2, <2>3, <2>4 DEF FreshCopy, Current
<1>6. ASSUME NEW n \in Names, Observe(n) \/ Relist(n) PROVE FreshCopy'
  <2>1. PICK k \in 2..Len(log[n]) : Deliver(n, k)
    BY <1>6, DeliveryMoves
  <2>2. Len(log[n]) # 1 /\ k \in 1..Len(log[n])
    BY <1>1, <2>1, VersionTypes
  <2>3. w' = w /\ \A m \in Names \ {n} : log'[m] = log[m]
    BY <1>1, <2>1, <2>2, DropVersions DEF Deliver
  <2>4. w.at # "idle" => w.name \in Names
    BY <1>1, BusyTypes
  <2> QED
    BY <2>2, <2>3, <2>4 DEF FreshCopy, Current
<1>7. ASSUME NEW n \in Names, Get(n) PROVE FreshCopy'
  <2>1. CASE w' # Idle /\ w'.fresh
    <3>1. /\ w'.name = n /\ Len(log[n]) = 1 /\ log' = log
          /\ w'.cr = [Cached(n) EXCEPT !.status = w'.cr.status]
      BY <1>7, <2>1, GetMoves
    <3> QED
      BY <3>1 DEF FreshCopy, Current, Cached
  <2>2. CASE ~w'.fresh
    BY <2>2 DEF FreshCopy
  <2> QED
    BY <1>2, <2>1, <2>2
<1>8. ASSUME NEW n \in Names, Fire(n) \/ GetFails(n) PROVE FreshCopy'
  BY <1>3, <1>8 DEF Fire, GetFails
<1>9. CASE SetPaused
  BY <1>3, <1>4, <1>9, SetPausedMoves DEF Refused
<1>10. CASE ProviderHealthRead
  BY <1>4, <1>10, ProviderHealthReadMoves DEF Refused, Confirmed
<1>11. CASE WriteStatus \/ WriteStatusFails
  BY <1>2, <1>11, WriteMoves
<1>12. ASSUME Flip \/ (\E v \in BOOLEAN : LateService(v)) \/ UNCHANGED vars PROVE FreshCopy'
  BY <1>3, <1>12 DEF Flip, LateService, vars
<1>13. CASE Restart
  BY <1>2, <1>13 DEF Restart
<1> QED
  BY <1>5, <1>6, <1>7, <1>8, <1>9, <1>10, <1>11, <1>12, <1>13 DEF Next, User, ControllerRuntime, Worker

LEMMA HealthKept == HealthInv /\ [Next]_vars => HealthInv'
<1> SUFFICES ASSUME HealthInv, [Next]_vars PROVE HealthInv'
  OBVIOUS
<1>1. /\ TypeOK /\ TypeOK' /\ FreshCopy /\ FreshCopy' /\ log \in Histories /\ w \in Workers /\ w' \in Workers
  <2>1. TypeOK /\ TypeOK' /\ FreshCopy /\ FreshCopy'
    BY TypesKept, FreshKept DEF HealthInv
  <2> QED
    BY <2>1, LogTypes DEF TypeOK
<1>2. \A n \in Names : w.at # "idle" /\ w.fresh /\ w.name = n => Entries(w, Current(n))
  BY DEF HealthInv
<1>3. ASSUME \A n \in Names : w'.at # "idle" /\ w'.fresh /\ w'.name = n => Entries(w', Current(n)') PROVE HealthInv'
  BY <1>1, <1>3 DEF HealthInv, Entries, ReadyFor, SomeUnknown
<1>4. CASE w' = Idle
  BY <1>3, <1>4 DEF Idle
<1>5. ASSUME UNCHANGED log, w' = w PROVE HealthInv'
  BY <1>2, <1>3, <1>5 DEF Current
<1>6. ASSUME NEW n \in Names, Create(n) \/ Edit(n) \/ Delete(n) PROVE HealthInv'
  <2>1. PICK cr \in Objects : Store(n, cr)
    BY <1>1, <1>6, UserMoves
  <2>2. /\ w'.at = w.at /\ w'.name = w.name /\ w'.cr = w.cr
        /\ w'.fresh => w.fresh /\ w.name # n
    BY <1>1, <2>1, StoreMoves
  <2>3. \A m \in Names \ {n} : log'[m] = log[m]
    BY <1>1, <2>1, AppendVersion DEF Store
  <2>4. \A m \in Names \ {n} : Current(m)' = Current(m)
    BY <2>3 DEF Current
  <2> QED
    BY <1>2, <1>3, <2>2, <2>4 DEF Entries
<1>7. ASSUME NEW n \in Names, Observe(n) \/ Relist(n) PROVE HealthInv'
  <2>1. PICK k \in 2..Len(log[n]) : Deliver(n, k)
    BY <1>1, <1>7, DeliveryMoves
  <2>2. Len(log[n]) # 1 /\ k \in 1..Len(log[n])
    BY <1>1, <2>1, VersionTypes
  <2>3. w' = w /\ \A m \in Names \ {n} : log'[m] = log[m]
    BY <1>1, <2>1, <2>2, DropVersions DEF Deliver
  <2>4. \A m \in Names \ {n} : Current(m)' = Current(m)
    BY <2>3 DEF Current
  <2>5. w.at # "idle" /\ w.fresh => w.name # n
    BY <1>1, <2>2 DEF FreshCopy
  <2> QED
    BY <1>2, <1>3, <2>3, <2>4, <2>5
<1>8. ASSUME NEW n \in Names, Get(n) PROVE HealthInv'
  <2>1. CASE w' # Idle /\ w'.fresh
    <3>1. /\ w'.name = n /\ Len(log[n]) = 1 /\ log' = log
          /\ w'.cr.status.providerHealth = Cached(n).status.providerHealth
      BY <1>1, <1>8, <2>1, GetMoves
    <3> QED
      BY <1>3, <3>1 DEF Entries, Current, Cached
  <2>2. CASE ~w'.fresh
    BY <1>3, <2>2
  <2> QED
    BY <1>4, <2>1, <2>2
<1>9. ASSUME NEW n \in Names, Fire(n) \/ GetFails(n) PROVE HealthInv'
  BY <1>5, <1>9 DEF Fire, GetFails
<1>10. ASSUME w.at # "idle", w.at # "writeStatus", UNCHANGED log, Refused PROVE HealthInv'
  <2>1. /\ w'.name = w.name /\ w'.fresh = w.fresh
        /\ w'.cr.status.providerHealth = w.cr.status.providerHealth
    BY <1>10 DEF Refused, StatusSet
  <2> QED
    BY <1>2, <1>3, <1>10, <2>1 DEF Entries, Current
<1>11. CASE SetPaused
  <2>1. CASE w' = [w EXCEPT !.at = "providerHealth"]
    <3>1. w.at = "setPaused" /\ log' = log
      BY <1>1, <1>11, SetPausedMoves
    <3>2. w'.name = w.name /\ w'.cr = w.cr /\ w'.fresh = w.fresh
      BY <1>1, <2>1, <3>1, BusyTypes
    <3> QED
      BY <1>2, <1>3, <3>1, <3>2 DEF Entries, Current
  <2> QED
    BY <1>1, <1>10, <1>11, <2>1, SetPausedMoves
<1>12. CASE ProviderHealthRead
  <2>1. w.at = "providerHealth" /\ log' = log
    BY <1>1, <1>12, ProviderHealthReadMoves
  <2>2. CASE Confirmed
    <3>1. w'.cr.exists /\ w'.cr.generation = w.cr.generation
      BY <1>1, <2>1, <2>2, StatusSetKeeps DEF Confirmed
    <3>2. \A n \in Names : Entries(w', Current(n)')
      BY <2>2, <3>1 DEF Entries, Confirmed, StatusSet, ReadyFor
    <3> QED
      BY <1>3, <3>2
  <2> QED
    BY <1>1, <1>10, <1>12, <2>1, <2>2, ProviderHealthReadMoves
<1>13. CASE WriteStatus \/ WriteStatusFails
  BY <1>1, <1>4, <1>13, WriteMoves
<1>14. ASSUME Flip \/ (\E v \in BOOLEAN : LateService(v)) \/ UNCHANGED vars PROVE HealthInv'
  BY <1>5, <1>14 DEF Flip, LateService, vars
<1>15. CASE Restart
  BY <1>4, <1>15 DEF Restart
<1> QED
  BY <1>6, <1>7, <1>8, <1>9, <1>11, <1>12, <1>13, <1>14, <1>15 DEF Next, User, ControllerRuntime, Worker

LEMMA HealthAlways == Spec => []HealthInv
<1>1. Init => HealthInv
  <2> SUFFICES ASSUME Init PROVE HealthInv
    OBVIOUS
  <2>1. TypeOK /\ w = Idle
    BY InitTypes DEF Init
  <2> QED
    BY <2>1 DEF HealthInv, FreshCopy, Idle
<1> QED
  BY <1>1, HealthKept, PTL DEF Spec

\* No failure, restart, edit or stale copy fabricates or erases a verdict on a
\* provider: the entries change with a completed read of a confirmed pass only,
\* and ProviderHealthKnown then tells whether one of them is Unknown.
THEOREM VerdictsOnlyFromReads == Spec => HealthOnlyFromRead
<1> DEFINE Honest(old, new) ==
             old.exists /\ new.exists /\ new.status.providerHealth # old.status.providerHealth
             => /\ ReadyFor(new)
                /\ new.status.healthKnown = IF SomeUnknown(new.status) THEN "False" ELSE "True"
<1>1. ASSUME HealthInv, [Next]_vars, NEW m \in Names PROVE Honest(Current(m), Current(m)')
  <2>1. TypeOK /\ log \in Histories
    BY <1>1, LogTypes DEF HealthInv
  <2>2. CASE UNCHANGED log
    BY <2>2 DEF Current
  <2>3. ASSUME NEW n \in Names, Create(n) \/ Edit(n) \/ Delete(n) PROVE Honest(Current(m), Current(m)')
    <3>1. PICK cr \in Objects : Store(n, cr) /\ Written(n, cr)
      BY <2>1, <2>3, UserMoves
    <3>2. Current(n)' = cr /\ (m # n => Current(m)' = Current(m))
      <4>1. Current(n)' = cr /\ \A i \in Names \ {n} : log'[i] = log[i]
        BY <2>1, <3>1, AppendVersion DEF Store
      <4> QED
        BY <4>1 DEF Current
    <3>3. cr.exists /\ Current(n).exists => cr.status = Current(n).status
      BY <3>1 DEF Written
    <3> QED
      BY <3>2, <3>3
  <2>4. ASSUME NEW n \in Names, Observe(n) \/ Relist(n) PROVE Honest(Current(m), Current(m)')
    <3>1. PICK k \in 2..Len(log[n]) : Deliver(n, k)
      BY <2>1, <2>4, DeliveryMoves
    <3>2. k \in 1..Len(log[n])
      BY <2>1, <3>1, VersionTypes
    <3>3. Current(n)' = Current(n) /\ (m # n => Current(m)' = Current(m))
      BY <2>1, <3>1, <3>2, DropVersions DEF Deliver, Current
    <3> QED
      BY <3>3
  <2>5. CASE WriteStatus \/ WriteStatusFails
    <3>1. PICK n \in Names : n = w.name
      BY <2>1, <2>5, WriteMoves
    <3>2. CASE w.fresh /\ log' = [log EXCEPT ![n] = Append(@, w.cr)]
      <4>1. Current(n)' = w.cr /\ (m # n => Current(m)' = Current(m))
        BY <2>1, <2>5, <3>2, WriteMoves, AppendVersion DEF Current
      <4>2. Entries(w, Current(n))
        BY <1>1, <2>1, <2>5, <3>1, <3>2, WriteMoves DEF HealthInv, Entries
      <4> QED
        BY <4>1, <4>2 DEF Entries
    <3> QED
      BY <2>1, <2>2, <2>5, <3>1, <3>2, WriteMoves
  <2>6. ASSUME NEW n \in Names, Fire(n) \/ Get(n) \/ GetFails(n) PROVE UNCHANGED log
    BY <2>6 DEF Fire, Get, GetFails
  <2>7. ASSUME Flip \/ Restart \/ SetPaused \/ ProviderHealthRead \/ UNCHANGED vars PROVE UNCHANGED log
    BY <2>7 DEF Flip, Restart, SetPaused, ProviderHealthRead, vars
  <2>8. ASSUME NEW v \in BOOLEAN, LateService(v) PROVE UNCHANGED log
    BY <2>8 DEF LateService
  <2> HIDE DEF Honest
  <2> QED
    BY <1>1, <2>2, <2>3, <2>4, <2>5, <2>6, <2>7, <2>8 DEF Next, User, ControllerRuntime, Worker
<1>2. ASSUME HealthInv, [Next]_vars
      PROVE  [\A n \in Names :
                LET old == Current(n)
                    new == Current(n)'
                IN old.exists /\ new.exists /\ new.status.providerHealth # old.status.providerHealth
                   => /\ ReadyFor(new)
                      /\ new.status.healthKnown = IF SomeUnknown(new.status) THEN "False" ELSE "True"]_vars
  BY <1>1, <1>2
<1> QED
  BY <1>2, HealthAlways, PTL DEF Spec, HealthOnlyFromRead

-----------------------------------------------------------------------------
(* Ready=True means that the switch stands where the spec wants it.        *)

\* Every 200 to a push reports where the switch stands.  The code cannot tell
\* one that lacks the field from one that reports paused=false.
SwitchAnswersSpeak ==
    \A wire \in SwitchFaults : do(TRUE, wire).err = NoError => wire.body.shape = "paused"

\* The steps of Next in which nobody but the operator moves the switch.
OwnSteps ==
    \/ \E n \in Names : Create(n) \/ Edit(n) \/ Delete(n)
    \/ ControllerRuntime
    \/ Restart
    \/ Worker

\* A step as the switch and the objects see it.
LEMMA OwnMoves ==
    ASSUME TypeOK, [OwnSteps]_vars
    PROVE  \/ \E n \in Names, cr \in Objects : Store(n, cr) /\ Written(n, cr)
           \/ \E n \in Names : \E k \in 2..Len(log[n]) : Deliver(n, k)
           \/ \E n \in Names : Get(n)
           \/ SetPaused
           \/ ProviderHealthRead
           \/ WriteStatus \/ WriteStatusFails
           \/ w' \in {w, Idle} /\ UNCHANGED <<log, serverPaused, late, asked>>
<1>1. ASSUME NEW n \in Names, Create(n) \/ Edit(n) \/ Delete(n)
      PROVE  \E cr \in Objects : Store(n, cr) /\ Written(n, cr)
  BY <1>1, UserMoves
<1>2. ASSUME NEW n \in Names, Observe(n) \/ Relist(n) PROVE \E k \in 2..Len(log[n]) : Deliver(n, k)
  BY <1>2, DeliveryMoves
<1>3. ASSUME NEW n \in Names, Fire(n) \/ GetFails(n) PROVE w' = w /\ UNCHANGED <<log, serverPaused, late, asked>>
  BY <1>3 DEF Fire, GetFails
<1>4. ASSUME Restart PROVE w' = Idle /\ UNCHANGED <<log, serverPaused, late, asked>>
  BY <1>4 DEF Restart
<1>5. ASSUME UNCHANGED vars PROVE w' = w /\ UNCHANGED <<log, serverPaused, late, asked>>
  BY <1>5 DEF vars
<1> QED
  BY <1>1, <1>2, <1>3, <1>4, <1>5 DEF OwnSteps, ControllerRuntime, Worker

LEMMA Steps ==
    ASSUME TypeOK, [Next]_vars
    PROVE  \/ \E n \in Names, cr \in Objects : Store(n, cr) /\ Written(n, cr)
           \/ \E n \in Names : \E k \in 2..Len(log[n]) : Deliver(n, k)
           \/ \E n \in Names : Get(n)
           \/ SetPaused
           \/ ProviderHealthRead
           \/ WriteStatus \/ WriteStatusFails
           \/ Flip
           \/ \E v \in BOOLEAN : LateService(v)
           \/ w' \in {w, Idle} /\ UNCHANGED <<log, serverPaused, late, asked>>
<1>1. [OwnSteps]_vars \/ Flip \/ \E v \in BOOLEAN : LateService(v)
  BY DEF Next, User, OwnSteps
<1> QED
  BY <1>1, OwnMoves

\* What a user writes is not ready for its generation.
LEMMA WrittenIsNotReady ==
    ASSUME TypeOK, ObservedInThePast, NEW n \in Names, NEW cr \in Objects, Written(n, cr)
    PROVE  ~ReadyFor(cr) /\ cr.status.observedGeneration <= cr.generation
<1>1. Len(log[n]) \in Nat \ {0} /\ (Current(n).exists => Current(n) \in Configs)
  BY VersionTypes, LogTypes
<1>2. CASE cr.exists /\ Current(n).exists
  <2>1. cr.status = Current(n).status /\ cr.generation = Current(n).generation + 1
    BY <1>2 DEF Written
  <2>2. /\ Current(n).status.observedGeneration \in Nat /\ Current(n).generation \in Nat
        /\ Current(n).status.observedGeneration <= Current(n).generation
    <3>1. Current(n).status \in ConfigStatuses /\ Current(n).generation \in Nat
      BY <1>1, <1>2 DEF Configs
    <3>2. Current(n).status.observedGeneration \in Nat
      BY <3>1 DEF ConfigStatuses
    <3>3. Len(log[n]) \in 1..Len(log[n])
      BY <1>1
    <3> QED
      BY <3>1, <3>2, <3>3 DEF ObservedInThePast, Current
  <2>3. Current(n).status.observedGeneration < Current(n).generation + 1
    BY <2>2
  <2>4. cr.status.observedGeneration = Current(n).status.observedGeneration
    BY <2>1
  <2>5. cr.status.observedGeneration < cr.generation /\ cr.status.observedGeneration \in Nat
    BY <2>1, <2>2, <2>3, <2>4
  <2> QED
    BY <2>1, <2>2, <2>5 DEF ReadyFor
<1>3. CASE cr.exists /\ ~Current(n).exists
  <2>1. cr.status = NoConfigStatus /\ cr.generation = 1
    BY <1>3 DEF Written
  <2>2. NoConfigStatus.observedGeneration = 0
    BY DEF NoConfigStatus
  <2> QED
    BY <2>1, <2>2 DEF ReadyFor
<1>4. CASE ~cr.exists
  <2>1. cr = NoConfig
    BY <1>4 DEF Written
  <2>2. cr.status.observedGeneration = 0 /\ cr.generation = 0
    BY <2>1 DEF NoConfig, NoConfigStatus
  <2> QED
    BY <1>4, <2>2 DEF ReadyFor
<1> QED
  BY <1>2, <1>3, <1>4

\* The copy of a busy worker is an object, and steps within a pass keep all of
\* it but the status.
LEMMA PassMoves ==
    ASSUME TypeOK, SetPaused \/ ProviderHealthRead
    PROVE  /\ w.at \in {"setPaused", "providerHealth"} /\ w'.at # "idle" /\ w'.at # "setPaused"
           /\ w'.name = w.name /\ w'.cr.paused = w.cr.paused
           /\ w'.cr.generation = w.cr.generation
           /\ \/ w'.cr.status.observedGeneration = w.cr.status.observedGeneration
              \/ w'.cr.status.observedGeneration = w.cr.generation
           /\ w.at = "setPaused" /\ w'.at = "writeStatus" => w'.cr.status.ready = "False"
           /\ UNCHANGED <<log, asked>>
<1>1. w \in Workers
  BY DEF TypeOK
<1>2. CASE SetPaused /\ w' = [w EXCEPT !.at = "providerHealth"]
  <2>1. w.at = "setPaused" /\ UNCHANGED <<log, asked>>
    BY <1>2, SetPausedMoves
  <2>2. w'.at = "providerHealth" /\ w'.name = w.name /\ w'.cr = w.cr
    BY <1>1, <1>2, <2>1, BusyTypes
  <2> QED
    BY <2>1, <2>2
<1>3. CASE SetPaused /\ Refused
  <2>1. w.at = "setPaused" /\ UNCHANGED <<log, asked>> /\ w' \in Workers
    BY <1>3, SetPausedMoves
  <2>2. w'.cr.paused = w.cr.paused /\ w'.cr.generation = w.cr.generation
    BY <1>1, <1>3, <2>1, StatusSetKeeps DEF Refused
  <2> QED
    BY <1>3, <2>1, <2>2 DEF Refused, StatusSet
<1>4. CASE ProviderHealthRead
  <2>1. w.at = "providerHealth" /\ UNCHANGED <<log, asked>> /\ w' \in Workers /\ (Refused \/ Confirmed)
    BY <1>4, ProviderHealthReadMoves
  <2>2. w'.cr.paused = w.cr.paused /\ w'.cr.generation = w.cr.generation
    BY <1>1, <2>1, StatusSetKeeps DEF Refused, Confirmed
  <2> QED
    BY <2>1, <2>2 DEF Refused, Confirmed, StatusSet
<1> QED
  BY <1>2, <1>3, <1>4, SetPausedMoves

\* A pass goes on after a push only when the switch stands where the copy wants it.
LEMMA ConfirmedPush ==
    ASSUME TypeOK, SwitchAnswersSpeak, SetPaused, w'.at = "providerHealth"
    PROVE  serverPaused' = w.cr.paused
<1>1. w \in Workers /\ w.at = "setPaused" /\ configured \in BOOLEAN
  BY DEF TypeOK, SetPaused
<1>2. serverPaused' \in BOOLEAN /\ w.cr.paused \in BOOLEAN
  BY <1>1, SetPausedMoves, BusyTypes DEF TypeOK
<1>3. ASSUME NEW reply, AfterSetPaused(reply) PROVE reply.err = NoError /\ reply.Paused = w.cr.paused
  <2>1. ~Refused
    BY DEF Refused, StatusSet
  <2> QED
    BY <1>1, <1>3, <2>1, AfterSetPausedMoves
<1>4. CASE /\ configured
           /\ \E wire \in {Ok(PausedBody(w.cr.paused))} \cup SwitchFaults :
                 Push(w.cr.paused, wire) /\ AfterSetPaused(setPausedReply(wire))
  <2>1. PICK wire \in {Ok(PausedBody(w.cr.paused))} \cup SwitchFaults :
           Push(w.cr.paused, wire) /\ AfterSetPaused(setPausedReply(wire))
    BY <1>4
  <2>2. /\ do(TRUE, wire).err = NoError
        /\ (wire.body.shape = "paused" /\ wire.body.Paused) = w.cr.paused
    <3>1. setPausedReply(wire).err = NoError /\ setPausedReply(wire).Paused = w.cr.paused
      BY <1>3, <2>1
    <3>2. configured = TRUE
      BY <1>1, <1>4
    <3> QED
      BY <3>1, <3>2 DEF setPausedReply
  <2>3. CASE serverPaused' = w.cr.paused
    BY <2>3
  <2>4. CASE wire \in SwitchFaults /\ (wire.body.shape = "paused" => wire.body.Paused = serverPaused')
    BY <1>2, <2>2, <2>4 DEF SwitchAnswersSpeak
  <2> QED
    BY <2>1, <2>3, <2>4 DEF Push
<1>5. CASE ~configured /\ AfterSetPaused(setPausedReply(NotAnswered))
  <2>1. do(configured, NotAnswered).err = NoError
    BY <1>3, <1>5 DEF setPausedReply
  <2> QED
    BY <1>5, <2>1 DEF do, Failed, NoError, UnconfiguredError
<1> QED
  BY <1>4, <1>5 DEF SetPaused

\* No version claims to know a later generation than its own.
LEMMA ObservedKept == TypeOK /\ ObservedInThePast /\ [Next]_vars => ObservedInThePast'
<1> SUFFICES ASSUME TypeOK, ObservedInThePast, [Next]_vars PROVE ObservedInThePast'
  OBVIOUS
<1> DEFINE Past(cr) == cr.status.observedGeneration <= cr.generation
<1>1. log \in Histories /\ w \in Workers
  BY LogTypes
<1>2. /\ \A n \in Names : \A k \in 1..Len(log[n]) : Past(log[n][k])
      /\ w.at # "idle" => Past(w.cr)
  BY DEF ObservedInThePast
<1>3. ASSUME \A n \in Names : \A k \in 1..Len(log'[n]) : Past(log'[n][k]), w'.at # "idle" => Past(w'.cr)
      PROVE  ObservedInThePast'
  BY <1>3 DEF ObservedInThePast
<1> HIDE DEF Past
<1>4. ASSUME NEW n \in Names, NEW cr \in Objects, log' = [log EXCEPT ![n] = Append(@, cr)], Past(cr)
      PROVE  \A m \in Names : \A k \in 1..Len(log'[m]) : Past(log'[m][k])
  <2>1. /\ Len(log'[n]) = Len(log[n]) + 1 /\ Len(log[n]) \in Nat
        /\ \A k \in 1..Len(log[n]) : log'[n][k] = log[n][k]
        /\ log'[n][Len(log[n]) + 1] = cr
        /\ \A m \in Names \ {n} : log'[m] = log[m]
    BY <1>1, <1>4, AppendVersion, VersionTypes
  <2>2. \A k \in 1..Len(log'[n]) : k \in 1..Len(log[n]) \/ k = Len(log[n]) + 1
    BY <2>1
  <2> QED
    BY <1>2, <1>4, <2>1, <2>2
<1>5. ASSUME NEW n \in Names, NEW cr \in Objects, Store(n, cr), Written(n, cr) PROVE ObservedInThePast'
  <2>1. Past(cr)
    BY <1>5, WrittenIsNotReady DEF Past
  <2>2. w'.at = w.at /\ w'.cr = w.cr
    BY <1>5, StoreMoves
  <2> QED
    BY <1>2, <1>3, <1>4, <1>5, <2>1, <2>2 DEF Store
<1>6. ASSUME NEW n \in Names, NEW k \in 2..Len(log[n]), Deliver(n, k) PROVE ObservedInThePast'
  <2>1. k \in 1..Len(log[n])
    BY <1>1, VersionTypes
  <2>2. /\ \A i \in 1..Len(log'[n]) : log'[n][i] = log[n][i + k - 1] /\ i + k - 1 \in 1..Len(log[n])
        /\ \A m \in Names \ {n} : log'[m] = log[m]
    BY <1>1, <1>6, <2>1, DropVersions DEF Deliver
  <2>3. w' = w
    BY <1>6 DEF Deliver
  <2> QED
    BY <1>2, <1>3, <2>2, <2>3
<1>7. ASSUME NEW n \in Names, Get(n) PROVE ObservedInThePast'
  <2>1. CASE Cached(n).exists /\ w'.cr = [Cached(n) EXCEPT !.status = w'.cr.status]
             /\ w'.cr.status.observedGeneration = Cached(n).status.observedGeneration
    <3>1. Cached(n) \in Configs /\ Past(Cached(n))
      BY <1>1, <1>2, <2>1, VersionTypes DEF Cached
    <3>2. w'.cr.generation = Cached(n).generation
      BY <2>1, <3>1 DEF Configs
    <3>3. Past(w'.cr)
      BY <2>1, <3>1, <3>2 DEF Past
    <3> QED
      BY <1>2, <1>3, <1>7, <3>3, GetMoves
  <2>2. CASE w' = Idle
    BY <1>2, <1>3, <1>7, <2>2, GetMoves DEF Idle
  <2> QED
    BY <1>7, <2>1, <2>2, GetMoves
<1>8. CASE SetPaused \/ ProviderHealthRead
  <2>1. w.at # "idle" /\ w.cr.generation \in Nat
    BY <1>1, <1>8, PassMoves, BusyTypes
  <2>2. Past(w'.cr)
    BY <1>2, <1>8, <2>1, PassMoves DEF Past
  <2> QED
    BY <1>2, <1>3, <1>8, <2>2, PassMoves
<1>9. CASE WriteStatus \/ WriteStatusFails
  <2>1. w.at = "writeStatus" /\ w' = Idle /\ w.cr \in Objects /\ Past(w.cr)
    BY <1>2, <1>9, WriteMoves
  <2>2. PICK n \in Names : n = w.name
    BY <1>9, WriteMoves
  <2>3. CASE UNCHANGED log
    BY <1>2, <1>3, <2>1, <2>3 DEF Idle
  <2>4. CASE log' = [log EXCEPT ![n] = Append(@, w.cr)]
    BY <1>3, <1>4, <2>1, <2>4 DEF Idle
  <2> QED
    BY <1>9, <2>2, <2>3, <2>4, WriteMoves
<1>10. ASSUME w' \in {w, Idle}, UNCHANGED log PROVE ObservedInThePast'
  BY <1>2, <1>3, <1>10 DEF Idle
<1>11. ASSUME Flip \/ \E v \in BOOLEAN : LateService(v) PROVE w' = w /\ UNCHANGED log
  BY <1>11 DEF Flip, LateService
<1> QED
  BY <1>5, <1>6, <1>7, <1>8, <1>9, <1>10, <1>11, Steps

\* What the worker copies and pushes stays in step with the objects.
LEMMA CopyKept == CopyInv /\ [Next]_vars => CopyInv'
<1> SUFFICES ASSUME CopyInv, [Next]_vars PROVE CopyInv'
  OBVIOUS
<1>1. /\ TypeOK /\ log \in Histories /\ w \in Workers
      /\ ObservedInThePast /\ FreshCopy /\ ReadyIsOld /\ OnlyTheSingletonPushes
  BY LogTypes DEF CopyInv
<1>2. TypeOK' /\ ObservedInThePast' /\ FreshCopy'
  BY <1>1, TypesKept, ObservedKept, FreshKept
<1>3. ASSUME ReadyIsOld', OnlyTheSingletonPushes' PROVE CopyInv'
  BY <1>2, <1>3 DEF CopyInv
<1>4. ASSUME UNCHANGED log, OnlyTheSingletonPushes',
             \A n \in Names : ReadyFor(Current(n)) /\ w'.at # "idle" /\ w'.name = n
                              => w'.cr.paused = Current(n).paused
      PROVE  CopyInv'
  <2>1. ReadyIsOld'
    BY <1>1, <1>4 DEF ReadyIsOld, ReadyFor, Current
  <2> QED
    BY <1>3, <1>4, <2>1
<1>5. ASSUME NEW n \in Names, NEW cr \in Objects, Store(n, cr), Written(n, cr) PROVE CopyInv'
  <2>1. Current(n)' = cr /\ \A m \in Names \ {n} : log'[m] = log[m]
    BY <1>1, <1>5, AppendVersion DEF Store
  <2>2. w'.at = w.at /\ w'.name = w.name /\ w'.cr = w.cr
    BY <1>1, <1>5, StoreMoves
  <2>3. ~ReadyFor(Current(n)')
    BY <1>1, <1>5, <2>1, WrittenIsNotReady
  <2>4. \A m \in Names \ {n} : Current(m)' = Current(m)
    BY <2>1 DEF Current
  <2>5. ReadyIsOld'
    BY <1>1, <2>1, <2>2, <2>3, <2>4 DEF ReadyIsOld, ReadyFor
  <2>6. OnlyTheSingletonPushes'
    BY <1>1, <2>2 DEF PushConfirmed, OnlyTheSingletonPushes, Governs
  <2> QED
    BY <1>3, <2>5, <2>6
<1>6. ASSUME NEW n \in Names, NEW k \in 2..Len(log[n]), Deliver(n, k) PROVE CopyInv'
  <2>1. k \in 1..Len(log[n])
    BY <1>1, VersionTypes
  <2>2. /\ \A i \in 1..Len(log'[n]) : log'[n][i] = log[n][i + k - 1] /\ i + k - 1 \in 1..Len(log[n])
        /\ \A m \in Names \ {n} : log'[m] = log[m]
        /\ Current(n)' = Current(n)
    BY <1>1, <1>6, <2>1, DropVersions DEF Deliver
  <2>3. w' = w
    BY <1>6 DEF Deliver
  <2>4. \A m \in Names : Current(m)' = Current(m)
    BY <2>2 DEF Current
  <2>5. ASSUME NEW m \in Names, ReadyFor(Current(m)), NEW i \in 1..Len(log'[m])
        PROVE  log'[m][i].paused = Current(m).paused
    <3>1. CASE m = n
      BY <1>1, <2>2, <2>5, <3>1 DEF ReadyIsOld
    <3>2. CASE m # n
      BY <1>1, <2>2, <2>5, <3>2 DEF ReadyIsOld
    <3> QED
      BY <3>1, <3>2
  <2>6. ReadyIsOld'
    BY <1>1, <2>3, <2>4, <2>5 DEF ReadyIsOld, ReadyFor
  <2>7. OnlyTheSingletonPushes'
    BY <1>1, <2>3 DEF PushConfirmed, OnlyTheSingletonPushes, Governs
  <2> QED
    BY <1>3, <2>6, <2>7
<1>7. ASSUME NEW n \in Names, Get(n) PROVE CopyInv'
  <2>1. UNCHANGED log
    BY <1>1, <1>7, GetMoves
  <2>2. CASE w' = Idle
    <3>1. OnlyTheSingletonPushes'
      BY <2>2 DEF Idle, PushConfirmed, OnlyTheSingletonPushes
    <3> QED
      BY <1>4, <2>1, <2>2, <3>1 DEF Idle
  <2>3. CASE /\ w'.name = n /\ Cached(n).exists
             /\ w'.cr = [Cached(n) EXCEPT !.status = w'.cr.status]
             /\ \/ w'.at = "setPaused" /\ Governs(n)
                \/ w'.at = "writeStatus" /\ w'.cr.status.ready = "False"
    <3>1. Cached(n) \in Configs /\ 1 \in 1..Len(log[n])
      BY <1>1, <2>3, VersionTypes
    <3>2. w'.cr.paused = Cached(n).paused
      BY <2>3, <3>1 DEF Configs
    <3>3. ReadyFor(Current(n)) => Cached(n).paused = Current(n).paused
      BY <1>1, <3>1 DEF ReadyIsOld, Cached
    <3>4. OnlyTheSingletonPushes'
      BY <2>3 DEF PushConfirmed, OnlyTheSingletonPushes, Governs
    <3> QED
      BY <1>4, <2>1, <2>3, <3>2, <3>3, <3>4
  <2> QED
    BY <1>1, <1>7, <2>2, <2>3, GetMoves
<1>8. CASE SetPaused \/ ProviderHealthRead
  <2>1. /\ w.at \in {"setPaused", "providerHealth"} /\ w'.at # "setPaused"
        /\ w'.name = w.name /\ w'.cr.paused = w.cr.paused /\ log' = log
    BY <1>1, <1>8, PassMoves
  <2>2. Governs(w.name)
    BY <1>1, <2>1 DEF OnlyTheSingletonPushes, PushConfirmed
  <2>3. OnlyTheSingletonPushes'
    BY <2>1, <2>2 DEF OnlyTheSingletonPushes, Governs
  <2> QED
    BY <1>1, <1>4, <2>1, <2>3 DEF ReadyIsOld
<1>9. CASE WriteStatus \/ WriteStatusFails
  <2>1. w.at = "writeStatus" /\ w' = Idle /\ w.cr \in Objects
    BY <1>1, <1>9, WriteMoves
  <2>2. PICK n \in Names : n = w.name
    BY <1>1, <1>9, WriteMoves
  <2>3. OnlyTheSingletonPushes'
    BY <2>1 DEF Idle, PushConfirmed, OnlyTheSingletonPushes
  <2>4. CASE UNCHANGED log
    BY <1>4, <2>1, <2>3, <2>4 DEF Idle
  <2>5. CASE w.fresh /\ log' = [log EXCEPT ![n] = Append(@, w.cr)]
    <3>1. /\ Current(n)' = w.cr /\ \A m \in Names \ {n} : log'[m] = log[m]
          /\ Len(log'[n]) = Len(log[n]) + 1
          /\ \A k \in 1..Len(log[n]) : log'[n][k] = log[n][k]
          /\ log'[n][Len(log[n]) + 1] = w.cr
      BY <1>1, <2>1, <2>5, AppendVersion
    <3>2. \A m \in Names \ {n} : Current(m)' = Current(m)
      BY <3>1 DEF Current
    <3>3. Len(log[n]) = 1 /\ w.cr.paused = log[n][1].paused
      <4>1. Len(log[n]) = 1 /\ w.cr = [Current(n) EXCEPT !.status = w.cr.status]
        BY <1>1, <2>1, <2>2, <2>5 DEF FreshCopy
      <4>2. Current(n) \in Objects
        BY <1>1, VersionTypes
      <4>3. w.cr.paused = Current(n).paused
        BY <4>1, <4>2 DEF Objects, Configs, NoConfig
      <4> QED
        BY <4>1, <4>3 DEF Current
    <3>4. \A k \in 1..Len(log'[n]) : log'[n][k].paused = w.cr.paused
      <4>1. \A k \in 1..Len(log'[n]) : k = 1 \/ k = 2
        BY <3>1, <3>3
      <4> QED
        BY <3>1, <3>3, <4>1
    <3>5. ReadyIsOld'
      BY <1>1, <2>1, <3>1, <3>2, <3>4 DEF ReadyIsOld, ReadyFor, Idle
    <3> QED
      BY <1>3, <2>3, <3>5
  <2> QED
    BY <1>1, <1>9, <2>2, <2>4, <2>5, WriteMoves
<1>10. ASSUME w' \in {w, Idle}, UNCHANGED log PROVE CopyInv'
  <2>1. OnlyTheSingletonPushes'
    BY <1>1, <1>10 DEF Idle, PushConfirmed, OnlyTheSingletonPushes, Governs
  <2> QED
    BY <1>1, <1>4, <1>10, <2>1 DEF Idle, ReadyIsOld
<1>11. ASSUME Flip \/ \E v \in BOOLEAN : LateService(v) PROVE w' = w /\ UNCHANGED log
  BY <1>11 DEF Flip, LateService
<1> QED
  BY <1>1, <1>5, <1>6, <1>7, <1>8, <1>9, <1>10, <1>11, Steps

\* A confirmed push makes every claim true, whatever the switch stood at before
\* and whatever was claimed of it.
LEMMA MatchesMade ==
    ASSUME PlatformConfigName # NoName, SwitchAnswersSpeak,
           CopyInv, SetPaused, w'.at = "providerHealth"
    PROVE  SwitchMatches'
<1>1. TypeOK /\ ReadyIsOld /\ OnlyTheSingletonPushes
  BY DEF CopyInv
<1>2. /\ w.at = "setPaused" /\ w'.name = w.name /\ w'.cr.paused = w.cr.paused /\ log' = log
      /\ serverPaused' = w.cr.paused
  BY <1>1, PassMoves, ConfirmedPush DEF SetPaused
<1>3. Governs(w.name)
  BY <1>1, <1>2 DEF OnlyTheSingletonPushes
<1>4. ASSUME NEW n \in Names, Governs(n), ReadyFor(Current(n)) PROVE serverPaused' = Current(n).paused
  <2>1. w.name = n
    BY <1>3, <1>4 DEF Governs
  <2>2. w.cr.paused = Current(n).paused
    BY <1>1, <1>2, <1>4, <2>1 DEF ReadyIsOld
  <2> QED
    BY <1>2, <2>2
<1>5. ReadyMeansSwitchMatches'
  BY <1>2, <1>4 DEF ReadyMeansSwitchMatches, ReadyFor, Governs, Current
<1>6. PushedBeforeReady'
  BY <1>2 DEF PushedBeforeReady
<1> QED
  BY <1>5, <1>6 DEF SwitchMatches

\* Only an outsider or a late push can make a claim false.
LEMMA MatchesKept ==
    ASSUME PlatformConfigName # NoName, SwitchAnswersSpeak,
           CopyInv, SwitchMatches, [OwnSteps]_vars
    PROVE  SwitchMatches'
<1>1. /\ TypeOK /\ log \in Histories /\ w \in Workers
      /\ ReadyMeansSwitchMatches /\ ObservedInThePast /\ ReadyIsOld
      /\ PushedBeforeReady /\ OnlyTheSingletonPushes
  BY LogTypes DEF CopyInv, SwitchMatches
<1>2. ASSUME UNCHANGED <<log, serverPaused>>, PushedBeforeReady' PROVE SwitchMatches'
  BY <1>1, <1>2 DEF SwitchMatches, ReadyMeansSwitchMatches, ReadyFor, Governs, Current
<1>3. ASSUME NEW n \in Names, NEW cr \in Objects, Store(n, cr), Written(n, cr) PROVE SwitchMatches'
  <2>1. /\ Current(n)' = cr /\ \A m \in Names \ {n} : log'[m] = log[m]
        /\ serverPaused' = serverPaused
    BY <1>1, <1>3, AppendVersion DEF Store
  <2>2. w'.at = w.at /\ w'.cr = w.cr
    BY <1>1, <1>3, StoreMoves
  <2>3. ~ReadyFor(Current(n)')
    BY <1>1, <1>3, <2>1, WrittenIsNotReady
  <2>4. \A m \in Names \ {n} : Current(m)' = Current(m)
    BY <2>1 DEF Current
  <2>5. ReadyMeansSwitchMatches'
    BY <1>1, <2>1, <2>3, <2>4 DEF ReadyMeansSwitchMatches, ReadyFor, Governs
  <2>6. PushedBeforeReady'
    BY <1>1, <2>1, <2>2 DEF PushedBeforeReady, PushConfirmed
  <2> QED
    BY <2>5, <2>6 DEF SwitchMatches
<1>4. ASSUME NEW n \in Names, NEW k \in 2..Len(log[n]), Deliver(n, k) PROVE SwitchMatches'
  <2>1. k \in 1..Len(log[n])
    BY <1>1, VersionTypes
  <2>2. (\A m \in Names \ {n} : log'[m] = log[m]) /\ Current(n)' = Current(n)
    BY <1>1, <1>4, <2>1, DropVersions DEF Deliver
  <2>3. w' = w /\ serverPaused' = serverPaused
    BY <1>4 DEF Deliver
  <2>4. \A m \in Names : Current(m)' = Current(m)
    BY <2>2 DEF Current
  <2> QED
    BY <1>1, <2>3, <2>4
       DEF SwitchMatches, ReadyMeansSwitchMatches, ReadyFor, Governs, PushedBeforeReady, PushConfirmed
<1>5. ASSUME NEW n \in Names, Get(n) PROVE SwitchMatches'
  <2>1. UNCHANGED <<log, serverPaused>>
    BY <1>1, <1>5, GetMoves
  <2>2. \/ w' = Idle
        \/ w'.at = "setPaused"
        \/ w'.at = "writeStatus" /\ w'.cr.status.ready = "False"
    BY <1>1, <1>5, GetMoves
  <2>3. ~PushConfirmed'
    BY <2>2 DEF PushConfirmed, Idle
  <2> QED
    BY <1>2, <2>1, <2>3 DEF PushedBeforeReady
<1>6. CASE ProviderHealthRead
  <2>1. w.at = "providerHealth" /\ UNCHANGED <<log, serverPaused>> /\ w'.cr.paused = w.cr.paused
    BY <1>1, <1>6, ProviderHealthReadMoves, PassMoves
  <2>2. PushedBeforeReady'
    BY <1>1, <2>1 DEF PushedBeforeReady, PushConfirmed
  <2> QED
    BY <1>2, <2>1, <2>2
<1>7. CASE SetPaused
  <2>1. /\ w.at = "setPaused" /\ serverPaused' \in {serverPaused, w.cr.paused} /\ log' = log
        /\ w'.at = "writeStatus" => w'.cr.status.ready = "False"
    BY <1>1, <1>7, SetPausedMoves, PassMoves
  <2>2. CASE w'.at = "providerHealth"
    BY <1>7, <2>2, MatchesMade
  <2>3. CASE w'.at # "providerHealth"
    <3>1. ASSUME NEW n \in Names, Governs(n), ReadyFor(Current(n)) PROVE serverPaused' = Current(n).paused
      <4>1. w.name = n
        BY <1>1, <2>1, <3>1 DEF OnlyTheSingletonPushes, Governs
      <4>2. w.cr.paused = Current(n).paused
        BY <1>1, <2>1, <3>1, <4>1 DEF ReadyIsOld
      <4> QED
        BY <1>1, <2>1, <3>1, <4>2 DEF ReadyMeansSwitchMatches
    <3>2. ReadyMeansSwitchMatches'
      BY <2>1, <3>1 DEF ReadyMeansSwitchMatches, ReadyFor, Governs, Current
    <3>3. PushedBeforeReady'
      BY <2>1, <2>3 DEF PushedBeforeReady, PushConfirmed
    <3> QED
      BY <3>2, <3>3 DEF SwitchMatches
  <2> QED
    BY <2>2, <2>3
<1>8. CASE WriteStatus \/ WriteStatusFails
  <2>1. w.at = "writeStatus" /\ w' = Idle /\ w.cr \in Objects /\ serverPaused' = serverPaused
    BY <1>1, <1>8, WriteMoves
  <2>2. PICK n \in Names : n = w.name
    BY <1>1, <1>8, WriteMoves
  <2>3. PushedBeforeReady'
    BY <2>1 DEF Idle, PushedBeforeReady, PushConfirmed
  <2>4. CASE UNCHANGED log
    BY <1>2, <2>1, <2>3, <2>4
  <2>5. CASE w.fresh /\ log' = [log EXCEPT ![n] = Append(@, w.cr)]
    <3>1. Current(n)' = w.cr /\ \A m \in Names \ {n} : log'[m] = log[m]
      BY <1>1, <2>1, <2>5, AppendVersion
    <3>2. \A m \in Names \ {n} : Current(m)' = Current(m)
      BY <3>1 DEF Current
    <3>3. ReadyFor(w.cr) => serverPaused = w.cr.paused
      BY <1>1, <2>1 DEF ReadyFor, PushedBeforeReady, PushConfirmed
    <3>4. ReadyMeansSwitchMatches'
      BY <1>1, <2>1, <3>1, <3>2, <3>3 DEF ReadyMeansSwitchMatches, ReadyFor, Governs
    <3> QED
      BY <2>3, <3>4 DEF SwitchMatches
  <2> QED
    BY <1>1, <1>8, <2>2, <2>4, <2>5, WriteMoves
<1>9. ASSUME w' \in {w, Idle}, UNCHANGED <<log, serverPaused>> PROVE SwitchMatches'
  <2>1. PushedBeforeReady'
    BY <1>1, <1>9 DEF Idle, PushedBeforeReady, PushConfirmed
  <2> QED
    BY <1>2, <1>9, <2>1
<1> QED
  BY <1>1, <1>3, <1>4, <1>5, <1>6, <1>7, <1>8, <1>9, OwnMoves

\* Every step keeps the claims true while nobody else moves the switch.
LEMMA SwitchKept ==
    ASSUME ~Outsiders, ~LateCalls, PlatformConfigName # NoName, SwitchAnswersSpeak
    PROVE  SwitchInv /\ [Next]_vars => SwitchInv'
<1> SUFFICES ASSUME SwitchInv, [Next]_vars PROVE SwitchInv'
  OBVIOUS
<1>1. TypeOK /\ late = {} /\ CopyInv /\ SwitchMatches
  BY DEF SwitchInv, CopyInv
<1>2. [OwnSteps]_vars
  BY <1>1 DEF Next, User, OwnSteps, Flip, LateService
<1>3. late' = {}
  <2>1. ASSUME NEW n \in Names, NEW cr, Store(n, cr) PROVE late' = late
    BY <2>1 DEF Store
  <2>2. ASSUME NEW n \in Names, NEW k, Deliver(n, k) PROVE late' = late
    BY <2>2 DEF Deliver
  <2>3. ASSUME NEW n \in Names, Get(n) PROVE late' = late
    BY <2>3 DEF Get
  <2>4. SetPaused => late' = late
    BY <1>1, SetPausedMoves
  <2>5. ProviderHealthRead \/ WriteStatus \/ WriteStatusFails => late' = late
    BY DEF ProviderHealthRead, WriteStatus, WriteStatusFails
  <2> QED
    BY <1>1, <1>2, <2>1, <2>2, <2>3, <2>4, <2>5, OwnMoves
<1>4. CopyInv' /\ SwitchMatches'
  BY <1>1, <1>2, CopyKept, MatchesKept
<1> QED
  BY <1>3, <1>4 DEF SwitchInv

LEMMA InitSwitch == Init => SwitchInv
<1> SUFFICES ASSUME Init PROVE SwitchInv
  OBVIOUS
<1>1. TypeOK /\ w = Idle /\ late = {}
  BY InitTypes DEF Init
<1>2. \A n \in Names : log[n] = <<NoConfig>> /\ Len(log[n]) = 1
  BY DEF Init
<1>3. ~NoConfig.exists /\ NoConfig.status.observedGeneration <= NoConfig.generation
  <2>1. ~NoConfig.exists
    BY DEF NoConfig
  <2>2. NoConfig.status.observedGeneration = 0 /\ NoConfig.generation = 0
    BY DEF NoConfig, NoConfigStatus
  <2> QED
    BY <2>1, <2>2
<1>4. \A n \in Names : ~ReadyFor(Current(n))
  <2>1. \A n \in Names : Current(n) = NoConfig
    BY <1>2 DEF Current
  <2> QED
    BY <1>3, <2>1 DEF ReadyFor
<1>5. ObservedInThePast
  <2>1. \A n \in Names : \A k \in 1..Len(log[n]) : log[n][k] = NoConfig
    BY <1>2
  <2> QED
    BY <1>1, <1>3, <2>1 DEF ObservedInThePast, Idle
<1> QED
  BY <1>1, <1>4, <1>5
     DEF SwitchInv, CopyInv, SwitchMatches, ReadyMeansSwitchMatches, FreshCopy, ReadyIsOld,
         PushedBeforeReady, PushConfirmed, OnlyTheSingletonPushes, Idle

\* The budget and the pushes under way say nothing about the copies and the claims.
LEMMA CopyAside ==
    ASSUME CopyInv, budget' \in Nat, late' \subseteq BOOLEAN, serverPaused' \in BOOLEAN,
           UNCHANGED <<log, queue, delayed, w, configured, asked>>
    PROVE  CopyInv'
  BY DEF CopyInv, TypeOK, ReadyFor, Current, ObservedInThePast, FreshCopy, ReadyIsOld,
         OnlyTheSingletonPushes, PushConfirmed

LEMMA MatchesAside ==
    ASSUME SwitchMatches, UNCHANGED <<log, w, serverPaused>>
    PROVE  SwitchMatches'
  BY DEF SwitchMatches, ReadyMeansSwitchMatches, ReadyFor, Current, PushedBeforeReady, PushConfirmed

LEMMA SwitchAlways ==
    ASSUME ~Outsiders, ~LateCalls, PlatformConfigName # NoName, SwitchAnswersSpeak
    PROVE  Spec => []SwitchInv
  BY InitSwitch, SwitchKept, PTL DEF Spec

\* While nobody else moves the switch, Ready=True for the generation a reader
\* looks at means that it stands where this spec wants it, although every push
\* is made from a cached copy, answers are lost and the manager restarts.
THEOREM ReadyIsTrue ==
    ASSUME ~Outsiders, ~LateCalls, PlatformConfigName # NoName, SwitchAnswersSpeak
    PROVE  Spec => []ReadyMeansSwitchMatches
<1>1. SwitchInv => ReadyMeansSwitchMatches
  BY DEF SwitchInv, SwitchMatches
<1> QED
  BY <1>1, SwitchAlways, PTL

-----------------------------------------------------------------------------
(* The controller implements the kill switch of KillSwitch.tla.            *)

\* Every step of the controller is one of KillSwitch, or changes nothing it sees.
LEMMA SwitchSteps ==
    ASSUME ~Outsiders, ~LateCalls, PlatformConfigName # NoName, SwitchAnswersSpeak,
           SwitchInv, AskedInv, [Next]_vars
    PROVE  [Switch!Next]_(Switch!vars)
<1> DEFINE p == PlatformConfigName
<1>1. /\ p \in Names /\ (\A n \in Names : Governs(n) <=> n = p)
      /\ TypeOK /\ TypeOK' /\ log \in Histories /\ w \in Workers /\ owner = Current(p)
      /\ serverPaused \in BOOLEAN /\ owner \in Objects
  <2>1. p \in Names /\ \A n \in Names : Governs(n) <=> n = p
    BY NamesAssumption DEF Governs
  <2>2. TypeOK /\ TypeOK'
    BY TypesKept DEF SwitchInv, CopyInv
  <2>3. log \in Histories /\ w \in Workers /\ serverPaused \in BOOLEAN
    BY <2>2, LogTypes
  <2>4. owner = Current(p) /\ Current(p) \in Objects
    BY <2>1, <2>3, VersionTypes DEF owner
  <2> QED
    BY <2>1, <2>2, <2>3, <2>4
<1>2. owner' = Current(p)'
  BY DEF owner
<1> HIDE DEF p
<1>3. ASSUME owner' = owner, UNCHANGED <<asked, serverPaused>> PROVE UNCHANGED Switch!vars
  BY <1>3 DEF Switch!vars, ReadyFor
<1>4. ASSUME NEW n \in Names, NEW cr \in Objects, Store(n, cr), Written(n, cr)
      PROVE  [Switch!Next]_(Switch!vars)
  <2>1. /\ Current(n)' = cr /\ \A m \in Names \ {n} : log'[m] = log[m]
        /\ serverPaused' = serverPaused
    BY <1>1, <1>4, AppendVersion DEF Store
  <2>2. CASE n # p
    <3>1. owner' = owner
      BY <1>1, <1>2, <2>1, <2>2 DEF Current
    <3>2. asked' = asked
      BY <1>1, <1>4, <2>2 DEF Written
    <3> QED
      BY <1>3, <2>1, <3>1, <3>2
  <2>3. CASE n = p
    <3>1. owner' = cr /\ ReadyFor(owner') = FALSE
      BY <1>1, <1>2, <1>4, <2>1, <2>3, WrittenIsNotReady DEF SwitchInv, CopyInv, ReadyFor
    <3>2. CASE cr.exists
      <4>1. asked' = asked \cup {cr.paused} /\ cr.paused \in BOOLEAN
        <5>1. asked' = asked \cup {cr.paused}
          BY <1>1, <1>4, <2>3, <3>2 DEF Written
        <5>2. cr \in Configs
          BY <3>2 DEF Objects, NoConfig
        <5> QED
          BY <5>1, <5>2 DEF Configs
      <4>2. Switch!Ask(cr.paused)
        BY <2>1, <3>1, <3>2, <4>1 DEF Switch!Ask, ReadyFor
      <4> QED
        BY <4>1, <4>2 DEF Switch!Next
    <3>3. CASE ~cr.exists
      <4>1. asked' = asked
        BY <1>4, <3>3 DEF Written
      <4>2. Switch!Withdraw
        BY <2>1, <3>1, <3>3, <4>1 DEF Switch!Withdraw, ReadyFor
      <4> QED
        BY <4>2 DEF Switch!Next
    <3> QED
      BY <3>2, <3>3
  <2> QED
    BY <2>2, <2>3
<1>5. ASSUME NEW n \in Names, NEW k \in 2..Len(log[n]), Deliver(n, k) PROVE UNCHANGED Switch!vars
  <2>1. k \in 1..Len(log[n])
    BY <1>1, VersionTypes
  <2>2. Current(n)' = Current(n) /\ \A m \in Names \ {n} : log'[m] = log[m]
    BY <1>1, <1>5, <2>1, DropVersions DEF Deliver
  <2>3. owner' = owner
    BY <1>1, <1>2, <2>2 DEF Current
  <2> QED
    BY <1>3, <1>5, <2>3 DEF Deliver
<1>6. ASSUME UNCHANGED <<log, asked, serverPaused>> PROVE UNCHANGED Switch!vars
  <2>1. owner' = owner
    BY <1>1, <1>2, <1>6 DEF Current
  <2> QED
    BY <1>3, <1>6, <2>1
<1>7. CASE SetPaused
  <2>1. /\ w.at = "setPaused" /\ serverPaused' \in {serverPaused, w.cr.paused} /\ UNCHANGED <<log, asked>>
    BY <1>1, <1>7, SetPausedMoves
  <2>2. CASE serverPaused' = serverPaused
    BY <1>6, <2>1, <2>2
  <2>3. CASE serverPaused' = w.cr.paused
    <3>1. w.name \in Names /\ w.cr.paused \in BOOLEAN
      BY <1>1, <2>1, BusyTypes
    <3>2. w.name = p
      BY <1>1, <2>1, <3>1 DEF SwitchInv, CopyInv, OnlyTheSingletonPushes
    <3>3. w.cr.paused \in asked
      BY <2>1 DEF AskedInv
    <3>4. ReadyFor(owner) => owner.exists /\ w.cr.paused = owner.paused
      BY <1>1, <2>1, <3>1, <3>2 DEF SwitchInv, CopyInv, ReadyIsOld, ReadyFor
    <3>5. owner' = owner
      BY <1>1, <1>2, <2>1 DEF Current
    <3>6. Switch!Move(w.cr.paused)
      BY <2>1, <2>3, <3>3, <3>4, <3>5 DEF Switch!Move, ReadyFor
    <3> QED
      BY <3>1, <3>6 DEF Switch!Next
  <2> QED
    BY <2>1, <2>2, <2>3
<1>8. CASE WriteStatus \/ WriteStatusFails
  <2>1. w.at = "writeStatus" /\ w.cr \in Objects /\ UNCHANGED <<serverPaused, asked>>
    BY <1>1, <1>8, WriteMoves
  <2>2. PICK n \in Names : n = w.name
    BY <1>1, <1>8, WriteMoves
  <2>3. CASE UNCHANGED log
    BY <1>6, <2>1, <2>3
  <2>4. CASE w.fresh /\ log' = [log EXCEPT ![n] = Append(@, w.cr)]
    <3>1. Current(n)' = w.cr /\ \A m \in Names \ {n} : log'[m] = log[m]
      BY <1>1, <2>1, <2>4, AppendVersion
    <3>2. CASE n # p
      <4>1. owner' = owner
        BY <1>1, <1>2, <3>1, <3>2 DEF Current
      <4> QED
        BY <1>3, <2>1, <4>1
    <3>3. CASE n = p
      <4>1. owner' = w.cr /\ w.cr.exists
        BY <1>1, <1>2, <2>1, <3>1, <3>3, BusyTypes
      <4>2. w.cr = [owner EXCEPT !.status = w.cr.status]
        BY <1>1, <2>1, <2>2, <2>4, <3>3 DEF SwitchInv, CopyInv, FreshCopy
      <4>3. owner.exists = w.cr.exists /\ owner.paused = w.cr.paused
        BY <1>1, <4>2 DEF Objects, Configs, NoConfig
      <4>4. CASE ReadyFor(w.cr)
        <5>1. serverPaused = w.cr.paused
          BY <2>1, <4>4 DEF SwitchInv, SwitchMatches, PushedBeforeReady, PushConfirmed, ReadyFor
        <5>2. Switch!Claim
          BY <2>1, <4>1, <4>3, <4>4, <5>1 DEF Switch!Claim, ReadyFor
        <5> QED
          BY <5>2 DEF Switch!Next
      <4>5. CASE ~ReadyFor(w.cr)
        <5>1. Switch!Disclaim
          BY <2>1, <4>1, <4>3, <4>5 DEF Switch!Disclaim, ReadyFor
        <5> QED
          BY <5>1 DEF Switch!Next
      <4> QED
        BY <4>4, <4>5
    <3> QED
      BY <3>2, <3>3
  <2> QED
    BY <1>1, <1>8, <2>2, <2>3, <2>4, WriteMoves
<1>9. ASSUME NEW n \in Names, Get(n) PROVE UNCHANGED <<log, asked, serverPaused>>
  BY <1>9 DEF Get
<1>10. ProviderHealthRead => UNCHANGED <<log, asked, serverPaused>>
  BY DEF ProviderHealthRead
<1>11. ~Flip /\ ~\E v \in BOOLEAN : LateService(v)
  BY DEF Flip, LateService, SwitchInv
<1> QED
  BY <1>1, <1>4, <1>5, <1>6, <1>7, <1>8, <1>9, <1>10, <1>11, Steps

\* While nobody else moves the switch, every behaviour of the controller with
\* its cache, its queue, its failures and its restarts is one of KillSwitch: the
\* flag moves only to a value its owner asked for, never away from what is
\* claimed, and what is claimed is true.
THEOREM OwnersWordIsKept ==
    ASSUME ~Outsiders, ~LateCalls, PlatformConfigName # NoName, SwitchAnswersSpeak
    PROVE  Spec => KeepsWord
<1>1. Init => Switch!Init
  <2> SUFFICES ASSUME Init PROVE Switch!Init
    OBVIOUS
  <2>1. PlatformConfigName \in Names
    BY NamesAssumption
  <2>2. owner = NoConfig
    BY <2>1 DEF Init, owner, Current
  <2>3. NoConfig.exists = FALSE
    BY DEF NoConfig
  <2>4. serverPaused \in BOOLEAN /\ asked = {}
    BY FlagsAssumption DEF Init
  <2> QED
    BY <2>2, <2>3, <2>4 DEF Switch!Init, ReadyFor
<1>2. SwitchInv /\ AskedInv /\ [Next]_vars => [Switch!Next]_(Switch!vars)
  BY SwitchSteps
<1>3. Spec => []SwitchInv
  BY SwitchAlways
<1> QED
  BY <1>1, <1>2, <1>3, AskedAlways, PTL DEF Spec, KeepsWord, Switch!Spec
=============================================================================
