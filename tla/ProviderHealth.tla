---------------------------- MODULE ProviderHealth ----------------------------
(***************************************************************************)
(* splitProviderHealth (platformconfig_controller.go): what the control    *)
(* plane's answer about its providers becomes in status.providerHealth.    *)
(*                                                                         *)
(* A text is reduced to what a reader can tell of it: whether a reported   *)
(* text is empty, and which parts a text of status is put together from.   *)
(***************************************************************************)

\* One provider of the answer.  Message, LastQueryError and Blockers say
\* whether these fields are non-empty; Healthy is a *bool.
ReportedProviders ==
    [Checked : BOOLEAN, Healthy : {"nil", "true", "false"},
     Message : BOOLEAN, LastQueryError : BOOLEAN, Blockers : BOOLEAN]

\* One entry of status.providerHealth.  LastQueryError is the set of texts it
\* is made of, empty for the empty string.
HealthEntries ==
    [Health : {"Unknown", "True", "False"},
     Reason : {"", "message", "unchecked", "no verdict"},
     LastQueryError : SUBSET {"reported", "message", "unexplained", "blockers"}]

\* Mutant of Determinate: a nil verdict counts as one.
Determinate_NilIsFalse(p) == p.Checked

\* Checked alone is not a verdict.
Determinate(p) == p.Checked /\ p.Healthy # "nil"

why(p) == CASE p.Message -> "message"
            [] ~p.Message /\ ~p.Checked -> "unchecked"
            [] ~p.Message /\ p.Checked -> "no verdict"

\* Mutant of lastQueryError: a failure without a text is left without one.
lastQueryError_Empty(p) ==
    (CASE p.LastQueryError -> {"reported"}
       [] ~p.LastQueryError /\ p.Healthy # "true" /\ p.Message -> {"message"}
       [] OTHER -> {})
    \cup (IF p.Blockers THEN {"blockers"} ELSE {})

lastQueryError(p) ==
    (CASE p.LastQueryError -> {"reported"}
       [] ~p.LastQueryError /\ p.Healthy # "true" /\ p.Message -> {"message"}
       [] ~p.LastQueryError /\ p.Healthy # "true" /\ ~p.Message -> {"unexplained"}
       [] OTHER -> {})
    \cup (IF p.Blockers THEN {"blockers"} ELSE {})

healthEntry(p) ==
    IF Determinate(p)
    THEN [Health |-> IF p.Healthy = "true" THEN "True" ELSE "False",
          Reason |-> "", LastQueryError |-> lastQueryError(p)]
    ELSE [Health |-> "Unknown", Reason |-> why(p), LastQueryError |-> {}]

\* Every reported provider gets an entry; the second result is the positions of
\* those whose health could not be determined.
splitProviderHealth(providers) ==
    [entries |-> [n \in DOMAIN providers |-> healthEntry(providers[n])],
     undetermined |-> {n \in DOMAIN providers : ~Determinate(providers[n])}]
=============================================================================
