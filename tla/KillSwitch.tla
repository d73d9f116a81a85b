------------------------------ MODULE KillSwitch ------------------------------
(***************************************************************************)
(* What spec.paused of the singleton PlatformConfig promises about the     *)
(* control plane's kill switch (platformconfig_controller.go:20-45),       *)
(* without a cache, a queue, a worker or a network: the flag moves only to *)
(* a value its owner asked for, and never away from what is claimed.       *)
(*                                                                         *)
(* PlatformConfig implements this module as long as nobody else flips the  *)
(* flag and no push is served late.                                        *)
(***************************************************************************)

VARIABLES
    wish,     \* what the owner wants now: {}, {TRUE} (paused) or {FALSE}
    words,    \* everything the owner ever wanted
    claimed,  \* is the wish reported as fulfilled?
    flag      \* the switch

vars == <<wish, words, claimed, flag>>

TypeOK ==
    /\ wish \in {{}, {TRUE}, {FALSE}}
    /\ words \subseteq BOOLEAN
    /\ claimed \in BOOLEAN
    /\ flag \in BOOLEAN

Init ==
    /\ wish = {}
    /\ words = {}
    /\ claimed = FALSE
    /\ flag \in BOOLEAN

Ask(v) ==
    /\ wish' = {v}
    /\ words' = words \cup {v}
    /\ claimed' = FALSE
    /\ UNCHANGED flag

\* Withdrawing the wish leaves the flag where it is.
Withdraw ==
    /\ wish' = {}
    /\ claimed' = FALSE
    /\ UNCHANGED <<words, flag>>

\* An older wish may still be carried out, but not against a claim.
Move(v) ==
    /\ v \in words
    /\ claimed => v \in wish
    /\ flag' = v
    /\ UNCHANGED <<wish, words, claimed>>

Claim ==
    /\ flag \in wish
    /\ claimed' = TRUE
    /\ UNCHANGED <<wish, words, flag>>

Disclaim ==
    /\ claimed' = FALSE
    /\ UNCHANGED <<wish, words, flag>>

Next == (\E v \in BOOLEAN : Ask(v) \/ Move(v)) \/ Withdraw \/ Claim \/ Disclaim

Spec == Init /\ [][Next]_vars

\* A claim is true, and an empty wish is never claimed.
ClaimIsTrue == claimed => wish = {flag}
=============================================================================
