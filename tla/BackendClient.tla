---------------------------- MODULE BackendClient ----------------------------
(***************************************************************************)
(* internal/backendclient/client.go: what one HTTP exchange with the       *)
(* control plane becomes for the reconciler that made it.                  *)
(*                                                                         *)
(* A wire answer is a record [answered, code, body]:                       *)
(*   answered = FALSE  the exchange failed in transport (refused, timed    *)
(*                     out, connection cut while reading the body);        *)
(*   code              the HTTP status;                                    *)
(*   body              a record whose shape says what the JSON holds:      *)
(*     "result"      the 200 body of a reconcile or close endpoint         *)
(*     "structured"  {"detail": {"category": ...}}                         *)
(*     "plain"       {"detail": "...", "reason": ...}                      *)
(*     "opaque"      no JSON object at all (an HTML page, a cut body)      *)
(*                                                                         *)
(* Messages, keys that only reach a message (code, edge_keys) and the      *)
(* request's encoding are left out: no decision depends on them.           *)
(***************************************************************************)
EXTENDS Naturals

CONSTANTS
    Counts      \* the numbers of edges and workloads an answer can carry

ASSUME CountsAssumption == Counts \subseteq Nat /\ 0 \in Counts

-----------------------------------------------------------------------------
(* Wire shapes. *)

\* ReconcileResult and CloseResult.  Unverified stands for a non-empty
\* unverified_edge_keys; ProviderInstalled is a *bool, hence the third value.
Results ==
    [shape : {"result"}, Status : {"ok", "other"}, EdgesUpserted : Counts,
     MatchedWorkloads : Counts, Unverified : BOOLEAN,
     ProviderInstalled : {"absent", "true", "false"}]

\* What json.Unmarshal leaves in the result when the JSON object it decodes
\* has none of the result's fields.
ZeroResult ==
    [shape |-> "result", Status |-> "other", EdgesUpserted |-> 0,
     MatchedWorkloads |-> 0, Unverified |-> FALSE,
     ProviderInstalled |-> "absent"]

Categories == {"", "paused", "provider_unavailable", "write_not_verified",
               "operator_token_not_configured", "cluster", "other"}

ErrorBodies ==
    [shape : {"structured"}, key : Categories]
        \cup [shape : {"plain"}, key : {"", "other"}]
        \cup [shape : {"opaque"}, key : {""}]

StatusCodes == {200, 400, 423, 500, 502, 503}

WireAnswers ==
    [answered : BOOLEAN, code : StatusCodes, body : Results \cup ErrorBodies]

-----------------------------------------------------------------------------
(* Errors, as the Go value err a caller receives. *)

NoError           == [type |-> "nil", StatusCode |-> 0, Category |-> ""]
UnconfiguredError == [type |-> "UnconfiguredError", StatusCode |-> 0, Category |-> ""]
\* A wrapped transport or decoding error: neither an *APIError nor an
\* *UnconfiguredError.
PlainError        == [type |-> "plain", StatusCode |-> 0, Category |-> ""]

Errors == {NoError, UnconfiguredError, PlainError}
             \cup [type : {"APIError"}, StatusCode : StatusCodes, Category : Categories]

\* The category comes from the structured detail; a plain detail with a reason
\* is filed under "cluster"; anything else leaves it empty.
parseAPIError(status, body) ==
    [type |-> "APIError", StatusCode |-> status,
     Category |-> CASE body.shape = "structured" -> body.key
                    [] body.shape = "plain" /\ body.key # "" -> "cluster"
                    [] OTHER -> ""]

IsUnconfigured(err) == err.type = "UnconfiguredError"
IsAPIError(err)     == err.type = "APIError"

IsPaused(err) ==
    IsAPIError(err) /\ (err.StatusCode = 423 \/ err.Category = "paused")

IsProviderUnavailable(err) ==
    IsAPIError(err) /\ (err.StatusCode = 503 \/ err.Category = "provider_unavailable")

IsWriteNotVerified(err) ==
    IsAPIError(err) /\ err.Category = "write_not_verified"

-----------------------------------------------------------------------------
(* Client.do: the single chokepoint of every exported call. *)

Failed(err)  == [err |-> err, res |-> ZeroResult]
Decoded(res) == [err |-> NoError, res |-> res]

\* Mutant of do: the status code is not looked at when the body decodes.
do_TrustsBody(configured, wire) ==
    CASE ~configured                  -> Failed(UnconfiguredError)
      [] configured /\ ~wire.answered -> Failed(PlainError)
      [] configured /\ wire.answered  -> CASE wire.body.shape = "result" -> Decoded(wire.body)
                                          [] OTHER -> Failed(parseAPIError(wire.code, wire.body))

do(configured, wire) ==
    CASE ~configured                    -> Failed(UnconfiguredError)
      [] configured /\ ~wire.answered   -> Failed(PlainError)
      [] configured /\ wire.answered /\ wire.code \notin 200..299
                                        -> Failed(parseAPIError(wire.code, wire.body))
      [] configured /\ wire.answered /\ wire.code \in 200..299
                                        -> CASE wire.body.shape = "opaque" -> Failed(PlainError)
                                             [] wire.body.shape = "result" -> Decoded(wire.body)
                                             [] OTHER -> Decoded(ZeroResult)
=============================================================================
