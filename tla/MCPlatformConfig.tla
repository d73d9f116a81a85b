---------------------------- MODULE MCPlatformConfig ----------------------------
(***************************************************************************)
(* Values for the constants of PlatformConfig.                             *)
(***************************************************************************)
EXTENDS PlatformConfig

Reported(checked, healthy) ==
    [Checked |-> checked, Healthy |-> healthy, Message |-> FALSE,
     LastQueryError |-> FALSE, Blockers |-> FALSE]

Up        == Reported(TRUE, "true")
Unchecked == Reported(FALSE, "nil")

TwoReports == {<<Up>>, <<Up, Unchecked>>}
OneReport  == {<<Up>>}

APIFails == [answered |-> TRUE, code |-> 500, body |-> [shape |-> "opaque", key |-> ""]]

\* A 200 that reports the switch without having moved it comes in both values.
SwitchAnswers == {NotAnswered, APIFails, Ok(PausedBody(TRUE)), Ok(PausedBody(FALSE))}
HealthAnswers == {NotAnswered, APIFails}
None          == {}
=============================================================================
