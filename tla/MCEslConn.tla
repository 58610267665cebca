------------------------------ MODULE MCEslConn ------------------------------
(***************************************************************************)
(* Three calls over a channel of two responses, so that two unclaimed      *)
(* responses fill it, the last call on the connection's own context.       *)
(***************************************************************************)
EXTENDS EslConn

CONSTANTS c1, c2, c3
ThreeCommands == {c1, c2, c3}
OnePatient == {c3}
=============================================================================
