---------------------------- MODULE MCCallMachine ----------------------------
(***************************************************************************)
(* Two calls on the table of CallMachine: enough for one to be cleaned up  *)
(* while the other is talked on, and for a UUID to be used again.          *)
(***************************************************************************)
EXTENDS CallMachine

CONSTANTS u1, u2
OneCall == {u1}
TwoCalls == {u1, u2}
=============================================================================
