------------------------------ MODULE MCVoipPush ------------------------------
(***************************************************************************)
(* Two users, two tokens that they may both claim, two registrations, and  *)
(* one push of two attempts.                                               *)
(***************************************************************************)
EXTENDS VoipPush

CONSTANTS alice, bob, t1, t2, p1
TwoUsers == {alice, bob}
TwoTokens == {t1, t2}
OnePush == {p1}
=============================================================================
