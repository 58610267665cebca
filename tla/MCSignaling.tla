----------------------------- MODULE MCSignaling -----------------------------
(***************************************************************************)
(* Two connections of one user, who calls the other device, and one        *)
(* session, with Send channels of one message: a second message already    *)
(* blocks its sender.                                                      *)
(***************************************************************************)
EXTENDS Signaling

CONSTANTS c1, c2, alice, s1
TwoClients == {c1, c2}
OneUser == {alice}
OneSession == {s1}
=============================================================================
