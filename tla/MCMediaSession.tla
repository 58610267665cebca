---------------------------- MODULE MCMediaSession ----------------------------
(***************************************************************************)
(* One call and three operations on it, the deletes of the cleanup and of  *)
(* Close among them: enough for an offer, an answer or a delete to race    *)
(* the deletion of an expired session.                                     *)
(***************************************************************************)
EXTENDS MediaSession

CONSTANTS o1, o2, o3, a
ThreeOps == {o1, o2, o3}
OneCall == {a}
=============================================================================
