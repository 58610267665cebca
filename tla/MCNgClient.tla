----------------------------- MODULE MCNgClient ------------------------------
(***************************************************************************)
(* Two Sends, which is all the reader and Close tell apart, and one        *)
(* duplicated response.                                                    *)
(***************************************************************************)
EXTENDS NgClient

CONSTANTS r1, r2
TwoSends == {r1, r2}
=============================================================================
