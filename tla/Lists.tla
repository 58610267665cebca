------------------------------- MODULE Lists -------------------------------
(***************************************************************************)
(* What a loop that appends the elements it wants to a new slice leaves,   *)
(* in Query of the log and in the edits of a session description.          *)
(***************************************************************************)
EXTENDS Naturals, Sequences

(* The elements of s that are in S, in their order. *)
Only(s, S) ==
  LET kept[i \in 0 .. Len(s)] ==
        IF i = 0 THEN <<>> ELSE IF s[i] \in S THEN Append(kept[i - 1], s[i]) ELSE kept[i - 1]
  IN kept[Len(s)]
=============================================================================
