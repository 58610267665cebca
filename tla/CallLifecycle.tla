---------------------------- MODULE CallLifecycle ----------------------------
(***************************************************************************)
(* What the call table of esl-resilience promises, without its events,     *)
(* records, timers or lock: a call is set up, may be talked on, ends once, *)
(* and is forgotten some time after it ended, when its UUID is free again. *)
(***************************************************************************)
CONSTANT Uuids

VARIABLE phase     \* where each call is in its life

Init == phase = [u \in Uuids |-> "none"]

Move(u, from, to) ==
  /\ phase[u] \in from
  /\ phase' = [phase EXCEPT ![u] = to]

Begin(u)  == Move(u, {"none"}, "setup")
Answer(u) == Move(u, {"setup"}, "talking")
End(u)    == Move(u, {"setup", "talking"}, "ended")
Forget(u) == Move(u, {"ended"}, "none")

Next == \E u \in Uuids : Begin(u) \/ Answer(u) \/ End(u) \/ Forget(u)

Safety == Init /\ [][Next]_phase

(* An ended call does not stay for ever; nothing obliges a call to end. *)
Spec == Safety /\ \A u \in Uuids : WF_phase(Forget(u))
=============================================================================
