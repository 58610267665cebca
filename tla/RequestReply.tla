----------------------------- MODULE RequestReply -----------------------------
(***************************************************************************)
(* What a request/reply client promises its callers: a request that ends   *)
(* well was executed by the other side and got the reply to itself; one    *)
(* that fails may have been executed, or still be.  Each ends once.        *)
(***************************************************************************)
CONSTANT Requests

VARIABLES
  outcome,    \* [Requests -> {"none", "waiting", "ok", "failed"}]
  executed    \* the requests the other side has executed

vars == <<outcome, executed>>

Init == outcome = [r \in Requests |-> "none"] /\ executed = {}

Issue(r) ==
  /\ outcome[r] = "none"
  /\ outcome' = [outcome EXCEPT ![r] = "waiting"]
  /\ UNCHANGED executed

Refuse(r) ==
  /\ outcome[r] = "none"
  /\ outcome' = [outcome EXCEPT ![r] = "failed"]
  /\ UNCHANGED executed

Execute(r) ==
  /\ outcome[r] # "none" /\ r \notin executed
  /\ executed' = executed \cup {r}
  /\ UNCHANGED outcome

Finish(r) ==
  /\ outcome[r] = "waiting"
  /\ \/ r \in executed /\ outcome' = [outcome EXCEPT ![r] = "ok"]
     \/ outcome' = [outcome EXCEPT ![r] = "failed"]
  /\ UNCHANGED executed

Next == \E r \in Requests : Issue(r) \/ Refuse(r) \/ Execute(r) \/ Finish(r)

Safety == Init /\ [][Next]_vars
Spec == Safety /\ \A r \in Requests : WF_vars(Finish(r))
=============================================================================
