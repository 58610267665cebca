----------------------------- MODULE CallMachine -----------------------------
(***************************************************************************)
(* The call table of esl-resilience (internal/state): one record per       *)
(* channel UUID, moved by FreeSWITCH events through the transition table,  *)
(* and forgotten by a goroutine that each ended call starts.               *)
(*                                                                         *)
(* HandleEvent holds the write lock from its first map access to its       *)
(* return, so one event is one step.  cleanupCall sleeps without the lock, *)
(* so its spawn (part of the ending event) and its wake-up are two steps   *)
(* and everything can happen between them.                                 *)
(*                                                                         *)
(* Abstractions: times are instants of a clock that Tick advances; the     *)
(* caller, callee, direction, hang-up cause and copied headers are data no *)
(* property reads.                                                         *)
(***************************************************************************)
EXTENDS Integers

CONSTANTS
  Uuids,    \* channel UUIDs that events may carry
  Retain,   \* how long an ended call is kept: the 5 minutes of cleanupCall
  Horizon   \* bound: no event changes the table after this instant

ASSUME RetainAssumption == Retain \in Nat \ {0}
ASSUME HorizonAssumption == Horizon \in Nat

VARIABLES
  now,       \* time.Now()
  calls,     \* m.calls: NoCall where the map has no entry
  cleaners   \* cleanups sleeping for a uuid: the instants they wake at

vars == <<now, calls, cleaners>>

-----------------------------------------------------------------------------
Init_ == "CALL_INIT"
Early == "CALL_EARLY"
Confirmed == "CALL_CONFIRMED"
Established == "CALL_ESTABLISHED"
Terminated == "CALL_TERMINATED"
Failed == "CALL_FAILED"
Ended == {Terminated, Failed}
States == {Init_, Early, Confirmed, Established} \cup Ended

Events == {"CHANNEL_CREATE", "CHANNEL_PROGRESS", "CHANNEL_ANSWER", "CHANNEL_PARK",
           "CHANNEL_HANGUP_COMPLETE", "CHANNEL_EXECUTE_COMPLETE"}

Unset == -1                       \* a nil *time.Time, a zero Duration
Instants == Nat \cup {Unset}
CallInfo == [state : States, updated : Nat, answered : Instants, talk : Instants]
NoCall == [state |-> "NONE", updated |-> 0, answered |-> Unset, talk |-> Unset]

Tracked(u) == calls[u] # NoCall
HasEnded(c) == c.state \in Ended

(* initializeTransitions: the pairs of states the table accepts. *)
TransitionsLateAnswer == {Init_} \X {Early, Confirmed, Terminated, Failed}
  \cup {Early} \X {Confirmed, Terminated, Failed}
  \cup {Confirmed} \X {Established, Terminated, Failed}
  \cup {Established} \X {Terminated, Failed}
  \cup Ended \X {Init_, Confirmed}
Transitions == {Init_} \X {Early, Confirmed, Terminated, Failed}
  \cup {Early} \X {Confirmed, Terminated, Failed}
  \cup {Confirmed} \X {Established, Terminated, Failed}
  \cup {Established} \X {Terminated, Failed}
  \cup Ended \X {Init_}

(* The state an event asks for.  CHANNEL_CREATE is not among them: the     *)
(* switch of processTransition leaves it to its default branch.            *)
Target(ev) ==
  CASE ev = "CHANNEL_PROGRESS"         -> Early
    [] ev = "CHANNEL_ANSWER"           -> Confirmed
    [] ev = "CHANNEL_PARK"             -> Established
    [] ev = "CHANNEL_HANGUP_COMPLETE"  -> Terminated
    [] ev = "CHANNEL_EXECUTE_COMPLETE" -> Failed

(* The fields the switch assigns before the transition is validated, so    *)
(* also by an event that is then refused.                                  *)
Marked(c, ev) ==
  CASE ev = "CHANNEL_ANSWER" -> [c EXCEPT !.answered = now]
    [] ev = "CHANNEL_HANGUP_COMPLETE" /\ c.answered # Unset ->
         [c EXCEPT !.talk = now - c.answered]
    [] OTHER -> c

(* A CHANNEL_PARK outside CALL_CONFIRMED has an early return of its own;   *)
(* the table refuses the same pairs, so it needs no case here.             *)
Accepts(c, ev) == <<c.state, Target(ev)>> \in Transitions

-----------------------------------------------------------------------------
Init ==
  /\ now = 0
  /\ calls = [u \in Uuids |-> NoCall]
  /\ cleaners = [u \in Uuids |-> {}]

(* CHANNEL_CREATE for a UUID the table does not hold. *)
Create(u) ==
  /\ ~Tracked(u)
  /\ calls' = [calls EXCEPT ![u] =
                 [state |-> Init_, updated |-> now, answered |-> Unset, talk |-> Unset]]
  /\ UNCHANGED <<now, cleaners>>

(* Nothing happens on an event without a UUID, on any other first event    *)
(* of an unknown call, or on a CHANNEL_CREATE for a call that is held.     *)
DropRestarting ==
  \/ UNCHANGED vars
  \/ \E u \in Uuids :
       /\ HasEnded(calls[u])
       /\ calls' = [calls EXCEPT ![u].state = Init_, ![u].updated = now]
       /\ UNCHANGED <<now, cleaners>>
Drop == UNCHANGED vars

(* The end of a call starts its cleanup. *)
CleanersOnHangupOnly(u, ev) ==
  IF Target(ev) = Terminated THEN [cleaners EXCEPT ![u] = @ \cup {now + Retain}] ELSE cleaners
CleanersAfter(u, ev) ==
  IF Target(ev) \in Ended THEN [cleaners EXCEPT ![u] = @ \cup {now + Retain}] ELSE cleaners

(* An event that the table accepts in the state the call is in. *)
Accept(u, ev) ==
  /\ Tracked(u)
  /\ Accepts(calls[u], ev)
  /\ calls' = [calls EXCEPT ![u] = [Marked(@, ev) EXCEPT !.state = Target(ev), !.updated = now]]
  /\ cleaners' = CleanersAfter(u, ev)
  /\ UNCHANGED now

(* An event the table refuses: an error is returned, and what the switch   *)
(* assigned before the check stays.                                        *)
Refuse(u, ev) ==
  /\ Tracked(u)
  /\ ~Accepts(calls[u], ev)
  /\ calls' = [calls EXCEPT ![u] = Marked(@, ev)]
  /\ UNCHANGED <<now, cleaners>>

HandleEvent ==
  \/ /\ now <= Horizon
     /\ \E u \in Uuids :
          \/ Create(u)
          \/ \E ev \in Events \ {"CHANNEL_CREATE"} : Accept(u, ev) \/ Refuse(u, ev)
  \/ Drop

(* cleanupCall after its sleep: it deletes the record it finds under the   *)
(* UUID if that one has ended, whichever call it was started for.          *)
CleanupCall(u) ==
  \E due \in cleaners[u] :
    /\ due <= now
    /\ cleaners' = [cleaners EXCEPT ![u] = @ \ {due}]
    /\ calls' = IF HasEnded(calls[u]) THEN [calls EXCEPT ![u] = NoCall] ELSE calls
    /\ UNCHANGED now

Tick ==
  /\ now < Horizon + Retain
  /\ now' = now + 1
  /\ UNCHANGED <<calls, cleaners>>

Next == HandleEvent \/ Tick \/ \E u \in Uuids : CleanupCall(u)

(* Time passes, and a goroutine whose sleep is over gets the lock: every   *)
(* holder of it releases it after a bounded amount of work.                *)
Spec == Init /\ [][Next]_vars /\ WF_vars(Tick) /\ \A u \in Uuids : WF_vars(CleanupCall(u))

-----------------------------------------------------------------------------
TypeOK ==
  /\ now \in Nat
  /\ calls \in [Uuids -> CallInfo \cup {NoCall}]
  /\ cleaners \in [Uuids -> SUBSET Nat]

(* Exactly the calls that have ended have a cleanup under way, one, which  *)
(* wakes when the call has been kept for the retention time: no record     *)
(* leaks and no goroutine outlives the call that started it.               *)
CleanupExact ==
  \A u \in Uuids :
    cleaners[u] = IF HasEnded(calls[u]) THEN {calls[u].updated + Retain} ELSE {}

(* The fields assigned before the check never contradict the state the     *)
(* check then decides: a call that has an answer time is past setup, a     *)
(* confirmed one has it, and one with a talk time is over.                 *)
RecordMatchesState ==
  \A u \in Uuids :
    /\ calls[u].state \in {Init_, Early} => calls[u].answered = Unset
    /\ calls[u].state \in {Confirmed, Established} => calls[u].answered # Unset
    /\ calls[u].talk # Unset => HasEnded(calls[u])

(* A record leaves the table only when its call has ended and has been     *)
(* kept for the retention time since ("Keep call data for 5 minutes").     *)
KeptForRetention ==
  [][\A u \in Uuids :
       Tracked(u) /\ calls'[u] = NoCall =>
         HasEnded(calls[u]) /\ now >= calls[u].updated + Retain]_vars

(* The table implements the life of a call: events out of place, repeated  *)
(* or late never move a call backwards, end it twice or lose an active one,*)
(* and every ended call is eventually forgotten.                           *)
Phase(c) ==
  CASE c.state \in {Init_, Early} -> "setup"
    [] c.state \in {Confirmed, Established} -> "talking"
    [] c.state \in Ended -> "ended"
    [] OTHER -> "none"
Lifecycle == INSTANCE CallLifecycle WITH phase <- [u \in Uuids |-> Phase(calls[u])]
FollowsLifecycle == Lifecycle!Spec

(* The table is sound: well typed, with one cleanup for each ended call    *)
(* and records that match their states, repeated and late events or not.   *)
TableSound == TypeOK /\ CleanupExact /\ RecordMatchesState
=============================================================================
