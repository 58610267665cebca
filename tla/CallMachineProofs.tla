-------------------------- MODULE CallMachineProofs --------------------------
(***************************************************************************)
(* Proofs about CallMachine for any set of UUIDs, any retention time and   *)
(* any horizon: its inductive invariant, the retention of ended calls, and *)
(* the safety part of the refinement of CallLifecycle.                     *)
(***************************************************************************)
EXTENDS CallMachine, TLAPS

ChangeEvents == Events \ {"CHANNEL_CREATE"}

(* An answer is never in the future, so a talk time is never negative. *)
AnsweredInPast == \A u \in Uuids : calls[u].answered <= now

IInv == TypeOK /\ AnsweredInPast /\ CleanupExact /\ RecordMatchesState

USE DEF Init_, Early, Confirmed, Established, Terminated, Failed, Ended, States

-----------------------------------------------------------------------------
(* The state an event asks for is a state, and never CALL_INIT. *)
LEMMA TargetType ==
  ASSUME NEW ev \in ChangeEvents
  PROVE  Target(ev) \in States \ {Init_}
BY DEF Target, ChangeEvents, Events

(* The table takes no event of an ended call, and knows where from each    *)
(* state can be entered.                                                   *)
LEMMA AcceptedTransition ==
  ASSUME NEW c, NEW ev \in ChangeEvents, Accepts(c, ev)
  PROVE  /\ c.state \in {Init_, Early, Confirmed, Established}
         /\ Target(ev) = Early => c.state = Init_
         /\ Target(ev) = Confirmed => c.state \in {Init_, Early}
         /\ Target(ev) = Established => c.state = Confirmed
BY TargetType DEF Accepts, Transitions

(* Only an active call refuses nothing it must act on: an answer is        *)
(* refused after the setup only, a hang-up after the end only.             *)
LEMMA RefusedTransition ==
  ASSUME NEW c \in CallInfo, NEW ev \in ChangeEvents, ~Accepts(c, ev)
  PROVE  /\ ev = "CHANNEL_ANSWER" => c.state \notin {Init_, Early}
         /\ ev = "CHANNEL_HANGUP_COMPLETE" => HasEnded(c)
BY DEF Accepts, Transitions, Target, HasEnded, CallInfo

(* What the switch assigns before the check: times only, and they are      *)
(* instants if the answer was not in the future.                           *)
LEMMA MarkedFields ==
  ASSUME NEW c \in CallInfo, NEW ev \in ChangeEvents, now \in Nat, c.answered <= now
  PROVE  /\ Marked(c, ev) \in CallInfo
         /\ Marked(c, ev).state = c.state
         /\ Marked(c, ev).updated = c.updated
         /\ Marked(c, ev).answered <= now
         /\ Marked(c, ev).answered # c.answered => ev = "CHANNEL_ANSWER"
         /\ ev = "CHANNEL_ANSWER" => Marked(c, ev).answered # Unset
         /\ c.answered # Unset => Marked(c, ev).answered # Unset
         /\ Marked(c, ev).talk # c.talk =>
              ev = "CHANNEL_HANGUP_COMPLETE" /\ c.answered # Unset
<1>1. CASE ev = "CHANNEL_ANSWER"
  BY <1>1 DEF Marked, CallInfo, Instants, Unset
<1>2. CASE ev = "CHANNEL_HANGUP_COMPLETE" /\ c.answered # Unset
  <2>1. now - c.answered \in Nat
    BY <1>2 DEF CallInfo, Instants, Unset
  <2>2. Marked(c, ev) = [c EXCEPT !.talk = now - c.answered]
    BY <1>2 DEF Marked
  <2> QED BY <2>1, <2>2, <1>2 DEF CallInfo, Instants, Unset
<1>3. CASE /\ ev # "CHANNEL_ANSWER"
           /\ ~(ev = "CHANNEL_HANGUP_COMPLETE" /\ c.answered # Unset)
  <2>1. Marked(c, ev) = c
    BY <1>3 DEF Marked
  <2> QED BY <2>1, <1>3
<1> QED BY <1>1, <1>2, <1>3

LEMMA NoCallIsNoRecord ==
  /\ NoCall \notin CallInfo
  /\ NoCall.state = "NONE"
  /\ ~HasEnded(NoCall)
  /\ NoCall.answered = Unset
  /\ NoCall.talk = Unset
BY DEF NoCall, CallInfo, HasEnded

-----------------------------------------------------------------------------
(* The initial table satisfies the invariant. *)
LEMMA InitIInv == Init => IInv
BY NoCallIsNoRecord
   DEF Init, IInv, TypeOK, AnsweredInPast, CleanupExact, RecordMatchesState, Unset

LEMMA CreateStep ==
  ASSUME IInv, NEW u \in Uuids, Create(u)
  PROVE  IInv'
<1> DEFINE new == [state |-> Init_, updated |-> now, answered |-> Unset, talk |-> Unset]
<1>1. new \in CallInfo /\ ~HasEnded(new)
  BY DEF CallInfo, Instants, HasEnded, IInv, TypeOK
<1>2. calls' = [calls EXCEPT ![u] = new] /\ now' = now /\ cleaners' = cleaners
  BY DEF Create
<1>3. ~HasEnded(calls[u])
  BY NoCallIsNoRecord DEF Create, Tracked
<1>4. TypeOK'
  BY <1>1, <1>2 DEF IInv, TypeOK
<1>5. AnsweredInPast'
  BY <1>2 DEF IInv, TypeOK, AnsweredInPast, Unset
<1>6. CleanupExact'
  BY <1>1, <1>2, <1>3 DEF IInv, TypeOK, CleanupExact
<1>7. RecordMatchesState'
  BY <1>2 DEF IInv, TypeOK, RecordMatchesState, HasEnded
<1> QED BY <1>4, <1>5, <1>6, <1>7 DEF IInv

(* An accepted event: the ending ones start the cleanup in the same step,  *)
(* which is what keeps CleanupExact.                                       *)
LEMMA AcceptStep ==
  ASSUME IInv, NEW u \in Uuids, NEW ev \in ChangeEvents, Accept(u, ev)
  PROVE  IInv'
<1> DEFINE m == Marked(calls[u], ev)
           new == [m EXCEPT !.state = Target(ev), !.updated = now]
<1>1. calls[u] \in CallInfo /\ now \in Nat /\ calls[u].answered <= now
  BY DEF Accept, Tracked, IInv, TypeOK, AnsweredInPast
<1>2. /\ m \in CallInfo /\ m.state = calls[u].state /\ m.answered <= now
      /\ m.answered # calls[u].answered => ev = "CHANNEL_ANSWER"
      /\ ev = "CHANNEL_ANSWER" => m.answered # Unset
      /\ calls[u].answered # Unset => m.answered # Unset
      /\ m.talk # calls[u].talk => ev = "CHANNEL_HANGUP_COMPLETE"
  BY <1>1, MarkedFields
<1>3. /\ calls[u].state \in {Init_, Early, Confirmed, Established}
      /\ Target(ev) = Early => calls[u].state = Init_
      /\ Target(ev) = Established => calls[u].state = Confirmed
      /\ Target(ev) \in States \ {Init_}
  BY AcceptedTransition, TargetType DEF Accept
<1>4. /\ new \in CallInfo /\ new.state = Target(ev) /\ new.updated = now
      /\ new.answered = m.answered /\ new.talk = m.talk
  <2> HIDE DEF m
  <2> QED BY <1>1, <1>2, <1>3 DEF CallInfo
<1>5. /\ calls' = [calls EXCEPT ![u] = new] /\ now' = now
      /\ cleaners' = IF Target(ev) \in Ended
                     THEN [cleaners EXCEPT ![u] = @ \cup {now + Retain}] ELSE cleaners
  BY DEF Accept, CleanersAfter
<1>6. cleaners[u] = {}
  BY <1>3 DEF IInv, CleanupExact, HasEnded
<1> HIDE DEF new, m
<1>7. TypeOK'
  <2>1. calls' \in [Uuids -> CallInfo \cup {NoCall}]
    BY <1>4, <1>5 DEF IInv, TypeOK
  <2>2. cleaners' \in [Uuids -> SUBSET Nat]
    BY <1>1, <1>5, RetainAssumption DEF IInv, TypeOK
  <2> QED BY <2>1, <2>2, <1>1, <1>5 DEF TypeOK
<1>8. AnsweredInPast'
  BY <1>2, <1>4, <1>5 DEF IInv, TypeOK, AnsweredInPast
<1>9. CleanupExact'
  <2> SUFFICES ASSUME NEW v \in Uuids
               PROVE  cleaners'[v] = IF HasEnded(calls'[v]) THEN {calls'[v].updated + Retain} ELSE {}
    BY DEF CleanupExact
  <2>1. CASE v # u
    BY <2>1, <1>5 DEF IInv, TypeOK, CleanupExact
  <2>2. CASE v = u
    BY <2>2, <1>4, <1>5, <1>6 DEF IInv, TypeOK, HasEnded
  <2> QED BY <2>1, <2>2
<1>10. RecordMatchesState'
  <2>1. new.state \in {Init_, Early} => new.answered = Unset
    BY <1>2, <1>3, <1>4 DEF IInv, RecordMatchesState, Target, ChangeEvents, Events
  <2>2. new.state \in {Confirmed, Established} => new.answered # Unset
    BY <1>2, <1>3, <1>4 DEF IInv, RecordMatchesState, Target, ChangeEvents, Events
  <2>3. new.talk # Unset => HasEnded(new)
    BY <1>2, <1>3, <1>4 DEF IInv, RecordMatchesState, HasEnded, Target, ChangeEvents, Events
  <2>4. calls'[u] = new /\ \A v \in Uuids \ {u} : calls'[v] = calls[v]
    BY <1>5 DEF IInv, TypeOK
  <2> QED BY <2>1, <2>2, <2>3, <2>4 DEF IInv, RecordMatchesState
<1> QED BY <1>7, <1>8, <1>9, <1>10 DEF IInv

(* A refused event: it may set a time on a record whose state stays, so    *)
(* the states it is refused in decide RecordMatchesState.                  *)
LEMMA RefuseStep ==
  ASSUME IInv, NEW u \in Uuids, NEW ev \in ChangeEvents, Refuse(u, ev)
  PROVE  IInv'
<1> DEFINE m == Marked(calls[u], ev)
<1>1. calls[u] \in CallInfo /\ now \in Nat /\ calls[u].answered <= now
  BY DEF Refuse, Tracked, IInv, TypeOK, AnsweredInPast
<1>2. /\ m \in CallInfo /\ m.state = calls[u].state /\ m.answered <= now
      /\ m.updated = calls[u].updated
      /\ m.answered # calls[u].answered => ev = "CHANNEL_ANSWER"
      /\ calls[u].answered # Unset => m.answered # Unset
      /\ m.talk # calls[u].talk => ev = "CHANNEL_HANGUP_COMPLETE"
  BY <1>1, MarkedFields
<1>3. /\ ev = "CHANNEL_ANSWER" => calls[u].state \notin {Init_, Early}
      /\ ev = "CHANNEL_HANGUP_COMPLETE" => HasEnded(calls[u])
  BY <1>1, RefusedTransition DEF Refuse
<1>4. /\ calls' = [calls EXCEPT ![u] = m] /\ now' = now /\ cleaners' = cleaners
  BY DEF Refuse
<1> HIDE DEF m
<1>5. calls'[u] = m /\ \A v \in Uuids \ {u} : calls'[v] = calls[v]
  BY <1>4 DEF IInv, TypeOK
<1>6. TypeOK'
  BY <1>2, <1>4 DEF IInv, TypeOK
<1>7. AnsweredInPast'
  BY <1>2, <1>4, <1>5 DEF IInv, AnsweredInPast
<1>8. CleanupExact'
  BY <1>2, <1>4, <1>5 DEF IInv, CleanupExact, HasEnded
<1>9. RecordMatchesState'
  BY <1>2, <1>3, <1>5 DEF IInv, RecordMatchesState, HasEnded
<1> QED BY <1>6, <1>7, <1>8, <1>9 DEF IInv

(* The one cleanup of an ended call deletes it and is then gone. *)
LEMMA CleanupStep ==
  ASSUME IInv, NEW u \in Uuids, CleanupCall(u)
  PROVE  IInv' /\ HasEnded(calls[u]) /\ now >= calls[u].updated + Retain
<1>1. PICK due \in cleaners[u] :
        /\ due <= now
        /\ cleaners' = [cleaners EXCEPT ![u] = @ \ {due}]
        /\ calls' = IF HasEnded(calls[u]) THEN [calls EXCEPT ![u] = NoCall] ELSE calls
        /\ now' = now
  BY DEF CleanupCall
<1>2. HasEnded(calls[u]) /\ cleaners[u] = {calls[u].updated + Retain}
  BY <1>1 DEF IInv, CleanupExact
<1>3. due = calls[u].updated + Retain
  BY <1>1, <1>2
<1>4. calls'[u] = NoCall /\ \A v \in Uuids \ {u} : calls'[v] = calls[v]
  BY <1>1, <1>2 DEF IInv, TypeOK
<1>5. cleaners'[u] = {} /\ \A v \in Uuids \ {u} : cleaners'[v] = cleaners[v]
  BY <1>1, <1>2, <1>3 DEF IInv, TypeOK
<1>6. TypeOK'
  BY <1>1, <1>2 DEF IInv, TypeOK
<1>7. AnsweredInPast'
  BY <1>1, <1>4, NoCallIsNoRecord DEF IInv, TypeOK, AnsweredInPast, Unset
<1>8. CleanupExact'
  BY <1>4, <1>5, NoCallIsNoRecord DEF IInv, CleanupExact
<1>9. RecordMatchesState'
  BY <1>4, NoCallIsNoRecord DEF IInv, RecordMatchesState
<1>10. now >= calls[u].updated + Retain
  <2>1. calls[u].updated + Retain \in Nat
    BY <1>2 DEF IInv, TypeOK
  <2> QED BY <1>1, <1>3, <2>1 DEF IInv, TypeOK
<1> QED BY <1>2, <1>6, <1>7, <1>8, <1>9, <1>10 DEF IInv

LEMMA TickStep ==
  ASSUME IInv, Tick
  PROVE  IInv'
<1>1. now' = now + 1 /\ calls' = calls /\ cleaners' = cleaners
  BY DEF Tick
<1>2. AnsweredInPast'
  <2> SUFFICES ASSUME NEW u \in Uuids PROVE calls[u].answered <= now + 1
    BY <1>1 DEF AnsweredInPast
  <2>1. calls[u].answered \in Int /\ calls[u].answered <= now
    BY DEF IInv, TypeOK, AnsweredInPast, CallInfo, Instants, NoCall, Unset
  <2> QED BY <2>1 DEF IInv, TypeOK
<1>3. TypeOK' /\ CleanupExact' /\ RecordMatchesState'
  BY <1>1 DEF IInv, TypeOK, CleanupExact, RecordMatchesState
<1> QED BY <1>2, <1>3 DEF IInv

(* Every step keeps the invariant. *)
LEMMA NextIInv == IInv /\ [Next]_vars => IInv'
<1> SUFFICES ASSUME IInv, [Next]_vars PROVE IInv'
  OBVIOUS
<1>1. ASSUME NEW u \in Uuids, Create(u) PROVE IInv'
  BY <1>1, CreateStep
<1>2. ASSUME NEW u \in Uuids, NEW ev \in ChangeEvents, Accept(u, ev) PROVE IInv'
  BY <1>2, AcceptStep
<1>3. ASSUME NEW u \in Uuids, NEW ev \in ChangeEvents, Refuse(u, ev) PROVE IInv'
  BY <1>3, RefuseStep
<1>4. ASSUME NEW u \in Uuids, CleanupCall(u) PROVE IInv'
  BY <1>4, CleanupStep
<1>5. CASE Tick
  BY <1>5, TickStep
<1>6. CASE UNCHANGED vars
  BY <1>6 DEF vars, IInv, TypeOK, AnsweredInPast, CleanupExact, RecordMatchesState
<1> QED BY <1>1, <1>2, <1>3, <1>4, <1>5, <1>6 DEF Next, HandleEvent, Drop, ChangeEvents

(* The call table's invariant, for every set of UUIDs and every retention. *)
THEOREM Invariance == Spec => []IInv
<1> QED BY InitIInv, NextIInv, PTL DEF Spec

(* The table and its cleanups stay well typed. *)
THEOREM TypeCorrect == Spec => []TypeOK
BY Invariance, PTL DEF IInv

(* Every ended call has exactly one cleanup, due when its retention ends,  *)
(* and no other call has one.                                              *)
THEOREM CleanupIsExact == Spec => []CleanupExact
BY Invariance, PTL DEF IInv

(* The answer and talk times agree with the state of the call. *)
THEOREM RecordAgrees == Spec => []RecordMatchesState
BY Invariance, PTL DEF IInv

(* All of it at once. *)
THEOREM TableIsSound == Spec => []TableSound
<1>1. IInv => TableSound
  BY DEF IInv, TableSound
<1> QED BY <1>1, Invariance, PTL

-----------------------------------------------------------------------------
(* Which steps take a record away: the cleanup only. *)
LEMMA RemovalStep ==
  ASSUME IInv, [Next]_vars, NEW u \in Uuids, Tracked(u), calls'[u] = NoCall
  PROVE  HasEnded(calls[u]) /\ now >= calls[u].updated + Retain
<1>1. calls[u] \in CallInfo
  BY DEF IInv, TypeOK, Tracked
<1>2. ASSUME NEW v \in Uuids, Create(v) PROVE FALSE
  <2>1. v # u
    BY <1>2 DEF Create
  <2>2. calls'[u] = calls[u]
    BY <1>2, <2>1 DEF Create, IInv, TypeOK
  <2> QED BY <2>2 DEF Tracked
<1>3. ASSUME NEW v \in Uuids, NEW ev \in ChangeEvents, Accept(v, ev) \/ Refuse(v, ev)
      PROVE  FALSE
  <2>1. \E c : c.state \in States /\ calls' = [calls EXCEPT ![v] = c]
    <3>1. CASE Accept(v, ev)
      <4> DEFINE c == [Marked(calls[v], ev) EXCEPT !.state = Target(ev), !.updated = now]
      <4>1. Marked(calls[v], ev) \in CallInfo
        BY <3>1, MarkedFields DEF Accept, Tracked, IInv, TypeOK, AnsweredInPast
      <4>2. c.state = Target(ev)
        BY <4>1 DEF CallInfo
      <4>3. calls' = [calls EXCEPT ![v] = c]
        BY <3>1 DEF Accept
      <4> HIDE DEF c
      <4> QED BY <4>2, <4>3, TargetType
    <3>2. CASE Refuse(v, ev)
      <4>1. Marked(calls[v], ev) \in CallInfo
        BY <3>2, MarkedFields DEF Refuse, Tracked, IInv, TypeOK, AnsweredInPast
      <4>2. calls' = [calls EXCEPT ![v] = Marked(calls[v], ev)]
        BY <3>2 DEF Refuse
      <4> QED BY <4>1, <4>2 DEF CallInfo
    <3> QED BY <1>3, <3>1, <3>2
  <2>2. PICK c : c.state \in States /\ calls' = [calls EXCEPT ![v] = c]
    BY <2>1
  <2>3. calls'[u] = IF u = v THEN c ELSE calls[u]
    BY <2>2 DEF IInv, TypeOK
  <2> QED BY <2>2, <2>3, NoCallIsNoRecord DEF Tracked
<1>4. ASSUME NEW v \in Uuids, CleanupCall(v)
      PROVE  HasEnded(calls[u]) /\ now >= calls[u].updated + Retain
  <2>1. CASE v = u
    BY <1>4, <2>1, CleanupStep
  <2>2. CASE v # u
    <3>1. calls'[u] = calls[u]
      BY <1>4, <2>2 DEF CleanupCall, IInv, TypeOK
    <3> QED BY <3>1 DEF Tracked
  <2> QED BY <2>1, <2>2
<1>5. CASE Tick \/ UNCHANGED vars
  BY <1>5 DEF Tick, vars, Tracked
<1> QED BY <1>2, <1>3, <1>4, <1>5 DEF Next, HandleEvent, Drop, ChangeEvents

(* A record leaves the table only after its call has ended and been kept.  *)
THEOREM RetentionKept == Spec => KeptForRetention
<1>1. IInv /\ [Next]_vars =>
        [\A u \in Uuids : Tracked(u) /\ calls'[u] = NoCall =>
           HasEnded(calls[u]) /\ now >= calls[u].updated + Retain]_vars
  BY RemovalStep
<1> QED BY <1>1, Invariance, PTL DEF Spec, KeptForRetention

-----------------------------------------------------------------------------
PhaseOf == [u \in Uuids |-> Phase(calls[u])]

LEMMA PhaseOfState ==
  ASSUME NEW c
  PROVE  /\ c.state \in {Init_, Early} => Phase(c) = "setup"
         /\ c.state \in {Confirmed, Established} => Phase(c) = "talking"
         /\ HasEnded(c) => Phase(c) = "ended"
         /\ c = NoCall => Phase(c) = "none"
BY NoCallIsNoRecord DEF Phase, HasEnded

(* A step that changes the phase of one call is a move of CallLifecycle.   *)
LEMMA PhaseMove ==
  ASSUME NEW u \in Uuids, TypeOK,
         \A v \in Uuids \ {u} : calls'[v] = calls[v],
         NEW from, NEW to, Phase(calls[u]) \in from, Phase(calls'[u]) = to
  PROVE  Lifecycle!Move(u, from, to)
BY DEF Lifecycle!Move, Phase

LEMMA PhaseStutter ==
  ASSUME NEW u \in Uuids,
         \A v \in Uuids \ {u} : calls'[v] = calls[v],
         Phase(calls'[u]) = Phase(calls[u])
  PROVE  PhaseOf' = PhaseOf
BY DEF PhaseOf, Phase

(* Every step of the table is a step of the lifecycle or leaves it alone.  *)
LEMMA StepRefines ==
  ASSUME IInv, [Next]_vars
  PROVE  Lifecycle!Next \/ PhaseOf' = PhaseOf
<1>1. ASSUME NEW u \in Uuids, Create(u) PROVE Lifecycle!Begin(u)
  <2>1. Phase(calls[u]) = "none"
    BY <1>1, PhaseOfState DEF Create, Tracked
  <2>2. calls'[u].state = Init_ /\ \A v \in Uuids \ {u} : calls'[v] = calls[v]
    BY <1>1 DEF Create, IInv, TypeOK
  <2>3. Phase(calls'[u]) = "setup"
    BY <2>2, PhaseOfState
  <2> QED BY <2>1, <2>2, <2>3, PhaseMove DEF Lifecycle!Begin, IInv
<1>2. ASSUME NEW u \in Uuids, NEW ev \in ChangeEvents, Accept(u, ev)
      PROVE  Lifecycle!Answer(u) \/ Lifecycle!End(u) \/ PhaseOf' = PhaseOf
  <2> DEFINE c == [Marked(calls[u], ev) EXCEPT !.state = Target(ev), !.updated = now]
  <2>1. Marked(calls[u], ev) \in CallInfo
    BY <1>2, MarkedFields DEF Accept, Tracked, IInv, TypeOK, AnsweredInPast
  <2>2. c.state = Target(ev)
    BY <2>1 DEF CallInfo
  <2>3. calls' = [calls EXCEPT ![u] = c]
    BY <1>2 DEF Accept
  <2> HIDE DEF c
  <2>4. calls'[u].state = Target(ev) /\ \A v \in Uuids \ {u} : calls'[v] = calls[v]
    BY <2>2, <2>3 DEF IInv, TypeOK
  <2>5. /\ calls[u].state \in {Init_, Early, Confirmed, Established}
        /\ Target(ev) = Early => calls[u].state = Init_
        /\ Target(ev) = Confirmed => calls[u].state \in {Init_, Early}
        /\ Target(ev) = Established => calls[u].state = Confirmed
        /\ Target(ev) \in States \ {Init_}
    BY <1>2, AcceptedTransition, TargetType DEF Accept
  <2>6. CASE Target(ev) = Early
    <3>1. Phase(calls'[u]) = Phase(calls[u])
      BY <2>4, <2>5, <2>6, PhaseOfState
    <3> QED BY <3>1, <2>4, PhaseStutter
  <2>7. CASE Target(ev) = Confirmed
    <3>1. Phase(calls[u]) = "setup" /\ Phase(calls'[u]) = "talking"
      BY <2>4, <2>5, <2>7, PhaseOfState
    <3> QED BY <3>1, <2>4, PhaseMove DEF Lifecycle!Answer, IInv
  <2>8. CASE Target(ev) = Established
    <3>1. Phase(calls'[u]) = Phase(calls[u])
      BY <2>4, <2>5, <2>8, PhaseOfState
    <3> QED BY <3>1, <2>4, PhaseStutter
  <2>9. CASE Target(ev) \in Ended
    <3>1. Phase(calls[u]) \in {"setup", "talking"}
      BY <2>5, PhaseOfState
    <3>2. Phase(calls'[u]) = "ended"
      BY <2>4, <2>9, PhaseOfState DEF HasEnded
    <3> QED BY <3>1, <3>2, <2>4, PhaseMove DEF Lifecycle!End, IInv
  <2> QED BY <2>5, <2>6, <2>7, <2>8, <2>9
<1>3. ASSUME NEW u \in Uuids, NEW ev \in ChangeEvents, Refuse(u, ev)
      PROVE  PhaseOf' = PhaseOf
  <2>1. Marked(calls[u], ev).state = calls[u].state
    BY <1>3, MarkedFields DEF Refuse, Tracked, IInv, TypeOK, AnsweredInPast
  <2>2. calls'[u].state = calls[u].state /\ \A v \in Uuids \ {u} : calls'[v] = calls[v]
    BY <1>3, <2>1 DEF Refuse, IInv, TypeOK
  <2>3. Phase(calls'[u]) = Phase(calls[u])
    BY <2>2 DEF Phase
  <2> QED BY <2>2, <2>3, PhaseStutter
<1>4. ASSUME NEW u \in Uuids, CleanupCall(u) PROVE Lifecycle!Forget(u)
  <2>1. HasEnded(calls[u])
    BY <1>4, CleanupStep
  <2>2. calls'[u] = NoCall /\ \A v \in Uuids \ {u} : calls'[v] = calls[v]
    BY <1>4, <2>1 DEF CleanupCall, IInv, TypeOK
  <2>3. Phase(calls[u]) = "ended" /\ Phase(calls'[u]) = "none"
    BY <2>1, <2>2, PhaseOfState
  <2> QED BY <2>2, <2>3, PhaseMove DEF Lifecycle!Forget, IInv
<1>5. CASE Tick \/ UNCHANGED vars
  BY <1>5 DEF Tick, vars, PhaseOf, Phase
<1> QED
  BY <1>1, <1>2, <1>3, <1>4, <1>5
  DEF Next, HandleEvent, Drop, ChangeEvents, Lifecycle!Next

(* The call table implements the safety part of CallLifecycle. *)
THEOREM RefinesLifecycle == Spec => Lifecycle!Safety
<1>1. Init => Lifecycle!Init
  BY PhaseOfState DEF Init, Lifecycle!Init
<1>2. IInv /\ [Next]_vars => [Lifecycle!Next]_PhaseOf
  BY StepRefines
<1> QED BY <1>1, <1>2, Invariance, PTL DEF Spec, Lifecycle!Safety, PhaseOf
=============================================================================
