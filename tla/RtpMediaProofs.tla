---------------------------- MODULE RtpMediaProofs ----------------------------
(***************************************************************************)
(* Proofs about the two components of rtpengine-media.                     *)
(*                                                                         *)
(* NgClient, for any set of requests and any number of duplicated          *)
(* responses: its types, the cookies it keeps, and that it implements      *)
(* RequestReply.                                                           *)
(*                                                                         *)
(* MediaSession, for any number of calls and operations: SessionsAgree and *)
(* CloseDeletesAll.  That the three tables agree once nothing is under way *)
(* is not inductive: the invariant says what is true of a call in between, *)
(* by the operation that works on it and how far it has come (Progress),   *)
(* and that a call which has not raced has one thing under way at a time.  *)
(***************************************************************************)
EXTENDS NgClient, MediaSession, FiniteSetTheorems, TLAPS

-----------------------------------------------------------------------------
(* NgClient.                                                               *)

(* A response is only ever where its own request put it on its way: in a   *)
(* datagram of an executed request, and in the channel of that request.    *)
OwnReplies ==
  /\ \A r \in Requests : respCh[r] \in {Nobody, r}
  /\ \A r \in Requests : respCh[r] = r => r \in executed
  /\ \A r \in Requests : result[r] \in {r, "none"} \cup Errors
  /\ responses \subseteq executed
  /\ reader \in {"lookup", "deliver"} => datagram \in executed

(* A result is there once the Send is on its way out, and not before. *)
ResultsAtEnd ==
  \A r \in Requests :
    result[r] = "none" <=> call[r] \in {"idle", "registered", "waiting"}

(* What RTPengine has seen or will see was sent. *)
SentByCalls == \A r \in requests \cup executed : call[r] # "idle"

IInv == TypeOK /\ CookiesOfSends /\ OwnReplies /\ ResultsAtEnd /\ SentByCalls

USE DEF Errors

-----------------------------------------------------------------------------
LEMMA InitIInv == Init => IInv
<1> SUFFICES ASSUME Init PROVE IInv
  OBVIOUS
<1>1. TypeOK
  <2>1. 0 \in 0 .. MaxCopies
    BY NgAssumption
  <2>2. /\ call \in [Requests -> {"idle"}] /\ result \in [Requests -> {"none"}]
        /\ respCh \in [Requests -> {Nobody}]
    BY DEF Init
  <2> QED BY <2>1, <2>2 DEF Init, TypeOK
<1>2. CookiesOfSends
  BY DEF Init, CookiesOfSends
<1>3. OwnReplies
  BY NgAssumption DEF Init, OwnReplies
<1>4. ResultsAtEnd /\ SentByCalls
  BY DEF Init, ResultsAtEnd, SentByCalls
<1> QED BY <1>1, <1>2, <1>3, <1>4 DEF IInv

LEMMA RegisterStep ==
  ASSUME IInv, NEW r \in Requests, Register(r)
  PROVE  IInv'
<1>1. TypeOK'
  BY DEF IInv, TypeOK, Register
<1>2. CookiesOfSends'
  BY DEF IInv, TypeOK, CookiesOfSends, Register
<1>3. OwnReplies' /\ ResultsAtEnd' /\ SentByCalls'
  BY NgAssumption DEF IInv, TypeOK, OwnReplies, ResultsAtEnd, SentByCalls, Register
<1> QED BY <1>1, <1>2, <1>3 DEF IInv

LEMMA WriteStep ==
  ASSUME IInv, NEW r \in Requests, Write(r)
  PROVE  IInv'
<1>1. TypeOK'
  BY DEF IInv, TypeOK, Write
<1>2. CookiesOfSends'
  BY DEF IInv, TypeOK, CookiesOfSends, Write
<1>3. OwnReplies' /\ ResultsAtEnd' /\ SentByCalls'
  BY NgAssumption DEF IInv, TypeOK, OwnReplies, ResultsAtEnd, SentByCalls, Write
<1> QED BY <1>1, <1>2, <1>3 DEF IInv

LEMMA WaitStep ==
  ASSUME IInv, NEW r \in Requests, Wait(r)
  PROVE  IInv'
<1>1. TypeOK'
  BY DEF IInv, TypeOK, OwnReplies, Wait
<1>2. CookiesOfSends'
  BY DEF IInv, TypeOK, CookiesOfSends, Wait
<1>3. OwnReplies' /\ ResultsAtEnd' /\ SentByCalls'
  BY NgAssumption DEF IInv, TypeOK, OwnReplies, ResultsAtEnd, SentByCalls, Wait
<1> QED BY <1>1, <1>2, <1>3 DEF IInv

LEMMA LeaveStep ==
  ASSUME IInv, NEW r \in Requests, Leave(r)
  PROVE  IInv'
<1>1. TypeOK'
  BY DEF IInv, TypeOK, Leave
<1>2. CookiesOfSends'
  BY DEF IInv, TypeOK, CookiesOfSends, Leave
<1>3. OwnReplies' /\ ResultsAtEnd' /\ SentByCalls'
  BY NgAssumption DEF IInv, TypeOK, OwnReplies, ResultsAtEnd, SentByCalls, Leave
<1> QED BY <1>1, <1>2, <1>3 DEF IInv

(* The reader: what it delivers goes to the channel of its own request. *)
LEMMA ReadLoopStep ==
  ASSUME IInv, ReadLoop
  PROVE  IInv'
<1>1. CASE Read
  <2>1. TypeOK'
    BY <1>1, NgAssumption DEF IInv, TypeOK, Read
  <2> QED BY <1>1, <2>1
          DEF IInv, CookiesOfSends, OwnReplies, ResultsAtEnd, SentByCalls, Read
<1>2. CASE ReadError
  BY <1>2 DEF IInv, TypeOK, CookiesOfSends, OwnReplies, ResultsAtEnd, SentByCalls, ReadError
<1>3. CASE Lookup
  BY <1>3 DEF IInv, TypeOK, CookiesOfSends, OwnReplies, ResultsAtEnd, SentByCalls, Lookup
<1>4. CASE Deliver
  <2>1. TypeOK'
    BY <1>4, ZenonT(40) DEF IInv, TypeOK, Deliver
  <2>2. CookiesOfSends' /\ ResultsAtEnd' /\ SentByCalls'
    BY <1>4 DEF IInv, CookiesOfSends, ResultsAtEnd, SentByCalls, Deliver
  <2>3. datagram \in executed
    BY <1>4 DEF IInv, OwnReplies, Deliver
  <2>4. OwnReplies'
    BY <1>4, <2>3, NgAssumption DEF IInv, TypeOK, OwnReplies, Deliver
  <2> QED BY <2>1, <2>2, <2>4 DEF IInv
<1> QED BY <1>1, <1>2, <1>3, <1>4 DEF ReadLoop

LEMMA OthersStep ==
  ASSUME IInv, Close \/ CloseOne \/ Engine
  PROVE  IInv'
<1>1. CASE Close
  BY <1>1 DEF IInv, TypeOK, CookiesOfSends, OwnReplies, ResultsAtEnd, SentByCalls, Close
<1>2. CASE CloseOne
  BY <1>2 DEF IInv, TypeOK, CookiesOfSends, OwnReplies, ResultsAtEnd, SentByCalls, CloseOne
<1>3. CASE Engine
  <2>1. TypeOK'
    BY <1>3 DEF IInv, TypeOK, Engine
  <2> QED BY <1>3, <2>1
          DEF IInv, CookiesOfSends, OwnReplies, ResultsAtEnd, SentByCalls, Engine
<1> QED BY <1>1, <1>2, <1>3

LEMMA NextIInv == IInv /\ [Next]_vars => IInv'
<1> SUFFICES ASSUME IInv, [Next]_vars PROVE IInv'
  OBVIOUS
<1>1. CASE Next
  BY <1>1, RegisterStep, WriteStep, WaitStep, LeaveStep, ReadLoopStep, OthersStep DEF Next, Send
<1>2. CASE UNCHANGED vars
  BY <1>2 DEF vars, IInv, TypeOK, CookiesOfSends, OwnReplies, ResultsAtEnd, SentByCalls
<1> QED BY <1>1, <1>2

(* The inductive invariant: types, cookies, and the way of each response. *)
THEOREM Invariance == Spec => []IInv
<1>1. Init => IInv
  BY InitIInv
<1>2. IInv /\ [Next]_vars => IInv'
  BY NextIInv
<1> QED BY <1>1, <1>2, PTL DEF Spec

(* Send, readLoop and Close keep their types. *)
THEOREM TypeCorrect == Spec => []TypeOK
<1>1. IInv => TypeOK
  BY DEF IInv
<1> QED BY <1>1, Invariance, PTL

(* The cookie map has the cookies of the Sends under way, whichever way    *)
(* they go, and no others.                                                 *)
THEOREM CookiesAreOfSends == Spec => []CookiesSound
<1>1. IInv => CookiesSound
  BY DEF IInv, CookiesSound
<1> QED BY <1>1, Invariance, PTL

-----------------------------------------------------------------------------
(* What a caller sees, given the invariant. *)
LEMMA OutcomeCases ==
  ASSUME IInv, NEW r \in Requests
  PROVE  /\ call[r] = "idle" => Outcome(r) = "none"
         /\ call[r] \in {"registered", "waiting"} => Outcome(r) = "waiting"
         /\ call[r] \in {"leaving", "returned"} =>
              Outcome(r) = IF result[r] = r THEN "ok" ELSE "failed"
<1>1. r # "none" /\ r \notin Errors /\ "none" \notin Errors
  BY NgAssumption
<1>2. result[r] \in {r, "none"} \cup Errors
  BY DEF IInv, OwnReplies
<1>3. result[r] = "none" <=> call[r] \in {"idle", "registered", "waiting"}
  BY DEF IInv, ResultsAtEnd
<1>4. CASE result[r] = "none"
  BY <1>1, <1>3, <1>4 DEF Outcome
<1>5. CASE result[r] = r
  BY <1>1, <1>3, <1>5 DEF Outcome
<1>6. CASE result[r] \in Errors
  BY <1>1, <1>3, <1>6 DEF Outcome
<1> QED BY <1>2, <1>4, <1>5, <1>6

LEMMA OutcomesUnchanged ==
  ASSUME UNCHANGED <<call, result>>
  PROVE  UNCHANGED [r \in Requests |-> Outcome(r)]
BY DEF Outcome

(* A change of one Send's place and result changes its outcome alone. *)
LEMMA OneOutcome ==
  ASSUME IInv, NEW r \in Requests, NEW v, Outcome(r)' = v,
         \A q \in Requests \ {r} : call'[q] = call[q] /\ result'[q] = result[q]
  PROVE  [q \in Requests |-> Outcome(q)]' = [[q \in Requests |-> Outcome(q)] EXCEPT ![r] = v]
<1>1. \A q \in Requests \ {r} : Outcome(q)' = Outcome(q)
  BY DEF Outcome
<1> HIDE DEF Outcome
<1> QED BY <1>1

LEMMA InitReply == Init => Reply!Init
BY NgAssumption DEF Init, Outcome, Reply!Init

LEMMA StepReply == IInv /\ IInv' /\ [Next]_vars => [Reply!Next]_(Reply!vars)
<1> SUFFICES ASSUME IInv, IInv', [Next]_vars PROVE [Reply!Next]_(Reply!vars)
  OBVIOUS
<1> USE DEF Reply!vars
<1>1. ASSUME NEW r \in Requests, Register(r)
      PROVE  Reply!Next
  <2>1. CASE closed
    <3>1. Outcome(r) = "none"
      BY <1>1, OutcomeCases DEF Register
    <3>2. Outcome(r)' = "failed"
      BY <1>1, <2>1, NgAssumption DEF Register, IInv, TypeOK, Outcome
    <3>3. [q \in Requests |-> Outcome(q)]' = [[q \in Requests |-> Outcome(q)] EXCEPT ![r] = "failed"]
      BY <1>1, <3>2, OneOutcome DEF Register, IInv, TypeOK
    <3> QED BY <1>1, <3>1, <3>3 DEF Register, Reply!Next, Reply!Refuse
  <2>2. CASE ~closed
    <3>1. Outcome(r) = "none" /\ result[r] = "none"
      BY <1>1, OutcomeCases DEF Register, IInv, ResultsAtEnd
    <3>2. Outcome(r)' = "waiting"
      BY <1>1, <2>2, <3>1, NgAssumption DEF Register, IInv, TypeOK, Outcome
    <3>3. [q \in Requests |-> Outcome(q)]' = [[q \in Requests |-> Outcome(q)] EXCEPT ![r] = "waiting"]
      BY <1>1, <3>2, OneOutcome DEF Register, IInv, TypeOK
    <3> QED BY <1>1, <3>1, <3>3 DEF Register, Reply!Next, Reply!Issue
  <2> QED BY <2>1, <2>2
<1>2. ASSUME NEW r \in Requests, Write(r)
      PROVE  [Reply!Next]_(Reply!vars)
  <2>1. Outcome(r) = "waiting" /\ result[r] = "none"
    BY <1>2, OutcomeCases DEF Write, IInv, ResultsAtEnd
  <2>2. CASE result' = result
    <3>1. Outcome(r)' = "waiting"
      BY <1>2, <2>1, <2>2, NgAssumption DEF Write, IInv, TypeOK, Outcome
    <3>2. [q \in Requests |-> Outcome(q)]' = [[q \in Requests |-> Outcome(q)] EXCEPT ![r] = "waiting"]
      BY <1>2, <2>2, <3>1, OneOutcome DEF Write, IInv, TypeOK
    <3> QED BY <1>2, <2>1, <3>2 DEF Write
  <2>3. CASE result' # result
    <3>1. Outcome(r)' = "failed"
      BY <1>2, <2>3, NgAssumption DEF Write, IInv, TypeOK, Outcome
    <3>2. [q \in Requests |-> Outcome(q)]' = [[q \in Requests |-> Outcome(q)] EXCEPT ![r] = "failed"]
      BY <1>2, <3>1, OneOutcome DEF Write, IInv, TypeOK
    <3> QED BY <1>2, <2>1, <3>2 DEF Write, Reply!Next, Reply!Finish
  <2> QED BY <2>2, <2>3
<1>3. ASSUME NEW r \in Requests, Wait(r)
      PROVE  Reply!Next
  <2>1. Outcome(r) = "waiting"
    BY <1>3, OutcomeCases DEF Wait
  <2>2. CASE result'[r] = r
    <3>1. r \in executed
      BY <1>3, <2>2, NgAssumption DEF Wait, IInv, TypeOK, OwnReplies
    <3>2. Outcome(r)' = "ok"
      BY <2>2, NgAssumption DEF Outcome
    <3>3. [q \in Requests |-> Outcome(q)]' = [[q \in Requests |-> Outcome(q)] EXCEPT ![r] = "ok"]
      BY <1>3, <3>2, OneOutcome DEF Wait, IInv, TypeOK
    <3> QED BY <1>3, <2>1, <3>1, <3>3 DEF Wait, Reply!Next, Reply!Finish
  <2>3. CASE result'[r] # r
    <3>1. Outcome(r)' = "failed"
      BY <1>3, <2>3, NgAssumption DEF Wait, IInv, TypeOK, OwnReplies, Outcome
    <3>2. [q \in Requests |-> Outcome(q)]' = [[q \in Requests |-> Outcome(q)] EXCEPT ![r] = "failed"]
      BY <1>3, <3>1, OneOutcome DEF Wait, IInv, TypeOK
    <3> QED BY <1>3, <2>1, <3>2 DEF Wait, Reply!Next, Reply!Finish
  <2> QED BY <2>2, <2>3
<1>4. ASSUME NEW r \in Requests, Leave(r)
      PROVE  UNCHANGED Reply!vars
  <2>1. Outcome(r)' = Outcome(r)
    BY <1>4 DEF Leave, IInv, TypeOK, ResultsAtEnd, Outcome
  <2>2. [q \in Requests |-> Outcome(q)]' = [[q \in Requests |-> Outcome(q)] EXCEPT ![r] = Outcome(r)]
    BY <1>4, <2>1, OneOutcome DEF Leave, IInv, TypeOK
  <2> QED BY <1>4, <2>2 DEF Leave
<1>5. ASSUME ReadLoop \/ Close \/ CloseOne
      PROVE  UNCHANGED Reply!vars
  <2>1. UNCHANGED <<call, result, executed>>
    BY <1>5 DEF ReadLoop, Read, ReadError, Lookup, Deliver, Close, CloseOne
  <2> QED BY <2>1, OutcomesUnchanged
<1>6. ASSUME Engine
      PROVE  [Reply!Next]_(Reply!vars)
  <2>1. UNCHANGED [q \in Requests |-> Outcome(q)]
    BY <1>6, OutcomesUnchanged DEF Engine
  <2>2. PICK r \in requests : executed' = executed \cup {r}
    BY <1>6 DEF Engine
  <2>3. r \in Requests /\ call[r] # "idle"
    BY DEF IInv, TypeOK, SentByCalls
  <2>4. Outcome(r) # "none"
    BY <2>3, OutcomeCases DEF IInv, TypeOK
  <2>5. CASE r \in executed
    BY <2>1, <2>2, <2>5
  <2>6. CASE r \notin executed
    BY <2>1, <2>2, <2>3, <2>4, <2>6 DEF Reply!Next, Reply!Execute
  <2> QED BY <2>5, <2>6
<1>7. ASSUME UNCHANGED vars
      PROVE  UNCHANGED Reply!vars
  <2>1. UNCHANGED <<call, result, executed>>
    BY <1>7 DEF vars
  <2> QED BY <2>1, OutcomesUnchanged
<1> QED BY <1>1, <1>2, <1>3, <1>4, <1>5, <1>6, <1>7 DEF Next, Send

(* The client implements RequestReply: a Send ends once, with the reply to *)
(* its own request, which RTPengine has executed, or with an error.        *)
THEOREM RefinesRequestReply == Spec => ImplementsRequestReply
<1>1. Init => Reply!Init
  BY InitReply
<1>2. IInv /\ IInv' /\ [Next]_vars => [Reply!Next]_(Reply!vars)
  BY StepReply
<1> QED BY <1>1, <1>2, Invariance, PTL DEF Spec, ImplementsRequestReply, Reply!Safety

-----------------------------------------------------------------------------
(* MediaSession.                                                           *)

(* Where an operation is and what is known of its request.                 *)
PlaceSound(o) ==
  /\ step[o] = "idle" => outcome[o] = "none" /\ expiry[o] = "none"
  /\ step[o] # "idle" => outcome[o] # "none" /\ kind[o] # "none" /\ onCall[o] \in Calls
  /\ step[o] = "engine" <=> outcome[o] = "waiting"
  /\ o \in carriedOut <=> verdict[o] # "none"
  /\ outcome[o] = "none" => o \notin carriedOut
  /\ outcome[o] = "ok" => o \in carriedOut
  /\ step[o] \in {"manager", "metrics"} => outcome[o] = "ok"
  /\ step[o] = "metrics" /\ kind[o] = "offer" => verdict[o] = "ok"
  /\ expiry[o] # "none" => kind[o] = "offer" /\ step[o] \in {"metrics", "done"}
  /\ kind[o] = "expire" => \E s \in Ops : onCall[s] = onCall[o] /\ expiry[s] # "none"
  /\ kind[o] = "shutdown" => closing # "no"
StoredSound ==
  TableIsSound /\ \A c \in Stored : step[sessions[c]] \in {"metrics", "done"}

BeingDeleted(c) ==
  \E o \in Ops : kind[o] = "shutdown" /\ onCall[o] = c /\ step[o] \in {"engine", "manager"}
ClosingSound ==
  /\ closing # "no" => \A o \in Handlers : step[o] = "done"
  /\ \A s \in toDelete : step[s] # "idle"
  /\ closing = "deleting" =>
       \A c \in Stored : c \in Failed \/ sessions[c] \in toDelete \/ BeingDeleted(c)
  /\ closing = "done" => Stored \subseteq Failed

Unexpired(c) == \A s \in Ops : onCall[s] = c => expiry[s] = "none"
Agrees(c) ==
  /\ c \in engine <=> c \in Stored
  /\ closing = "no" /\ Unexpired(c) => (c \in metrics <=> c \in Stored)
OneAtATime(c) ==
  /\ \A o, p \in UnderWay(c) : o = p
  /\ \A s, t \in Started(c) : s = t
  /\ UnderWay(c) = {} \/ Started(c) = {}
Progress(o, c) ==
  /\ kind[o] = "offer" /\ verdict[o] = "ok" => c \in engine /\ (step[o] = "metrics" => c \in Stored)
  /\ kind[o] = "offer" /\ verdict[o] # "ok" => Agrees(c)
  /\ kind[o] = "answer" => Agrees(c)
  /\ kind[o] \in {"delete", "shutdown"} =>
       IF verdict[o] = "none" THEN Agrees(c)
       ELSE c \notin engine /\ (step[o] = "metrics" => c \notin Stored)
  /\ kind[o] = "expire" => c \notin Stored /\ (verdict[o] = "none" <=> c \in engine)
CallSound(c) ==
  /\ OneAtATime(c)
  /\ UnderWay(c) = {} /\ Started(c) = {} => Agrees(c)
  /\ Started(c) # {} => c \in engine /\ c \notin Stored
  /\ \A o \in UnderWay(c) : Progress(o, c)

MediaInv ==
  /\ MediaTypes /\ (\A o \in Ops : PlaceSound(o)) /\ StoredSound /\ ClosingSound
  /\ \A c \in Calls \ (raced \cup Failed) : CallSound(c)

-----------------------------------------------------------------------------
LEMMA InitSound == MediaInit => MediaInv
<1> SUFFICES ASSUME MediaInit PROVE MediaInv
  OBVIOUS
<1>1. None \notin Calls
  BY MediaAssumption
<1>2. MediaTypes
  BY DEF MediaInit, Ng!Init, MediaTypes
<1>3. ASSUME NEW o \in Ops PROVE PlaceSound(o)
  BY DEF MediaInit, Ng!Init, PlaceSound
<1>4. Stored = {}
  BY DEF MediaInit, Stored
<1>5. StoredSound
  BY <1>4 DEF StoredSound, TableIsSound
<1>6. ClosingSound
  BY DEF MediaInit, ClosingSound
<1>7. ASSUME NEW c \in Calls PROVE CallSound(c)
  <2>1. UnderWay(c) = {} /\ Started(c) = {}
    BY <1>1 DEF MediaInit, UnderWay, Started
  <2>2. Agrees(c)
    BY <1>4 DEF MediaInit, Agrees
  <2> QED BY <2>1, <2>2 DEF CallSound, OneAtATime
<1> QED BY <1>2, <1>3, <1>5, <1>6, <1>7 DEF MediaInv

(* Two sets of operations with at most one element between them.           *)
LEMMA OneBetween ==
  ASSUME NEW U \in SUBSET Ops, NEW V \in SUBSET Ops, ~(Cardinality(U) + Cardinality(V) > 1)
  PROVE  /\ \A o, p \in U : o = p
         /\ \A o, p \in V : o = p
         /\ U = {} \/ V = {}
<1>1. IsFiniteSet(U) /\ IsFiniteSet(V)
  BY MediaAssumption, FS_Subset
<1>2. Cardinality(U) \in Nat /\ Cardinality(V) \in Nat
  BY <1>1, FS_CardinalityType
<1>3. ASSUME NEW W \in SUBSET Ops, IsFiniteSet(W), NEW o \in W
      PROVE  Cardinality(W) \in Nat /\ Cardinality(W) >= 1 /\ \A p \in W : p # o => Cardinality(W) >= 2
  <2>1. /\ IsFiniteSet(W \ {o}) /\ Cardinality(W \ {o}) = Cardinality(W) - 1
        /\ Cardinality(W) \in Nat /\ Cardinality(W \ {o}) \in Nat
    BY <1>3, FS_RemoveElement, FS_CardinalityType
  <2>2. ASSUME NEW p \in W, p # o PROVE Cardinality(W \ {o}) >= 1
    <3>1. p \in W \ {o}
      BY <2>2
    <3>2. Cardinality(W \ {o}) # 0
      BY <2>1, <3>1, FS_EmptySet
    <3> QED BY <2>1, <3>2
  <2> DEFINE m == Cardinality(W)      k == Cardinality(W \ {o})
  <2>3. m \in Nat /\ k \in Nat /\ k = m - 1
    BY <2>1
  <2>4. \A p \in W : p # o => k >= 1
    BY <2>2
  <2> HIDE DEF m, k
  <2>5. m >= 1 /\ (k >= 1 => m >= 2)
    BY <2>3
  <2>6. m \in Nat /\ m >= 1 /\ \A p \in W : p # o => m >= 2
    BY <2>3, <2>4, <2>5
  <2> QED BY <2>6 DEF m
<1>4. ASSUME NEW o \in U, NEW p \in V PROVE FALSE
  <2>1. Cardinality(U) >= 1 /\ Cardinality(V) >= 1
    BY <1>1, <1>3
  <2> QED BY <1>2, <2>1
<1>5. ASSUME NEW o \in U, NEW p \in U, o # p PROVE FALSE
  <2>1. Cardinality(U) >= 2
    BY <1>1, <1>3, <1>5
  <2> QED BY <1>2, <2>1
<1>6. ASSUME NEW o \in V, NEW p \in V, o # p PROVE FALSE
  <2>1. Cardinality(V) >= 2
    BY <1>1, <1>3, <1>6
  <2> QED BY <1>2, <2>1
<1> QED BY <1>4, <1>5, <1>6

(* NoteRaces: a call that has not raced has one thing under way.           *)
LEMMA RaceNoted ==
  ASSUME NoteRaces
  PROVE  raced \subseteq raced' /\ \A c \in Calls \ raced' : OneAtATime(c)'
<1>1. raced' = raced \cup {c \in Calls : Load(c)' > 1}
  BY DEF NoteRaces
<1>2. ASSUME NEW c \in Calls \ raced' PROVE OneAtATime(c)'
  <2>1. ~(Cardinality(UnderWay(c)') + Cardinality(Started(c)') > 1)
    BY <1>1, <1>2 DEF Load
  <2>2. UnderWay(c)' \in SUBSET Ops /\ Started(c)' \in SUBSET Ops
    BY DEF UnderWay, Started
  <2> HIDE DEF UnderWay, Started
  <2>3. /\ \A o, p \in UnderWay(c)' : o = p
        /\ \A o, p \in Started(c)' : o = p
        /\ UnderWay(c)' = {} \/ Started(c)' = {}
    BY <2>1, <2>2, OneBetween
  <2> QED BY <2>3 DEF OneAtATime
<1> QED BY <1>1, <1>2

(* A step that is not about a call leaves what is known of it.             *)
LEMMA OtherCall ==
  ASSUME NEW c \in Calls, CallSound(c), UnderWay(c)' = UnderWay(c), Started(c)' = Started(c),
         c \in engine' <=> c \in engine, c \in metrics' <=> c \in metrics,
         c \in Stored' <=> c \in Stored,
         closing' = "no" /\ Unexpired(c)' => closing = "no" /\ Unexpired(c),
         \A o \in UnderWay(c) : kind'[o] = kind[o] /\ step'[o] = step[o] /\ verdict'[o] = verdict[o]
  PROVE  CallSound(c)'
<1>1. Agrees(c) => Agrees(c)'
  BY DEF Agrees
<1>2. ASSUME NEW o \in UnderWay(c) PROVE Progress(o, c)'
  <2>1. Progress(o, c)
    BY DEF CallSound
  <2> QED BY <1>1, <2>1 DEF Progress
<1>3. OneAtATime(c)'
  BY DEF CallSound, OneAtATime
<1> QED BY <1>1, <1>2, <1>3 DEF CallSound

-----------------------------------------------------------------------------
(* An operation starts: a handler's, that of an expired session s, or one  *)
(* of Close for a session s it has still to delete.                        *)
Begins(k, s, c) ==
  \/ k \in {"offer", "answer", "delete"} /\ closing = "no" /\ UNCHANGED <<expiry, toDelete>>
  \/ /\ k = "expire" /\ expiry[s] = "started" /\ c = onCall[s]
     /\ expiry' = [expiry EXCEPT ![s] = "sent"] /\ UNCHANGED toDelete
  \/ /\ k = "shutdown" /\ closing = "deleting" /\ s \in toDelete /\ c = onCall[s]
     /\ toDelete' = toDelete \ {s} /\ UNCHANGED expiry

LEMMA StartSound ==
  ASSUME MediaInv, NEW o \in Ops, NEW k, NEW s \in Ops, NEW c \in Calls \cup {None},
         Start(o, k, c), Begins(k, s, c), c \in Calls \/ k \in {"expire", "shutdown"}, NoteRaces,
         UNCHANGED <<sessions, status, due, metrics, active, closing, cleaner>>
  PROVE  MediaInv'
<1> DEFINE at == IF closing = "done" THEN "done" ELSE "engine"
           out == IF closing = "done" THEN "failed" ELSE "waiting"
<1>1. /\ step[o] = "idle" /\ outcome[o] = "none" /\ verdict[o] = "none" /\ o \notin carriedOut
      /\ expiry[o] = "none"
  BY DEF Start, MediaInv, PlaceSound
<1>2. /\ kind' = [kind EXCEPT ![o] = k] /\ onCall' = [onCall EXCEPT ![o] = c]
      /\ step' = [step EXCEPT ![o] = at] /\ outcome' = [outcome EXCEPT ![o] = out]
      /\ carriedOut' = carriedOut /\ verdict' = verdict /\ engine' = engine
      /\ at \in {"done", "engine"} /\ out \in {"failed", "waiting"}
      /\ at = "engine" <=> out = "waiting"
  BY DEF Start, Ng!Issue, Ng!Refuse
<1>3. /\ sessions' = sessions /\ status' = status /\ due' = due /\ metrics' = metrics
      /\ active' = active /\ closing' = closing /\ cleaner' = cleaner
  BY DEF MediaInv
<1>4. MediaTypes /\ (\A p \in Ops : PlaceSound(p)) /\ StoredSound /\ ClosingSound
  BY DEF MediaInv
<1>5. /\ k \in {"expire", "shutdown"} => step[s] # "idle" /\ s # o
      /\ c \in Calls /\ c # None
  <2>1. k = "expire" => expiry[s] # "none"
    BY DEF Begins
  <2>2. k \in {"expire", "shutdown"} => step[s] # "idle" /\ c = onCall[s]
    BY <1>4, <2>1 DEF Begins, ClosingSound, PlaceSound
  <2>3. c \in Calls
    BY <1>4, <2>2 DEF PlaceSound
  <2> QED BY <1>1, <2>2, <2>3, MediaAssumption
<1>6. /\ k \in {"offer", "answer", "delete", "expire", "shutdown"}
      /\ expiry' \in [Ops -> {"none", "started", "sent"}] /\ toDelete' \subseteq toDelete
      /\ \A p \in Ops : (expiry'[p] # "none" <=> expiry[p] # "none")
      /\ \A p \in Ops : expiry'[p] = "started" <=> expiry[p] = "started" /\ ~(k = "expire" /\ p = s)
  BY <1>4 DEF Begins, MediaTypes
<1>7. /\ kind'[o] = k /\ onCall'[o] = c /\ step'[o] = at /\ outcome'[o] = out
      /\ \A p \in Ops : p # o => /\ kind'[p] = kind[p] /\ onCall'[p] = onCall[p]
                                 /\ step'[p] = step[p] /\ outcome'[p] = outcome[p]
  BY <1>2, <1>4 DEF MediaTypes
<1>8. MediaTypes'
  <2>1. raced' \subseteq Calls
    BY <1>4 DEF MediaTypes, NoteRaces
  <2>2. /\ kind' \in [Ops -> {"none", "offer", "answer", "delete", "expire", "shutdown"}]
        /\ onCall' \in [Ops -> Calls \cup {None}]
        /\ step' \in [Ops -> {"idle", "engine", "manager", "metrics", "done"}]
        /\ outcome' \in [Ops -> {"none", "waiting", "ok", "failed"}]
    BY <1>2, <1>4, <1>5, <1>6 DEF MediaTypes
  <2>3. \A p \in Ops :
          /\ step'[p] = "idle" <=> kind'[p] = "none" /\ onCall'[p] = None
          /\ step'[p] = "manager" => outcome'[p] = "ok" /\ kind'[p] # "expire"
          /\ step'[p] = "metrics" => kind'[p] \in {"offer", "delete"}
    BY <1>2, <1>4, <1>5, <1>6, <1>7 DEF MediaTypes
  <2> QED BY <1>2, <1>3, <1>4, <1>6, <2>1, <2>2, <2>3 DEF MediaTypes
<1>9. ASSUME NEW p \in Ops PROVE PlaceSound(p)'
  <2>1. CASE p = o
    <3>1. k = "shutdown" => closing # "no"
      BY DEF Begins
    <3>2. k = "expire" => onCall'[s] = c /\ expiry'[s] # "none"
      BY <1>5, <1>6, <1>7 DEF Begins
    <3> QED BY <1>1, <1>2, <1>3, <1>5, <1>6, <1>7, <2>1, <3>1, <3>2 DEF PlaceSound
  <2>2. CASE p # o
    <3>1. PlaceSound(p)
      BY <1>4
    <3>2. \A t \in Ops : expiry[t] # "none" => t # o
      BY <1>1
    <3> QED BY <1>2, <1>3, <1>6, <1>7, <2>2, <3>1, <3>2 DEF PlaceSound
  <2> QED BY <2>1, <2>2
<1>10. Stored' = Stored /\ Failed \subseteq Failed' /\ raced \subseteq raced'
  <2>1. \A p \in Ops : outcome[p] = "failed" => outcome'[p] = "failed" /\ onCall'[p] = onCall[p]
    BY <1>1, <1>7
  <2> QED BY <1>3, <2>1 DEF Stored, Failed, NoteRaces
<1>11. StoredSound'
  <2>1. \A d \in Stored : sessions[d] \in Ops /\ sessions[d] # o
    BY <1>1, <1>4 DEF StoredSound, MediaTypes, Stored
  <2> QED BY <1>2, <1>3, <1>4, <1>6, <1>7, <1>10, <2>1 DEF StoredSound, TableIsSound
<1>12. ClosingSound'
  <2>1. closing # "no" => \A p \in Handlers' : step'[p] = "done"
    <3>1. closing # "no" => k \notin {"offer", "answer", "delete"}
      BY DEF Begins
    <3> QED BY <1>4, <1>7, <3>1 DEF ClosingSound, Handlers
  <2>2. \A t \in toDelete' : step'[t] # "idle"
    BY <1>2, <1>4, <1>6, <1>7 DEF ClosingSound, MediaTypes
  <2>3. ASSUME closing = "deleting", NEW d \in Stored
        PROVE  d \in Failed' \/ sessions[d] \in toDelete' \/ BeingDeleted(d)'
    <3>1. BeingDeleted(d) => BeingDeleted(d)'
      BY <1>1, <1>7 DEF BeingDeleted
    <3>2. sessions[d] \in toDelete /\ sessions[d] \notin toDelete' => BeingDeleted(d)'
      <4>1. onCall[sessions[d]] = d
        BY <1>4 DEF StoredSound, TableIsSound
      <4>2. sessions[d] \in toDelete /\ sessions[d] \notin toDelete' => k = "shutdown" /\ c = d
        BY <4>1 DEF Begins
      <4> QED BY <1>2, <1>7, <2>3, <4>2 DEF BeingDeleted
    <3> QED BY <1>4, <1>10, <2>3, <3>1, <3>2 DEF ClosingSound
  <2> QED BY <1>3, <1>4, <1>10, <2>1, <2>2, <2>3 DEF ClosingSound
<1>13. ASSUME NEW d \in Calls \ (raced' \cup Failed') PROVE CallSound(d)'
  <2>1. CallSound(d) /\ OneAtATime(d)'
    BY <1>10, <1>13, RaceNoted DEF MediaInv
  <2>2. Unexpired(d)' <=> Unexpired(d)
    BY <1>1, <1>6, <1>7 DEF Unexpired
  <2>3. Agrees(d)' <=> Agrees(d)
    BY <1>2, <1>3, <1>10, <2>2 DEF Agrees
  <2>4. CASE d # c
    <3>1. UnderWay(d)' = UnderWay(d)
      BY <1>1, <1>4, <1>7, <2>4 DEF UnderWay
    <3>2. Started(d)' = Started(d)
      BY <1>1, <1>6, <1>7, <2>4 DEF Started, Begins
    <3>3. \A p \in UnderWay(d) : p \in Ops /\ p # o
      BY <1>1 DEF UnderWay
    <3> QED BY <1>2, <1>3, <1>7, <1>10, <2>1, <2>2, <3>1, <3>2, <3>3, OtherCall
  <2>5. CASE d = c
    <3>1. at = "engine"
      BY <1>2, <1>7, <1>13, <2>5 DEF Failed
    <3>2. o \in UnderWay(d)' /\ UnderWay(d) \subseteq UnderWay(d)' /\ o \notin UnderWay(d)
      BY <1>1, <1>7, <2>5, <3>1 DEF UnderWay
    <3>3. UnderWay(d)' = {o} /\ Started(d)' = {} /\ UnderWay(d) = {}
      BY <2>1, <3>2 DEF OneAtATime
    <3>4. k # "expire" => Started(d) = {}
      BY <1>1, <1>6, <1>7, <3>3 DEF Started
    <3>5. k = "expire" => Started(d) # {}
      BY <2>5 DEF Started, Begins
    <3>6. /\ k # "expire" => Agrees(d)'
          /\ k = "expire" => d \in engine /\ d \notin Stored
      BY <2>1, <2>3, <3>3, <3>4, <3>5 DEF CallSound
    <3>7. Progress(o, d)'
      BY <1>1, <1>2, <1>7, <1>10, <3>1, <3>6 DEF Progress
    <3> QED BY <2>1, <3>3, <3>7 DEF CallSound
  <2> QED BY <2>4, <2>5
<1> QED BY <1>8, <1>9, <1>11, <1>12, <1>13 DEF MediaInv

-----------------------------------------------------------------------------
Working(o) == step[o] \in {"engine", "manager", "metrics"}

(* What is known of a call while an operation works on it.                 *)
LEMMA CallOfWorking ==
  ASSUME MediaInv, NEW o \in Ops, Working(o), onCall[o] \notin raced \cup Failed
  PROVE  /\ onCall[o] \in Calls /\ CallSound(onCall[o])
         /\ UnderWay(onCall[o]) = {o} /\ Started(onCall[o]) = {}
         /\ Progress(o, onCall[o])
<1>1. onCall[o] \in Calls
  BY DEF MediaInv, PlaceSound, Working
<1>2. CallSound(onCall[o])
  BY <1>1 DEF MediaInv
<1>3. o \in UnderWay(onCall[o])
  BY DEF UnderWay, Working
<1> QED BY <1>1, <1>2, <1>3 DEF CallSound, OneAtATime

(* An operation that is under way takes a step, about its own call: what   *)
(* is left to show is what becomes of that call.                           *)
LEMMA OperationStep ==
  ASSUME MediaInv, NEW o \in Ops, step \in [Ops -> {"idle", "engine", "manager", "metrics", "done"}],
         kind' = kind, onCall' = onCall, expiry' = expiry, closing' = closing, raced' = raced,
         Failed \subseteq Failed',
         \A p \in Ops : p # o => step'[p] = step[p] /\ verdict'[p] = verdict[p],
         \A d \in Calls : d # onCall[o] =>
           /\ d \in engine' <=> d \in engine
           /\ d \in metrics' <=> d \in metrics
           /\ d \in Stored' <=> d \in Stored,
         onCall[o] \notin raced \cup Failed' =>
           /\ Working(o)
           /\ Working(o)' => Progress(o, onCall[o])'
           /\ ~Working(o)' => Agrees(onCall[o])'
  PROVE  \A c \in Calls \ (raced' \cup Failed') : CallSound(c)'
<1> SUFFICES ASSUME NEW c \in Calls \ (raced' \cup Failed') PROVE CallSound(c)'
  OBVIOUS
<1>1. CallSound(c)
  BY DEF MediaInv
<1>2. Started(c)' = Started(c) /\ (Unexpired(c)' <=> Unexpired(c))
  BY DEF Started, Unexpired
<1>3. CASE c # onCall[o]
  <2>1. UnderWay(c)' = UnderWay(c)
    BY <1>3 DEF UnderWay
  <2>2. \A p \in UnderWay(c) : p \in Ops /\ p # o
    BY <1>3 DEF UnderWay
  <2> QED BY <1>1, <1>2, <1>3, <2>1, <2>2, OtherCall
<1>4. CASE c = onCall[o]
  <2>1. Working(o) /\ c \notin raced \cup Failed
    BY <1>4
  <2>2. UnderWay(c) = {o} /\ Started(c) = {}
    BY <1>4, <2>1, CallOfWorking
  <2>3. \A p \in Ops : p # o => p \notin UnderWay(c)'
    BY <2>2 DEF UnderWay
  <2>4. UnderWay(c)' \subseteq Ops /\ (o \in UnderWay(c)' <=> Working(o)')
    BY <1>4 DEF UnderWay, Working
  <2>5. UnderWay(c)' = IF Working(o)' THEN {o} ELSE {}
    BY <2>3, <2>4
  <2>6. OneAtATime(c)'
    BY <1>2, <2>2, <2>5 DEF OneAtATime
  <2>7. /\ Working(o)' => Progress(o, c)'
        /\ ~Working(o)' => Agrees(c)'
    BY <1>4
  <2> QED BY <1>2, <2>2, <2>5, <2>6, <2>7 DEF CallSound
<1> QED BY <1>3, <1>4

LEMMA ExecuteSound ==
  ASSUME MediaInv, NEW o \in Ops, Execute(o)
  PROVE  MediaInv'
<1> DEFINE c == onCall[o]
<1>1. /\ outcome[o] # "none" /\ o \notin carriedOut /\ carriedOut' = carriedOut \cup {o} /\ outcome' = outcome
      /\ kind' = kind /\ onCall' = onCall /\ step' = step /\ sessions' = sessions /\ status' = status
      /\ due' = due /\ expiry' = expiry /\ metrics' = metrics /\ active' = active
      /\ closing' = closing /\ toDelete' = toDelete /\ cleaner' = cleaner /\ raced' = raced
  BY DEF Execute, Ng!Execute, opVars, managerVars, collectorVars, closeVars
<1>2. MediaTypes /\ (\A p \in Ops : PlaceSound(p)) /\ StoredSound /\ ClosingSound
  BY DEF MediaInv
<1>3. /\ verdict[o] = "none" /\ outcome[o] # "ok" /\ step[o] \notin {"manager", "metrics", "idle"}
      /\ onCall[o] \in Calls
  BY <1>1, <1>2 DEF PlaceSound
<1>4. PICK v \in {"ok", "error"} : verdict' = [verdict EXCEPT ![o] = v]
  BY DEF Execute
<1>5. /\ verdict'[o] = v /\ verdict' \in [Ops -> {"none", "ok", "error"}]
      /\ \A p \in Ops : p # o => verdict'[p] = verdict[p]
  BY <1>2, <1>4 DEF MediaTypes
<1>6. engine' \in SUBSET Calls /\ \A d \in Calls : d # c => (d \in engine' <=> d \in engine)
  BY <1>2, <1>3 DEF Execute, MediaTypes
<1>7. MediaTypes'
  BY <1>1, <1>2, <1>5, <1>6 DEF MediaTypes
<1>8. ASSUME NEW p \in Ops PROVE PlaceSound(p)'
  <2>1. PlaceSound(p)
    BY <1>2
  <2> QED BY <1>1, <1>3, <1>5, <2>1 DEF PlaceSound
<1>9. Stored' = Stored /\ Failed' = Failed /\ Handlers' = Handlers
  BY <1>1 DEF Stored, Failed, Handlers
<1>10. StoredSound'
  <2>1. \A d \in Stored : sessions[d] \in Ops /\ sessions[d] # o
    BY <1>2, <1>3 DEF StoredSound, TableIsSound, MediaTypes, Stored
  <2> QED BY <1>1, <1>2, <1>5, <1>9, <2>1 DEF StoredSound, TableIsSound
<1>11. ClosingSound'
  <2>1. \A d \in Stored : BeingDeleted(d)' <=> BeingDeleted(d)
    BY <1>1 DEF BeingDeleted
  <2> QED BY <1>1, <1>2, <1>9, <2>1 DEF ClosingSound
<1>12. ASSUME c \notin raced \cup Failed'
       PROVE  Working(o) /\ Working(o)' /\ Progress(o, c)'
  <2>1. outcome[o] # "failed"
    BY <1>1, <1>9, <1>12 DEF Failed
  <2>2. step[o] = "engine"
    BY <1>1, <1>2, <1>3, <2>1 DEF MediaTypes, PlaceSound
  <2>3. Progress(o, c)
    BY <1>9, <1>12, <2>2, CallOfWorking DEF Working
  <2>4. Unexpired(c)' <=> Unexpired(c)
    BY <1>1 DEF Unexpired
  <2>5. engine' = engine => (Agrees(c)' <=> Agrees(c))
    BY <1>1, <1>9, <2>4 DEF Agrees
  <2>9. Working(o) /\ Working(o)'
    BY <1>1, <2>2 DEF Working
  <2>6. CASE kind[o] = "offer"
    <3>1. \/ engine' = engine \cup {c} /\ v = "ok"
          \/ v = "error" /\ engine' = engine
      BY <1>2, <1>5, <2>6 DEF Execute, MediaTypes
    <3> QED BY <1>1, <1>3, <1>5, <2>2, <2>3, <2>5, <2>6, <2>9, <3>1 DEF Progress
  <2>7. CASE kind[o] = "answer"
    <3>1. engine' = engine
      BY <2>7 DEF Execute
    <3> QED BY <1>1, <1>5, <2>3, <2>5, <2>7, <2>9, <3>1 DEF Progress
  <2>8. CASE kind[o] \in {"delete", "expire", "shutdown"}
    <3>1. engine' = engine \ {c}
      BY <2>8 DEF Execute
    <3> QED BY <1>1, <1>3, <1>5, <1>9, <2>2, <2>3, <2>8, <2>9, <3>1 DEF Progress
  <2> QED BY <2>6, <2>7, <2>8 DEF Execute
<1>13. \A d \in Calls \ (raced' \cup Failed') : CallSound(d)'
  <2>1. step \in [Ops -> {"idle", "engine", "manager", "metrics", "done"}]
    BY <1>2 DEF MediaTypes
  <2> QED BY <1>1, <1>5, <1>6, <1>9, <1>12, <2>1, OperationStep
<1> QED BY <1>7, <1>8, <1>10, <1>11, <1>13 DEF MediaInv

LEMMA FinishSound ==
  ASSUME MediaInv, NEW o \in Ops, Finish(o)
  PROVE  MediaInv'
<1> DEFINE c == onCall[o]
<1>1. /\ step[o] = "engine" /\ carriedOut' = carriedOut /\ verdict' = verdict /\ engine' = engine
      /\ kind' = kind /\ onCall' = onCall /\ sessions' = sessions /\ status' = status
      /\ due' = due /\ expiry' = expiry /\ metrics' = metrics /\ active' = active
      /\ closing' = closing /\ toDelete' = toDelete /\ cleaner' = cleaner /\ raced' = raced
  BY DEF Finish, Ng!Finish, managerVars, collectorVars, closeVars
<1>2. MediaTypes /\ (\A p \in Ops : PlaceSound(p)) /\ StoredSound /\ ClosingSound
  BY DEF MediaInv
<1>3. PICK out \in {"ok", "failed"} : outcome' = [outcome EXCEPT ![o] = out] /\ (out = "ok" => o \in carriedOut)
  BY DEF Finish, Ng!Finish
<1>4. /\ outcome'[o] = out /\ outcome' \in [Ops -> {"none", "waiting", "ok", "failed"}]
      /\ \A p \in Ops : p # o => outcome'[p] = outcome[p]
  BY <1>2, <1>3 DEF MediaTypes
<1>5. /\ step'[o] = (IF out = "ok" /\ kind[o] # "expire" THEN "manager" ELSE "done")
      /\ step' \in [Ops -> {"idle", "engine", "manager", "metrics", "done"}]
      /\ \A p \in Ops : p # o => step'[p] = step[p]
  BY <1>2, <1>4 DEF Finish, MediaTypes
<1>6. onCall[o] \in Calls /\ kind[o] # "none" /\ outcome[o] = "waiting" /\ expiry[o] = "none"
  BY <1>1, <1>2 DEF PlaceSound, MediaTypes
<1>7. MediaTypes'
  <2>1. \A p \in Ops :
          /\ step'[p] = "idle" <=> kind'[p] = "none" /\ onCall'[p] = None
          /\ step'[p] = "manager" => outcome'[p] = "ok" /\ kind'[p] # "expire"
          /\ step'[p] = "metrics" => kind'[p] \in {"offer", "delete"}
    BY <1>1, <1>2, <1>4, <1>5, <1>6 DEF MediaTypes
  <2> QED BY <1>1, <1>2, <1>4, <1>5, <2>1 DEF MediaTypes
<1>8. ASSUME NEW p \in Ops PROVE PlaceSound(p)'
  <2>1. PlaceSound(p)
    BY <1>2
  <2> QED BY <1>1, <1>3, <1>4, <1>5, <1>6, <2>1 DEF PlaceSound
<1>9. /\ Stored' = Stored /\ Handlers' = Handlers /\ Failed \subseteq Failed'
      /\ out = "failed" => c \in Failed'
  BY <1>1, <1>4, <1>6 DEF Stored, Failed, Handlers
<1>10. StoredSound'
  <2>1. \A d \in Stored : sessions[d] \in Ops /\ sessions[d] # o
    BY <1>1, <1>2 DEF StoredSound, MediaTypes, Stored
  <2> QED BY <1>1, <1>2, <1>5, <1>9, <2>1 DEF StoredSound, TableIsSound
<1>11. ClosingSound'
  <2>1. closing # "no" => o \notin Handlers
    BY <1>1, <1>2 DEF ClosingSound
  <2>2. ASSUME NEW d \in Stored, BeingDeleted(d) PROVE BeingDeleted(d)' \/ d \in Failed'
    <3>1. PICK p \in Ops : kind[p] = "shutdown" /\ onCall[p] = d /\ step[p] \in {"engine", "manager"}
      BY <2>2 DEF BeingDeleted
    <3> QED BY <1>1, <1>5, <1>9, <3>1 DEF BeingDeleted
  <2>3. \A p \in Ops : step'[p] = "idle" => step[p] = "idle"
    BY <1>5
  <2>4. \A p \in Handlers : p \in Ops
    BY DEF Handlers
  <2>5. \A t \in toDelete : t \in Ops
    BY <1>2 DEF MediaTypes
  <2> QED BY <1>1, <1>2, <1>5, <1>9, <2>1, <2>2, <2>3, <2>4, <2>5 DEF ClosingSound
<1>12. ASSUME c \notin raced \cup Failed'
       PROVE  Working(o) /\ (Working(o)' => Progress(o, c)') /\ (~Working(o)' => Agrees(c)')
  <2>1. out = "ok" /\ verdict[o] # "none"
    BY <1>2, <1>3, <1>9, <1>12 DEF PlaceSound
  <2>2. Working(o) /\ Progress(o, c)
    BY <1>1, <1>9, <1>12, CallOfWorking DEF Working
  <2>3. Agrees(c)' <=> Agrees(c)
    BY <1>1, <1>9 DEF Agrees, Unexpired
  <2>4. CASE kind[o] = "expire"
    <3>1. ~Unexpired(c)'
      BY <1>1, <1>2, <2>4 DEF Unexpired, PlaceSound
    <3>2. ~Working(o)'
      BY <1>5, <2>4 DEF Working
    <3> QED BY <1>1, <1>9, <2>1, <2>2, <2>4, <3>1, <3>2 DEF Agrees, Progress
  <2>5. CASE kind[o] # "expire"
    <3>1. step'[o] = "manager"
      BY <1>5, <2>1, <2>5
    <3> QED BY <1>1, <1>9, <2>1, <2>2, <2>3, <2>5, <3>1 DEF Working, Progress
  <2> QED BY <2>4, <2>5
<1>13. \A d \in Calls \ (raced' \cup Failed') : CallSound(d)'
  <2>1. step \in [Ops -> {"idle", "engine", "manager", "metrics", "done"}]
    BY <1>2 DEF MediaTypes
  <2> QED BY <1>1, <1>5, <1>9, <1>12, <2>1, OperationStep
<1> QED BY <1>7, <1>8, <1>10, <1>11, <1>13 DEF MediaInv

LEMMA StoreOfferSound ==
  ASSUME MediaInv, NEW o \in Ops, StoreOffer(o)
  PROVE  MediaInv'
<1> DEFINE c == onCall[o]
<1>1. /\ step[o] = "manager" /\ kind[o] = "offer"
      /\ outcome' = outcome /\ carriedOut' = carriedOut /\ verdict' = verdict /\ engine' = engine
      /\ kind' = kind /\ onCall' = onCall /\ due' = due /\ expiry' = expiry
      /\ metrics' = metrics /\ active' = active
      /\ closing' = closing /\ toDelete' = toDelete /\ cleaner' = cleaner /\ raced' = raced
  BY DEF StoreOffer, requestVars, collectorVars, closeVars
<1>2. MediaTypes /\ (\A p \in Ops : PlaceSound(p)) /\ StoredSound /\ ClosingSound
  BY DEF MediaInv
<1>3. /\ c \in Calls /\ expiry[o] = "none" /\ outcome[o] = "ok" /\ o \in carriedOut /\ o # None
      /\ closing = "no"
  BY <1>1, <1>2, MediaAssumption DEF PlaceSound, ClosingSound, Handlers
<1>4. \/ /\ verdict[o] = "ok" /\ step' = [step EXCEPT ![o] = "metrics"]
         /\ sessions' = [sessions EXCEPT ![c] = o] /\ status' = [status EXCEPT ![o] = "offered"]
      \/ /\ verdict[o] # "ok" /\ step' = [step EXCEPT ![o] = "done"]
         /\ sessions' = sessions /\ status' = status
  BY <1>1 DEF StoreOffer
<1>5. /\ step' \in [Ops -> {"idle", "engine", "manager", "metrics", "done"}]
      /\ step'[o] = (IF verdict[o] = "ok" THEN "metrics" ELSE "done")
      /\ \A p \in Ops : p # o => step'[p] = step[p]
      /\ sessions' \in [Calls -> Ops \cup {None}]
      /\ \A d \in Calls : d # c => sessions'[d] = sessions[d]
      /\ sessions'[c] = IF verdict[o] = "ok" THEN o ELSE sessions[c]
      /\ status' \in [Ops -> {"none", "offered", "active"}]
      /\ \A s \in Ops : status[s] # "none" => status'[s] # "none"
      /\ verdict[o] = "ok" => status'[o] # "none"
  BY <1>2, <1>3, <1>4 DEF MediaTypes
<1>6. MediaTypes'
  <2>1. \A p \in Ops :
          /\ step'[p] = "idle" <=> kind'[p] = "none" /\ onCall'[p] = None
          /\ step'[p] = "manager" => outcome'[p] = "ok" /\ kind'[p] # "expire"
          /\ step'[p] = "metrics" => kind'[p] \in {"offer", "delete"}
    BY <1>1, <1>2, <1>5 DEF MediaTypes
  <2> QED BY <1>1, <1>2, <1>5, <2>1 DEF MediaTypes
<1>7. ASSUME NEW p \in Ops PROVE PlaceSound(p)'
  <2>1. PlaceSound(p)
    BY <1>2
  <2> QED BY <1>1, <1>3, <1>5, <2>1 DEF PlaceSound
<1>8. /\ Failed' = Failed
      /\ \A d \in Calls : d # c => (d \in Stored' <=> d \in Stored)
      /\ verdict[o] = "ok" => c \in Stored'
      /\ verdict[o] # "ok" => Stored' = Stored
  BY <1>1, <1>3, <1>4, <1>5 DEF Stored, Failed
<1>9. StoredSound'
  <2>1. ASSUME NEW d \in Stored', d # c \/ verdict[o] # "ok"
        PROVE  sessions'[d] = sessions[d] /\ d \in Stored /\ sessions[d] \in Ops /\ sessions[d] # o
    <3>1. sessions'[d] = sessions[d] /\ d \in Stored
      BY <1>5, <1>8, <2>1 DEF Stored
    <3> QED BY <1>1, <1>2, <3>1 DEF StoredSound, MediaTypes, Stored
  <2>2. \A d \in Stored' : d # c \/ verdict[o] # "ok" =>
          /\ kind'[sessions'[d]] = "offer" /\ onCall'[sessions'[d]] = d /\ verdict'[sessions'[d]] = "ok"
          /\ status'[sessions'[d]] # "none" /\ expiry'[sessions'[d]] = "none"
          /\ step'[sessions'[d]] \in {"metrics", "done"}
    BY <1>1, <1>2, <1>5, <2>1 DEF StoredSound, TableIsSound
  <2>3. verdict[o] = "ok" =>
          /\ kind'[sessions'[c]] = "offer" /\ onCall'[sessions'[c]] = c /\ verdict'[sessions'[c]] = "ok"
          /\ status'[sessions'[c]] # "none" /\ expiry'[sessions'[c]] = "none"
          /\ step'[sessions'[c]] \in {"metrics", "done"}
    BY <1>1, <1>3, <1>5
  <2> QED BY <2>2, <2>3 DEF StoredSound, TableIsSound
<1>10. ClosingSound'
  <2>1. \A p \in Ops : step'[p] = "idle" => step[p] = "idle"
    BY <1>5
  <2> QED BY <1>1, <1>2, <1>3, <2>1 DEF ClosingSound, MediaTypes
<1>11. ASSUME c \notin raced \cup Failed'
       PROVE  Working(o) /\ (Working(o)' => Progress(o, c)') /\ (~Working(o)' => Agrees(c)')
  <2>1. Working(o) /\ Progress(o, c)
    BY <1>1, <1>8, <1>11, CallOfWorking DEF Working
  <2>2. CASE verdict[o] = "ok"
    BY <1>1, <1>5, <1>8, <2>1, <2>2 DEF Progress, Working
  <2>3. CASE verdict[o] # "ok"
    <3>1. Agrees(c)' <=> Agrees(c)
      BY <1>1, <1>8, <2>3 DEF Agrees, Unexpired
    <3> QED BY <1>1, <1>5, <2>1, <2>3, <3>1 DEF Progress, Working
  <2> QED BY <2>2, <2>3
<1>12. \A d \in Calls \ (raced' \cup Failed') : CallSound(d)'
  <2>1. step \in [Ops -> {"idle", "engine", "manager", "metrics", "done"}]
    BY <1>2 DEF MediaTypes
  <2> QED BY <1>1, <1>5, <1>8, <1>11, <2>1, OperationStep
<1> QED BY <1>6, <1>7, <1>9, <1>10, <1>12 DEF MediaInv

LEMMA StoreAnswerSound ==
  ASSUME MediaInv, NEW o \in Ops, StoreAnswer(o)
  PROVE  MediaInv'
<1> DEFINE c == onCall[o]
<1>1. /\ step[o] = "manager" /\ kind[o] = "answer" /\ step' = [step EXCEPT ![o] = "done"]
      /\ outcome' = outcome /\ carriedOut' = carriedOut /\ verdict' = verdict /\ engine' = engine
      /\ kind' = kind /\ onCall' = onCall /\ sessions' = sessions /\ expiry' = expiry
      /\ metrics' = metrics /\ active' = active
      /\ closing' = closing /\ toDelete' = toDelete /\ cleaner' = cleaner /\ raced' = raced
  BY DEF StoreAnswer, requestVars, collectorVars, closeVars
<1>2. MediaTypes /\ (\A p \in Ops : PlaceSound(p)) /\ StoredSound /\ ClosingSound
  BY DEF MediaInv
<1>3. /\ due' \subseteq Ops /\ status' \in [Ops -> {"none", "offered", "active"}]
      /\ \A s \in Ops : status[s] # "none" => status'[s] # "none"
  BY <1>2 DEF StoreAnswer, MediaTypes, Stored
<1>4. /\ step' \in [Ops -> {"idle", "engine", "manager", "metrics", "done"}]
      /\ step'[o] = "done" /\ \A p \in Ops : p # o => step'[p] = step[p]
  BY <1>1, <1>2 DEF MediaTypes
<1>5. MediaTypes'
  BY <1>1, <1>2, <1>3, <1>4 DEF MediaTypes
<1>6. ASSUME NEW p \in Ops PROVE PlaceSound(p)'
  <2>1. PlaceSound(p)
    BY <1>2
  <2> QED BY <1>1, <1>4, <2>1 DEF PlaceSound
<1>7. Stored' = Stored /\ Failed' = Failed /\ Handlers' = Handlers
  BY <1>1 DEF Stored, Failed, Handlers
<1>8. StoredSound'
  <2>1. \A d \in Stored : sessions[d] \in Ops /\ sessions[d] # o
    BY <1>1, <1>2 DEF StoredSound, MediaTypes, Stored
  <2> QED BY <1>1, <1>2, <1>3, <1>4, <1>7, <2>1 DEF StoredSound, TableIsSound
<1>9. ClosingSound'
  <2>1. closing = "no"
    BY <1>1, <1>2 DEF ClosingSound, Handlers
  <2>2. \A p \in Ops : step'[p] = "idle" => step[p] = "idle"
    BY <1>4
  <2> QED BY <1>1, <1>2, <2>1, <2>2 DEF ClosingSound, MediaTypes
<1>10. ASSUME c \notin raced \cup Failed'
       PROVE  Working(o) /\ (Working(o)' => Progress(o, c)') /\ (~Working(o)' => Agrees(c)')
  <2>1. Working(o) /\ Progress(o, c)
    BY <1>1, <1>7, <1>10, CallOfWorking DEF Working
  <2>2. Agrees(c)' <=> Agrees(c)
    BY <1>1, <1>7 DEF Agrees, Unexpired
  <2> QED BY <1>1, <1>4, <2>1, <2>2 DEF Progress, Working
<1>11. \A d \in Calls \ (raced' \cup Failed') : CallSound(d)'
  <2>1. step \in [Ops -> {"idle", "engine", "manager", "metrics", "done"}]
    BY <1>2 DEF MediaTypes
  <2> QED BY <1>1, <1>4, <1>7, <1>10, <2>1, OperationStep
<1> QED BY <1>5, <1>6, <1>8, <1>9, <1>11 DEF MediaInv

LEMMA StoreDeleteSound ==
  ASSUME MediaInv, NEW o \in Ops, StoreDelete(o)
  PROVE  MediaInv'
<1> DEFINE c == onCall[o]
<1>1. /\ step[o] = "manager" /\ kind[o] \in {"delete", "shutdown"}
      /\ sessions' = [sessions EXCEPT ![c] = None]
      /\ outcome' = outcome /\ carriedOut' = carriedOut /\ verdict' = verdict /\ engine' = engine
      /\ kind' = kind /\ onCall' = onCall /\ status' = status /\ due' = due /\ expiry' = expiry
      /\ metrics' = metrics /\ active' = active
      /\ closing' = closing /\ toDelete' = toDelete /\ cleaner' = cleaner /\ raced' = raced
  BY DEF StoreDelete, requestVars, collectorVars, closeVars
<1>2. MediaTypes /\ (\A p \in Ops : PlaceSound(p)) /\ StoredSound /\ ClosingSound
  BY DEF MediaInv
<1>3. c \in Calls /\ outcome[o] = "ok" /\ verdict[o] # "none" /\ expiry[o] = "none"
  BY <1>1, <1>2 DEF PlaceSound
<1>4. /\ step' \in [Ops -> {"idle", "engine", "manager", "metrics", "done"}]
      /\ step'[o] = (IF kind[o] = "delete" THEN "metrics" ELSE "done")
      /\ \A p \in Ops : p # o => step'[p] = step[p]
      /\ sessions' \in [Calls -> Ops \cup {None}] /\ sessions'[c] = None
      /\ \A d \in Calls : d # c => sessions'[d] = sessions[d]
  BY <1>1, <1>2, <1>3 DEF StoreDelete, MediaTypes
<1>5. MediaTypes'
  <2>1. \A p \in Ops :
          /\ step'[p] = "idle" <=> kind'[p] = "none" /\ onCall'[p] = None
          /\ step'[p] = "manager" => outcome'[p] = "ok" /\ kind'[p] # "expire"
          /\ step'[p] = "metrics" => kind'[p] \in {"offer", "delete"}
    BY <1>1, <1>2, <1>4 DEF MediaTypes
  <2> QED BY <1>1, <1>2, <1>4, <2>1 DEF MediaTypes
<1>6. ASSUME NEW p \in Ops PROVE PlaceSound(p)'
  <2>1. PlaceSound(p)
    BY <1>2
  <2> QED BY <1>1, <1>3, <1>4, <2>1 DEF PlaceSound
<1>7. Stored' = Stored \ {c} /\ Failed' = Failed /\ Handlers' = Handlers
  BY <1>1, <1>4 DEF Stored, Failed, Handlers
<1>8. StoredSound'
  <2>1. \A d \in Stored' : d \in Stored /\ sessions'[d] = sessions[d]
    BY <1>4, <1>7 DEF Stored
  <2>2. \A d \in Stored : sessions[d] \in Ops /\ sessions[d] # o
    BY <1>1, <1>2 DEF StoredSound, MediaTypes, Stored
  <2> QED BY <1>1, <1>2, <1>4, <2>1, <2>2 DEF StoredSound, TableIsSound
<1>9. ClosingSound'
  <2>1. closing # "no" => kind[o] = "shutdown" /\ o \notin Handlers
    BY <1>1, <1>2 DEF ClosingSound, Handlers
  <2>2. \A p \in Ops : step'[p] = "idle" => step[p] = "idle"
    BY <1>4
  <2>3. \A d \in Stored' : d \in Stored /\ sessions'[d] = sessions[d] /\ d # c
    BY <1>4, <1>7 DEF Stored
  <2>4. ASSUME NEW d, d # c, BeingDeleted(d) PROVE BeingDeleted(d)'
    BY <1>1, <1>4, <2>4 DEF BeingDeleted
  <2>5. toDelete \subseteq Ops /\ Handlers \subseteq Ops
    BY <1>2 DEF MediaTypes, Handlers
  <2> QED BY <1>1, <1>2, <1>4, <1>7, <2>1, <2>2, <2>3, <2>4, <2>5 DEF ClosingSound
<1>10. ASSUME c \notin raced \cup Failed'
       PROVE  Working(o) /\ (Working(o)' => Progress(o, c)') /\ (~Working(o)' => Agrees(c)')
  <2>1. Working(o) /\ Progress(o, c)
    BY <1>1, <1>7, <1>10, CallOfWorking DEF Working
  <2>2. c \notin engine /\ c \notin Stored'
    BY <1>1, <1>3, <1>7, <2>1 DEF Progress
  <2>3. CASE kind[o] = "delete"
    BY <1>1, <1>3, <1>4, <2>1, <2>2, <2>3 DEF Progress, Working
  <2>4. CASE kind[o] = "shutdown"
    <3>1. closing # "no"
      BY <1>2, <2>4 DEF PlaceSound
    <3> QED BY <1>1, <1>4, <2>1, <2>2, <2>4, <3>1 DEF Agrees, Working
  <2> QED BY <1>1, <2>3, <2>4
<1>11. \A d \in Calls \ (raced' \cup Failed') : CallSound(d)'
  <2>1. step \in [Ops -> {"idle", "engine", "manager", "metrics", "done"}]
    BY <1>2 DEF MediaTypes
  <2> QED BY <1>1, <1>4, <1>7, <1>10, <2>1, OperationStep
<1> QED BY <1>5, <1>6, <1>8, <1>9, <1>11 DEF MediaInv

LEMMA CountSound ==
  ASSUME MediaInv, NEW o \in Ops, Count(o)
  PROVE  MediaInv'
<1> DEFINE c == onCall[o]
<1>1. /\ step[o] = "metrics" /\ step' = [step EXCEPT ![o] = "done"]
      /\ outcome' = outcome /\ carriedOut' = carriedOut /\ verdict' = verdict /\ engine' = engine
      /\ kind' = kind /\ onCall' = onCall /\ sessions' = sessions /\ status' = status /\ due' = due
      /\ expiry' = expiry
      /\ closing' = closing /\ toDelete' = toDelete /\ cleaner' = cleaner /\ raced' = raced
  BY DEF Count, requestVars, managerVars, closeVars
<1>2. MediaTypes /\ (\A p \in Ops : PlaceSound(p)) /\ StoredSound /\ ClosingSound
  BY DEF MediaInv
<1>3. /\ c \in Calls /\ verdict[o] # "none" /\ kind[o] \in {"offer", "delete"}
      /\ kind[o] = "offer" => verdict[o] = "ok"
  BY <1>1, <1>2 DEF PlaceSound, MediaTypes
<1>4. /\ metrics' = (IF kind[o] = "offer" THEN metrics \cup {c} ELSE metrics \ {c})
      /\ metrics' \subseteq Calls /\ active' \in Int
  BY <1>2, <1>3 DEF Count, MediaTypes
<1>5. /\ step' \in [Ops -> {"idle", "engine", "manager", "metrics", "done"}]
      /\ step'[o] = "done" /\ \A p \in Ops : p # o => step'[p] = step[p]
  BY <1>1, <1>2 DEF MediaTypes
<1>6. MediaTypes'
  BY <1>1, <1>2, <1>4, <1>5 DEF MediaTypes
<1>7. ASSUME NEW p \in Ops PROVE PlaceSound(p)'
  <2>1. PlaceSound(p)
    BY <1>2
  <2> QED BY <1>1, <1>5, <2>1 DEF PlaceSound
<1>8. Stored' = Stored /\ Failed' = Failed /\ Handlers' = Handlers
  BY <1>1 DEF Stored, Failed, Handlers
<1>9. StoredSound'
  <2>1. \A d \in Stored : sessions[d] \in Ops
    BY <1>2 DEF MediaTypes, Stored
  <2> QED BY <1>1, <1>2, <1>5, <1>8, <2>1 DEF StoredSound, TableIsSound
<1>10. ClosingSound'
  <2>1. closing = "no"
    BY <1>1, <1>2, <1>3 DEF ClosingSound, Handlers
  <2>2. \A p \in Ops : step'[p] = "idle" => step[p] = "idle"
    BY <1>5
  <2> QED BY <1>1, <1>2, <2>1, <2>2 DEF ClosingSound, MediaTypes
<1>11. ASSUME c \notin raced \cup Failed'
       PROVE  Working(o) /\ (Working(o)' => Progress(o, c)') /\ (~Working(o)' => Agrees(c)')
  <2>1. Working(o) /\ Progress(o, c)
    BY <1>1, <1>8, <1>11, CallOfWorking DEF Working
  <2> QED BY <1>1, <1>3, <1>4, <1>5, <1>8, <2>1 DEF Progress, Working, Agrees
<1>12. \A d \in Calls \ (raced' \cup Failed') : CallSound(d)'
  <2>1. step \in [Ops -> {"idle", "engine", "manager", "metrics", "done"}]
    BY <1>2 DEF MediaTypes
  <2> QED BY <1>1, <1>4, <1>5, <1>8, <1>11, <2>1, OperationStep
<1> QED BY <1>6, <1>7, <1>9, <1>10, <1>12 DEF MediaInv

-----------------------------------------------------------------------------
(* cleanup takes the sessions that are due out of the table.               *)
LEMMA CleanupSound ==
  ASSUME MediaInv, Cleanup
  PROVE  MediaInv'
<1>1. /\ outcome' = outcome /\ carriedOut' = carriedOut /\ verdict' = verdict /\ engine' = engine
      /\ kind' = kind /\ onCall' = onCall /\ step' = step /\ status' = status /\ due' = due
      /\ metrics' = metrics /\ active' = active
      /\ closing' = closing /\ toDelete' = toDelete /\ cleaner' = cleaner /\ NoteRaces
  BY DEF Cleanup, requestVars, opVars, collectorVars, closeVars
<1>2. MediaTypes /\ (\A p \in Ops : PlaceSound(p)) /\ StoredSound /\ ClosingSound
  BY DEF MediaInv
<1>3. None \notin due
  BY <1>2, MediaAssumption DEF MediaTypes
<1>4. /\ sessions' \in [Calls -> Ops \cup {None}]
      /\ \A d \in Calls : sessions'[d] = IF sessions[d] \in due THEN None ELSE sessions[d]
  BY <1>2 DEF Cleanup, MediaTypes
<1>5. /\ expiry' \in [Ops -> {"none", "started", "sent"}]
      /\ \A s \in Ops : expiry'[s] = IF \E d \in Calls : sessions[d] = s /\ s \in due
                                     THEN "started" ELSE expiry[s]
  BY <1>2 DEF Cleanup, MediaTypes
<1>6. \A d \in Stored : /\ d \in Calls /\ sessions[d] \in Ops /\ kind[sessions[d]] = "offer" /\ onCall[sessions[d]] = d
                        /\ expiry[sessions[d]] = "none" /\ step[sessions[d]] \in {"metrics", "done"}
  BY <1>2 DEF StoredSound, TableIsSound, MediaTypes, Stored
<1>7. \A d \in Calls : sessions[d] \in due => d \in Stored
  BY <1>3 DEF Stored
<1>8. ASSUME NEW s \in Ops
      PROVE  \/ expiry'[s] = expiry[s]
             \/ /\ expiry'[s] = "started" /\ onCall[s] \in Stored /\ sessions[onCall[s]] = s /\ s \in due
                /\ kind[s] = "offer" /\ step[s] \in {"metrics", "done"}
  <2>1. CASE \E d \in Calls : sessions[d] = s /\ s \in due
    BY <1>5, <1>6, <1>7, <2>1
  <2>2. CASE ~(\E d \in Calls : sessions[d] = s /\ s \in due)
    BY <1>5, <2>2
  <2> QED BY <2>1, <2>2
<1>9. MediaTypes'
  <2>1. raced' \subseteq Calls
    BY <1>1, <1>2 DEF MediaTypes, NoteRaces
  <2> QED BY <1>1, <1>2, <1>4, <1>5, <2>1 DEF MediaTypes
<1>10. ASSUME NEW p \in Ops PROVE PlaceSound(p)'
  <2>1. PlaceSound(p)
    BY <1>2
  <2>2. \A s \in Ops : expiry[s] # "none" => expiry'[s] # "none"
    BY <1>8
  <2>3. expiry'[p] # "none" => kind[p] = "offer" /\ step[p] \in {"metrics", "done"}
    BY <1>8, <2>1 DEF PlaceSound
  <2> QED BY <1>1, <2>1, <2>2, <2>3 DEF PlaceSound
<1>11. /\ Failed' = Failed /\ Handlers' = Handlers /\ raced \subseteq raced'
       /\ \A d \in Stored' : d \in Stored /\ sessions'[d] = sessions[d] /\ sessions[d] \notin due
       /\ \A d \in Stored \ Stored' : sessions[d] \in due
  BY <1>1, <1>4, MediaAssumption DEF Stored, Failed, Handlers, NoteRaces
<1>12. StoredSound'
  <2>1. \A d \in Stored' : expiry'[sessions[d]] = "none"
    BY <1>6, <1>8, <1>11
  <2> QED BY <1>1, <1>2, <1>11, <2>1 DEF StoredSound, TableIsSound
<1>13. ClosingSound'
  <2>1. \A d \in Stored : BeingDeleted(d)' <=> BeingDeleted(d)
    BY <1>1 DEF BeingDeleted
  <2> QED BY <1>1, <1>2, <1>11, <2>1 DEF ClosingSound
<1>14. ASSUME NEW d \in Calls \ (raced' \cup Failed') PROVE CallSound(d)'
  <2>1. CallSound(d) /\ OneAtATime(d)' /\ UnderWay(d)' = UnderWay(d)
    BY <1>1, <1>11, RaceNoted DEF MediaInv, UnderWay
  <2>2. CASE sessions[d] \notin due
    <3>1. \A s \in Ops : onCall[s] = d => expiry'[s] = expiry[s]
      BY <1>8, <2>2
    <3>2. Started(d)' = Started(d) /\ (Unexpired(d)' <=> Unexpired(d))
      BY <1>1, <3>1 DEF Started, Unexpired
    <3>3. d \in Stored' <=> d \in Stored
      BY <1>11, <2>2
    <3> QED BY <1>1, <2>1, <3>2, <3>3, OtherCall
  <2>3. CASE sessions[d] \in due
    <3>1. d \in Stored /\ d \notin Stored'
      BY <1>7, <1>11, <2>3
    <3>2. sessions[d] \in Started(d)'
      BY <1>1, <1>5, <1>6, <2>3, <3>1 DEF Started
    <3>3. UnderWay(d) = {}
      BY <2>1, <3>2 DEF OneAtATime
    <3>4. Started(d) = {}
      BY <2>1, <3>1 DEF CallSound
    <3>5. d \in engine
      BY <2>1, <3>1, <3>3, <3>4 DEF CallSound, Agrees
    <3> QED BY <1>1, <2>1, <3>1, <3>2, <3>3, <3>5 DEF CallSound
  <2> QED BY <2>2, <2>3
<1> QED BY <1>9, <1>10, <1>12, <1>13, <1>14 DEF MediaInv

(* What no operation and no session is touched by.                         *)
LEMMA QuietStep ==
  ASSUME MediaInv, UNCHANGED <<requestVars, opVars, sessions, status, expiry, collectorVars, raced>>,
         due' \subseteq Ops, toDelete' \subseteq Ops,
         closing' \in {"no", "deleting", "done"}, cleaner' \in {"running", "gone"},
         closing # "no" => closing' # "no", ClosingSound'
  PROVE  MediaInv'
<1>1. /\ outcome' = outcome /\ carriedOut' = carriedOut /\ verdict' = verdict /\ engine' = engine
      /\ kind' = kind /\ onCall' = onCall /\ step' = step /\ sessions' = sessions /\ status' = status
      /\ expiry' = expiry /\ metrics' = metrics /\ active' = active /\ raced' = raced
  BY DEF requestVars, opVars, collectorVars
<1>2. MediaTypes /\ (\A p \in Ops : PlaceSound(p)) /\ StoredSound
  BY DEF MediaInv
<1>3. MediaTypes'
  BY <1>1, <1>2 DEF MediaTypes
<1>4. ASSUME NEW p \in Ops PROVE PlaceSound(p)'
  <2>1. PlaceSound(p)
    BY <1>2
  <2> QED BY <1>1, <2>1 DEF PlaceSound
<1>5. Stored' = Stored /\ Failed' = Failed
  BY <1>1 DEF Stored, Failed
<1>6. StoredSound'
  BY <1>1, <1>2, <1>5 DEF StoredSound, TableIsSound
<1>7. ASSUME NEW d \in Calls \ (raced' \cup Failed') PROVE CallSound(d)'
  <2>1. CallSound(d)
    BY <1>1, <1>5 DEF MediaInv
  <2>2. /\ UnderWay(d)' = UnderWay(d) /\ Started(d)' = Started(d)
        /\ (Unexpired(d)' <=> Unexpired(d))
    BY <1>1 DEF UnderWay, Started, Unexpired
  <2> QED BY <1>1, <1>5, <2>1, <2>2, OtherCall
<1> QED BY <1>3, <1>4, <1>6, <1>7 DEF MediaInv

LEMMA CloseSound ==
  ASSUME MediaInv, BeginClose \/ CleanerEnds \/ EndClose
  PROVE  MediaInv'
<1>1. /\ UNCHANGED <<requestVars, opVars, managerVars, collectorVars, raced>>
      /\ kind' = kind /\ onCall' = onCall /\ step' = step /\ sessions' = sessions /\ outcome' = outcome
      /\ due' = due
  BY DEF BeginClose, CleanerEnds, EndClose, requestVars, opVars, managerVars, collectorVars
<1>2. MediaTypes /\ StoredSound /\ ClosingSound
  BY DEF MediaInv
<1>3. Stored' = Stored /\ Failed' = Failed /\ Handlers' = Handlers
  BY <1>1 DEF Stored, Failed, Handlers
<1>4. \A d : BeingDeleted(d)' <=> BeingDeleted(d)
  BY <1>1 DEF BeingDeleted
<1>5. CASE BeginClose
  <2>1. /\ closing = "no" /\ closing' = "deleting" /\ toDelete' = {sessions[d] : d \in Stored} /\ cleaner' = cleaner
        /\ \A o \in Handlers : step[o] = "done"
    BY <1>5 DEF BeginClose
  <2>2. \A d \in Stored : sessions[d] \in Ops /\ step[sessions[d]] # "idle"
    BY <1>2 DEF StoredSound, MediaTypes, Stored
  <2>3. ClosingSound'
    BY <1>1, <1>3, <2>1, <2>2 DEF ClosingSound
  <2>4. cleaner' \in {"running", "gone"} /\ toDelete' \subseteq Ops /\ due' \subseteq Ops
    BY <1>1, <1>2, <2>1, <2>2 DEF MediaTypes
  <2> QED BY <1>1, <2>1, <2>3, <2>4, QuietStep DEF managerVars
<1>6. CASE CleanerEnds
  <2>1. closing' = closing /\ toDelete' = toDelete /\ cleaner' = "gone"
    BY <1>6 DEF CleanerEnds
  <2>2. ClosingSound'
    BY <1>1, <1>2, <1>3, <1>4, <2>1 DEF ClosingSound
  <2>3. closing' \in {"no", "deleting", "done"} /\ toDelete' \subseteq Ops /\ due' \subseteq Ops
    BY <1>1, <1>2, <2>1 DEF MediaTypes
  <2> QED BY <1>1, <2>1, <2>2, <2>3, QuietStep DEF managerVars
<1>7. CASE EndClose
  <2>1. /\ closing = "deleting" /\ toDelete = {} /\ closing' = "done" /\ toDelete' = toDelete /\ cleaner' = cleaner
        /\ \A p \in Ops : kind[p] = "shutdown" => step[p] = "done"
    BY <1>7 DEF EndClose
  <2>2. Stored \subseteq Failed
    BY <1>2, <2>1 DEF ClosingSound, BeingDeleted
  <2>3. ClosingSound'
    BY <1>1, <1>2, <1>3, <2>1, <2>2 DEF ClosingSound
  <2>4. cleaner' \in {"running", "gone"} /\ toDelete' \subseteq Ops /\ due' \subseteq Ops
    BY <1>1, <1>2, <2>1 DEF MediaTypes
  <2> QED BY <1>1, <2>1, <2>3, <2>4, QuietStep DEF managerVars
<1> QED BY <1>5, <1>6, <1>7

(* Time passes, or nothing happens.                                        *)
LEMMA NothingMoves ==
  ASSUME MediaInv, (\E c \in Calls : Expire(c)) \/ UNCHANGED mediaVars
  PROVE  MediaInv'
<1>1. /\ UNCHANGED <<requestVars, opVars, sessions, status, expiry, collectorVars, raced>>
      /\ closing' = closing /\ toDelete' = toDelete /\ cleaner' = cleaner
      /\ kind' = kind /\ onCall' = onCall /\ step' = step /\ sessions' = sessions /\ outcome' = outcome
  BY DEF Expire, mediaVars, requestVars, opVars, managerVars, collectorVars, closeVars
<1>2. MediaTypes /\ ClosingSound
  BY DEF MediaInv
<1>3. due' \subseteq Ops
  BY <1>2 DEF Expire, mediaVars, managerVars, MediaTypes, Stored
<1>4. Stored' = Stored /\ Failed' = Failed /\ Handlers' = Handlers /\ \A d : BeingDeleted(d)' <=> BeingDeleted(d)
  BY <1>1 DEF Stored, Failed, Handlers, BeingDeleted
<1>5. ClosingSound'
  BY <1>1, <1>2, <1>4 DEF ClosingSound
<1>6. closing' \in {"no", "deleting", "done"} /\ cleaner' \in {"running", "gone"} /\ toDelete' \subseteq Ops
  BY <1>1, <1>2 DEF MediaTypes
<1> QED BY <1>1, <1>3, <1>5, <1>6, QuietStep

LEMMA BeginningSound ==
  ASSUME MediaInv, NEW o \in Ops,
         (\E c \in Calls : Request(o, c)) \/ (\E s \in Ops : DeleteExpired(o, s)) \/ CloseDelete(o)
  PROVE  MediaInv'
<1>1. MediaTypes
  BY DEF MediaInv
<1>2. ASSUME NEW c \in Calls, Request(o, c) PROVE MediaInv'
  <2>1. PICK k \in {"offer", "answer", "delete"} : Start(o, k, c)
    BY <1>2 DEF Request
  <2>2. Begins(k, o, c) /\ NoteRaces
        /\ UNCHANGED <<sessions, status, due, metrics, active, closing, cleaner>>
    BY <1>2 DEF Request, Begins, managerVars, collectorVars, closeVars
  <2> QED BY <2>1, <2>2, StartSound
<1>3. ASSUME NEW s \in Ops, DeleteExpired(o, s) PROVE MediaInv'
  <2>1. /\ Begins("expire", s, onCall[s]) /\ NoteRaces /\ Start(o, "expire", onCall[s])
        /\ UNCHANGED <<sessions, status, due, metrics, active, closing, cleaner>>
    BY <1>3 DEF DeleteExpired, Begins, collectorVars, closeVars
  <2>2. onCall[s] \in Calls \cup {None}
    BY <1>1 DEF MediaTypes
  <2> QED BY <2>1, <2>2, StartSound
<1>4. ASSUME CloseDelete(o) PROVE MediaInv'
  <2>1. PICK s \in toDelete : toDelete' = toDelete \ {s} /\ Start(o, "shutdown", onCall[s])
    BY <1>4 DEF CloseDelete
  <2>2. s \in Ops /\ onCall[s] \in Calls \cup {None}
    BY <1>1 DEF MediaTypes
  <2>3. /\ Begins("shutdown", s, onCall[s]) /\ NoteRaces
        /\ UNCHANGED <<sessions, status, due, metrics, active, closing, cleaner>>
    BY <1>4, <2>1 DEF CloseDelete, Begins, managerVars, collectorVars
  <2> QED BY <2>1, <2>2, <2>3, StartSound
<1> QED BY <1>2, <1>3, <1>4

-----------------------------------------------------------------------------
LEMMA MediaInvariance == MediaSpec => []MediaInv
<1>1. MediaInv /\ [MediaNext]_mediaVars => MediaInv'
  BY BeginningSound, ExecuteSound, FinishSound, StoreOfferSound, StoreAnswerSound, StoreDeleteSound, CountSound,
     CleanupSound, CloseSound, NothingMoves DEF MediaNext
<1> QED BY <1>1, InitSound, PTL DEF MediaSpec

(* A call with nothing under way: neither an operation nor a goroutine.    *)
LEMMA Unloaded ==
  ASSUME NEW c, Load(c) = 0
  PROVE  UnderWay(c) = {} /\ Started(c) = {}
<1>1. UnderWay(c) \subseteq Ops /\ Started(c) \subseteq Ops
  BY DEF UnderWay, Started
<1>2. IsFiniteSet(UnderWay(c)) /\ IsFiniteSet(Started(c))
  BY <1>1, MediaAssumption, FS_Subset
<1> DEFINE m == Cardinality(UnderWay(c))      n == Cardinality(Started(c))
<1>3. m \in Nat /\ n \in Nat /\ m + n = 0
  BY <1>2, FS_CardinalityType DEF Load
<1> HIDE DEF m, n
<1>4. m = 0 /\ n = 0
  BY <1>3
<1> QED BY <1>2, <1>4, FS_EmptySet DEF m, n

(* For any calls and any operations on them: the table holds only sessions *)
(* RTPengine accepted, and table, RTPengine and collector agree on a call  *)
(* whose operations neither overlapped nor failed.                         *)
THEOREM SessionsAlwaysAgree == MediaSpec => []SessionsAgree
<1>1. MediaInv => SessionsAgree
  <2> SUFFICES ASSUME MediaInv PROVE SessionsAgree
    OBVIOUS
  <2>1. ASSUME NEW c \in Settled PROVE Agrees(c)
    <3>1. c \in Calls \ (raced \cup Failed) /\ Load(c) = 0
      BY DEF Settled
    <3> QED BY <3>1, Unloaded DEF MediaInv, CallSound
  <2>2. ViewsAgree
    BY <2>1 DEF ViewsAgree, Agrees, Unexpired
  <2> QED BY <2>2 DEF MediaInv, StoredSound, SessionsAgree
<1> QED BY <1>1, MediaInvariance, PTL

(* For any calls and sessions: Close leaves a session in the table only if *)
(* its deletion was not confirmed, and one at RTPengine only for a request *)
(* that failed, raced or is still under way.                               *)
THEOREM CloseAlwaysDeletes == MediaSpec => []CloseDeletesAll
<1>1. MediaInv => CloseDeletesAll
  <2> SUFFICES ASSUME MediaInv, closing = "done" PROVE CloseDeletesAll
    BY DEF CloseDeletesAll
  <2>1. Stored \subseteq Failed
    BY DEF MediaInv, ClosingSound
  <2>2. ASSUME NEW c \in engine, c \notin Failed \cup raced, Load(c) = 0 PROVE FALSE
    <3>1. c \in Calls
      BY DEF MediaInv, MediaTypes
    <3>2. Agrees(c)
      BY <2>2, <3>1, Unloaded DEF MediaInv, CallSound
    <3> QED BY <2>1, <2>2, <3>2 DEF Agrees
  <2>3. \A c \in Calls : Load(c) > 0 \/ Load(c) = 0
    <3> SUFFICES ASSUME NEW c \in Calls PROVE Load(c) > 0 \/ Load(c) = 0
      OBVIOUS
    <3>1. IsFiniteSet(UnderWay(c)) /\ IsFiniteSet(Started(c))
      BY MediaAssumption, FS_Subset DEF UnderWay, Started
    <3> DEFINE m == Cardinality(UnderWay(c))      n == Cardinality(Started(c))
    <3>2. m \in Nat /\ n \in Nat /\ Load(c) = m + n
      BY <3>1, FS_CardinalityType DEF Load
    <3> HIDE DEF m, n
    <3> QED BY <3>2
  <2>4. engine \subseteq Calls
    BY DEF MediaInv, MediaTypes
  <2> QED BY <2>1, <2>2, <2>3, <2>4 DEF CloseDeletesAll
<1> QED BY <1>1, MediaInvariance, PTL
=============================================================================
