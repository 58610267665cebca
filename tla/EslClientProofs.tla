--------------------------- MODULE EslClientProofs ---------------------------
(***************************************************************************)
(* ConnectionSound and DeliveredOrCounted hold for any capacities, limits  *)
(* and delays, any number of events and of lost connections.               *)
(*                                                                         *)
(* The delay before an attempt is stated with a power of two, about which  *)
(* no prover knows anything; but 2^n is the number of subsets of 1 .. n,   *)
(* which the library has, and that is enough to know that it doubles.      *)
(*                                                                         *)
(* That no event is handled twice or lost uncounted rests on where events  *)
(* are: in one of seven places each, and there once (Apart, OnceEach).  A  *)
(* step moves some from one place to another, and some are gone; one lemma *)
(* (Transfer) says what every such step keeps, and two say what it does to *)
(* the counts.                                                             *)
(***************************************************************************)
EXTENDS EslClient, FiniteSetTheorems, TLAPS

(* The types, those of the buffer among them.                              *)
Slot == Event \cup {NilEvent}
ClientTypes ==
  /\ TypeOK
  /\ chan \in Seq(Slot) /\ batch \in Seq(Slot) /\ stored \in Seq(Slot) /\ Len(stored) <= MaxSize
  /\ pending \in Slot /\ closed \in BOOLEAN /\ ctxDone \in BOOLEAN
  /\ sent \in 0 .. MaxEvents /\ streak \in Nat

(* The constants, as the provers need them.                                *)
LEMMA Numbers ==
  /\ EventCap \in Nat /\ MaxRetries \in Nat /\ MaxRetries >= 1 /\ Threshold \in Nat
  /\ InitialBackoff \in Nat /\ MaxBackoff \in Nat /\ InitialBackoff >= 1 /\ InitialBackoff <= MaxBackoff
  /\ MaxEvents \in Nat /\ MaxSize \in Nat /\ MaxSize >= 1 /\ EventCap >= 1
BY ClientAssumption, SizeAssumption

(* A sequence of events with one more at its end, or one less at its head. *)
LEMMA Ends ==
  ASSUME NEW s \in Seq(Slot), NEW x \in Slot
  PROVE  /\ Append(s, x) \in Seq(Slot) /\ Len(Append(s, x)) = Len(s) + 1 /\ Len(s) \in Nat
         /\ s # <<>> => /\ Tail(s) \in Seq(Slot) /\ Len(Tail(s)) = Len(s) - 1 /\ Head(s) \in Slot
                        /\ Len(s) >= 1
OBVIOUS

(* What is left of a sequence without its first k elements.                *)
LEMMA Suffix ==
  ASSUME NEW S, NEW u \in Seq(S), NEW k \in Nat, k <= Len(u)
  PROVE  /\ SubSeq(u, k + 1, Len(u)) \in Seq(S) /\ Len(SubSeq(u, k + 1, Len(u))) = Len(u) - k
         /\ \A i \in 1 .. Len(u) - k : SubSeq(u, k + 1, Len(u))[i] = u[i + k]
<1> DEFINE m == k + 1
           n == Len(u)
           r == SubSeq(u, m, n)
<1>1. m \in Int /\ n \in Int /\ n \in Nat /\ m = k + 1 /\ k <= n /\ m >= 1
  OBVIOUS
<1>2. \A i \in 1 .. n : u[i] \in S
  OBVIOUS
<1> HIDE DEF m, n
<1>3. \A i \in m .. n : u[i] \in S
  <2> SUFFICES ASSUME NEW i \in m .. n PROVE u[i] \in S
    OBVIOUS
  <2>1. i \in 1 .. n
    BY <1>1
  <2> QED  BY <1>2, <2>1
<1>4. /\ r \in Seq(S) /\ Len(r) = IF m <= n THEN n - m + 1 ELSE 0
      /\ \A i \in 1 .. n - m + 1 : r[i] = u[m + i - 1]
  BY <1>1, <1>3, SMT
<1> HIDE DEF r
<1>5. Len(r) = n - k
  BY <1>1, <1>4
<1>6. ASSUME NEW i \in 1 .. n - k PROVE r[i] = u[i + k]
  <2>1. i \in 1 .. n - m + 1 /\ m + i - 1 = i + k
    BY <1>1
  <2> QED  BY <1>4, <2>1
<1> QED  BY <1>4, <1>5, <1>6 DEF r, m, n

(* What processBatch stores is all but the first events, those cut off.    *)
LEMMA StoredLeaves ==
  ASSUME NEW s \in Seq(Slot), NEW b \in Seq(Slot)
  PROVE  /\ s \o b \in Seq(Slot) /\ Len(s \o b) = Len(s) + Len(b)
         /\ Cuts(s, b) \in Nat /\ Cuts(s, b) <= Len(s) + Len(b)
         /\ Stored(s, b) \in Seq(Slot) /\ Len(Stored(s, b)) = (Len(s) + Len(b)) - Cuts(s, b)
         /\ \A i \in 1 .. Len(Stored(s, b)) : Stored(s, b)[i] = (s \o b)[i + Cuts(s, b)]
<1> DEFINE u == s \o b
           k == Cuts(s, b)
<1>1. /\ u \in Seq(Slot) /\ Len(u) = Len(s) + Len(b) /\ Len(s) \in Nat /\ Len(b) \in Nat
  OBVIOUS
<1>2. k \in Nat /\ k <= Len(u)
  BY <1>1 DEF Cuts
<1>3. Stored(s, b) = SubSeq(u, k + 1, Len(u))
  BY <1>1 DEF Stored
<1> HIDE DEF u, k
<1>4. /\ SubSeq(u, k + 1, Len(u)) \in Seq(Slot) /\ Len(SubSeq(u, k + 1, Len(u))) = Len(u) - k
      /\ \A i \in 1 .. Len(u) - k : SubSeq(u, k + 1, Len(u))[i] = u[i + k]
  BY <1>1, <1>2, Suffix
<1>5. /\ Stored(s, b) \in Seq(Slot) /\ Len(Stored(s, b)) = (Len(s) + Len(b)) - k
      /\ \A i \in 1 .. Len(Stored(s, b)) : Stored(s, b)[i] = u[i + k]
  BY <1>1, <1>3, <1>4
<1> QED  BY <1>1, <1>2, <1>5 DEF u, k

LEMMA TypesInitially == Init => ClientTypes
<1> SUFFICES ASSUME Init PROVE ClientTypes
  OBVIOUS
<1>1. <<>> \in Seq(Slot) /\ Len(<<>>) = 0
  OBVIOUS
<1>2. 0 \in 0 .. MaxRetries /\ 0 \in 0 .. MaxEvents /\ InitialBackoff \in InitialBackoff .. MaxBackoff
  BY Numbers
<1>3. breaker \in [state : {"closed", "open", "half-open"}, failures : Nat, cooled : BOOLEAN]
  BY DEF Init
<1>4. TypeOK
  BY <1>1, <1>2, <1>3, Numbers DEF Init, TypeOK, Slot
<1>5. chan \in Seq(Slot) /\ batch \in Seq(Slot) /\ stored \in Seq(Slot) /\ Len(stored) <= MaxSize
  BY <1>1, Numbers DEF Init, BufferInit
<1>6. pending \in Slot /\ closed \in BOOLEAN /\ ctxDone \in BOOLEAN /\ sent \in 0 .. MaxEvents /\ streak \in Nat
  BY <1>2 DEF Init, BufferInit, Slot
<1> QED BY <1>4, <1>5, <1>6 DEF ClientTypes

(* What the buffer's operations leave.                                     *)
BufferTypes == /\ chan' \in Seq(Slot) /\ batch' \in Seq(Slot) /\ stored' \in Seq(Slot) /\ Len(stored') <= MaxSize
               /\ pending' \in Slot /\ closed' \in BOOLEAN

LEMMA SendTypes ==
  ASSUME ClientTypes, NEW e \in Slot, EnqueueSend(e)
  PROVE  BufferTypes
BY Ends DEF EnqueueSend, ClientTypes, BufferTypes

LEMMA RestTypes ==
  ASSUME ClientTypes, EnqueueFull
  PROVE  BufferTypes
<1>1. stored' \in Seq(Slot) /\ Len(stored') <= MaxSize
  <2>1. CASE stored = <<>>
    <3>1. stored' = Append(<<>>, pending) /\ <<>> \in Seq(Slot) /\ Len(<<>>) = 0
      BY <2>1 DEF EnqueueFull
    <3> QED BY <3>1, Ends, Numbers DEF ClientTypes
  <2>2. CASE stored # <<>>
    <3> DEFINE t == Tail(stored)
    <3>1. t \in Seq(Slot) /\ Len(t) = Len(stored) - 1 /\ stored' = Append(t, pending) /\ Len(stored) \in Nat
      BY <2>2, Ends DEF EnqueueFull, ClientTypes
    <3> HIDE DEF t
    <3> QED BY <3>1, Ends DEF ClientTypes
  <2> QED BY <2>1, <2>2
<1> QED BY <1>1 DEF EnqueueFull, ClientTypes, BufferTypes, Slot

LEMMA FlusherTypes ==
  ASSUME ClientTypes, BackgroundFlush
  PROVE  BufferTypes
<1>1. CASE Receive
  BY <1>1, Ends DEF Receive, ClientTypes, BufferTypes, Slot
<1>2. CASE StoreBatch
  <2>1. CASE Cuts(stored, batch) > MaxSize
    BY <1>2, <2>1 DEF StoreBatch, ClientTypes, BufferTypes
  <2>2. CASE ~(Cuts(stored, batch) > MaxSize)
    <3>1. /\ stored' = Stored(stored, batch) /\ batch' = <<>> /\ chan' = chan /\ pending' = pending /\ closed' = closed
      BY <1>2, <2>2 DEF StoreBatch
    <3>2. stored \in Seq(Slot) /\ batch \in Seq(Slot) /\ Len(stored) \in Nat /\ Len(batch) \in Nat
          /\ Len(stored) <= MaxSize
      BY DEF ClientTypes
    <3>3. stored' \in Seq(Slot) /\ Len(stored') = (Len(stored) + Len(batch)) - Cuts(stored, batch)
      BY <3>1, <3>2, StoredLeaves
    <3>4. Cuts(stored, batch) = IF Len(stored) + Len(batch) <= MaxSize THEN 0 ELSE Len(batch)
      BY DEF Cuts, Fits
    <3>5. Len(stored') <= MaxSize
      BY <3>2, <3>3, <3>4, Numbers
    <3> QED BY <3>1, <3>3, <3>5 DEF ClientTypes, BufferTypes
  <2> QED BY <2>1, <2>2
<1>3. CASE FlusherExit
  BY <1>3 DEF FlusherExit, ClientTypes, BufferTypes
<1> QED BY <1>1, <1>2, <1>3 DEF BackgroundFlush

(* Every step keeps the types; that attempts stay below MaxRetries is what *)
(* the retries are proved from.                                            *)
LEMMA TypesKept ==
  ASSUME ClientTypes, [Next]_vars, manager # "gone" => attempts < MaxRetries
  PROVE  ClientTypes'
<1> USE DEF ClientTypes
<1>1. CASE Loop \/ Wait \/ Connect
  BY <1>1 DEF Loop, Wait, Connect, AfterIsOpen, TypeOK, bufferVars
<1>2. CASE Dial \/ Authenticate
  <2>1. attempts' \in 0 .. MaxRetries /\ streak' \in Nat
    <3>1. manager # "gone" /\ attempts' \in {attempts, attempts + 1} /\ streak' \in {streak, streak + 1}
      <4>1. CASE Dial
        BY <4>1 DEF Dial, Failed
      <4>2. CASE Authenticate
        BY <4>2 DEF Authenticate, Failed
      <4> QED BY <1>2, <4>1, <4>2
    <3>2. attempts \in 0 .. MaxRetries /\ streak \in Nat
      BY DEF TypeOK
    <3> QED BY <3>1, <3>2, Numbers
  <2>2. /\ manager' \in {"gone", "backoff", "auth", "flush"} /\ conn' \in {conn, "open", "dead"}
        /\ UNCHANGED <<reader, current, replay, backoff, breaker, eventChan, ctxDone, sent>>
        /\ UNCHANGED <<chan, batch, stored, pending, closed>>
    <3>1. CASE Dial
      BY <3>1 DEF Dial, Failed, bufferVars
    <3>2. CASE Authenticate
      BY <3>2 DEF Authenticate, Failed, bufferVars
    <3> QED BY <1>2, <3>1, <3>2
  <2> QED BY <2>1, <2>2 DEF TypeOK
<1>3. CASE FlushBuffer
  <2>1. <<>> \in Seq(Slot) /\ Len(<<>>) <= MaxSize
    BY Numbers
  <2> QED BY <1>3, <2>1 DEF FlushBuffer, Flush, TypeOK, Slot
<1>4. CASE ReplayOne
  <2>1. /\ replay \in Seq(Slot) /\ replay # <<>> /\ Len(replay) <= MaxSize
        /\ eventChan \in Seq(Slot) /\ Len(eventChan) <= EventCap
    BY <1>4 DEF ReplayOne, TypeOK, Slot
  <2>2. Tail(replay) \in Seq(Slot) /\ Len(Tail(replay)) <= MaxSize /\ Head(replay) \in Slot
    BY <2>1, Ends, Numbers
  <2>3. eventChan' \in Seq(Slot) /\ Len(eventChan') <= EventCap
    <3> DEFINE a == Append(eventChan, Head(replay))
    <3>1. (Len(eventChan) < EventCap /\ eventChan' = a) \/ eventChan' = eventChan
      BY <1>4 DEF ReplayOne
    <3>2. a \in Seq(Slot) /\ Len(a) = Len(eventChan) + 1 /\ Len(eventChan) \in Nat
      BY <2>1, <2>2, Ends
    <3> HIDE DEF a
    <3> QED BY <2>1, <3>1, <3>2, Numbers
  <2>4. BufferTypes
    <3>1. CASE Len(eventChan) < EventCap
      BY <1>4, <3>1 DEF ReplayOne, BufferTypes, bufferVars
    <3>2. CASE ~(Len(eventChan) < EventCap)
      BY <1>4, <2>2, <3>2, SendTypes DEF ReplayOne
    <3> QED BY <3>1, <3>2
  <2> QED BY <1>4, <2>2, <2>3, <2>4 DEF ReplayOne, TypeOK, BufferTypes, Slot
<1>5. CASE EnqueueRest
  <2>1. BufferTypes
    BY <1>5, RestTypes DEF EnqueueRest
  <2> QED BY <1>5, <2>1 DEF EnqueueRest, TypeOK, BufferTypes, clientVars
<1>6. CASE Connected
  <2>1. breaker' \in [state : {"closed", "open", "half-open"}, failures : Nat, cooled : BOOLEAN]
    BY <1>6 DEF Connected, RecordSuccess, TypeOK
  <2>2. attempts' \in 0 .. MaxRetries /\ streak' \in Nat /\ backoff' \in InitialBackoff .. MaxBackoff
    BY <1>6, Numbers DEF Connected
  <2> QED BY <1>6, <2>1, <2>2 DEF Connected, TypeOK, bufferVars
<1>7. CASE BackOff
  BY <1>7, Numbers DEF BackOff, SmallerOf, TypeOK, bufferVars
<1>8. CASE StartReading \/ CheckContext \/ Dispatched
  BY <1>8 DEF StartReading, CheckContext, Dispatched, TypeOK, bufferVars
<1>9. CASE ReadError
  <2>1. breaker.failures \in Nat /\ breaker.state \in {"closed", "open", "half-open"}
    BY DEF TypeOK
  <2>2. RecordFailure \in [state : {"closed", "open", "half-open"}, failures : Nat, cooled : BOOLEAN]
    BY <2>1 DEF RecordFailure
  <2>3. breaker' \in [state : {"closed", "open", "half-open"}, failures : Nat, cooled : BOOLEAN] /\ streak' \in Nat
    <3>1. breaker' \in {breaker, RecordFailure} /\ streak' \in {streak, streak + 1}
      BY <1>9 DEF ReadError
    <3>2. breaker \in [state : {"closed", "open", "half-open"}, failures : Nat, cooled : BOOLEAN] /\ streak \in Nat
      BY DEF TypeOK
    <3> HIDE DEF RecordFailure
    <3> QED BY <2>2, <3>1, <3>2
  <2>4. manager' \in {manager, "loop"}
    BY <1>9 DEF ReadError
  <2> HIDE DEF RecordFailure
  <2> QED BY <1>9, <2>3, <2>4 DEF ReadError, TypeOK
<1>10. CASE Dispatch
  <2>1. current \in Slot /\ eventChan \in Seq(Slot) /\ Len(eventChan) <= EventCap
    BY <1>10 DEF TypeOK, Slot
  <2>2. eventChan' \in Seq(Slot) /\ Len(eventChan') <= EventCap
    <3> DEFINE a == Append(eventChan, current)
    <3>1. (Len(eventChan) < EventCap /\ eventChan' = a) \/ eventChan' = eventChan
      BY <1>10 DEF Dispatch
    <3>2. a \in Seq(Slot) /\ Len(a) = Len(eventChan) + 1 /\ Len(eventChan) \in Nat
      BY <2>1, Ends
    <3> HIDE DEF a
    <3> QED BY <2>1, <3>1, <3>2, Numbers
  <2>3. BufferTypes
    <3>1. CASE Len(eventChan) < EventCap
      BY <1>10, <3>1 DEF Dispatch, BufferTypes, bufferVars
    <3>2. CASE ~(Len(eventChan) < EventCap)
      BY <1>10, <2>1, <3>2, SendTypes DEF Dispatch
    <3> QED BY <3>1, <3>2
  <2> QED BY <1>10, <2>2, <2>3 DEF Dispatch, TypeOK, BufferTypes, Slot
<1>11. CASE ReadEvent
  <2>1. sent' \in 0 .. MaxEvents /\ current' \in Event
    BY <1>11, Numbers DEF ReadEvent, Event
  <2> QED BY <1>11, <2>1 DEF ReadEvent, TypeOK, bufferVars
<1>12. CASE LoseConnection
  BY <1>12 DEF LoseConnection, TypeOK, bufferVars
<1>13. CASE HandleEvent
  <2>1. eventChan \in Seq(Slot) /\ eventChan # <<>> /\ Len(eventChan) <= EventCap
    BY <1>13 DEF HandleEvent, TypeOK, Slot
  <2>2. eventChan' \in Seq(Slot) /\ Len(eventChan') <= EventCap
    <3>1. eventChan' = Tail(eventChan)
      BY <1>13 DEF HandleEvent
    <3> QED BY <2>1, <3>1, Ends, Numbers
  <2>3. UNCHANGED <<chan, batch, stored, pending, closed, manager, conn, reader, current, replay, attempts,
                    backoff, breaker, ctxDone, sent, streak>>
    BY <1>13 DEF HandleEvent
  <2> QED BY <2>2, <2>3 DEF TypeOK, Slot
<1>14. CASE CallHandler \/ ProcessorExit
  BY <1>14 DEF CallHandler, ProcessorExit, TypeOK, bufferVars
<1>15. CASE HealthCheck
  BY <1>15, Numbers DEF HealthCheck, TypeOK, bufferVars
<1>16. CASE Stop
  BY <1>16 DEF Stop, StopClient, StopCancel, StopClose, TypeOK, bufferVars
<1>17. CASE BackgroundFlush
  <2>1. BufferTypes
    BY <1>17, FlusherTypes
  <2> QED BY <1>17, <2>1 DEF BackgroundFlush, TypeOK, BufferTypes, clientVars
<1>18. CASE UNCHANGED vars
  BY <1>18 DEF TypeOK, vars, bufferVars, clientVars
<1> QED BY <1>1, <1>2, <1>3, <1>4, <1>5, <1>6, <1>7, <1>8, <1>9, <1>10, <1>11, <1>12, <1>13, <1>14,
           <1>15, <1>16, <1>17, <1>18 DEF Next, ManagerStep

-----------------------------------------------------------------------------
(* A set has twice as many subsets once an element is added: those without *)
(* it and those with it.                                                   *)
LEMMA Doubles ==
  ASSUME NEW n \in Nat
  PROVE  2^n \in Nat /\ 2^(n + 1) = 2 * 2^n
<1> DEFINE S == SUBSET (1 .. n)      T == SUBSET (1 .. n + 1)      W == {x \cup {n + 1} : x \in S}
           f == [x \in S |-> x \cup {n + 1}]
<1>1. /\ IsFiniteSet(1 .. n) /\ Cardinality(1 .. n) = n
      /\ IsFiniteSet(1 .. n + 1) /\ Cardinality(1 .. n + 1) = n + 1
  BY FS_Interval
<1>2. IsFiniteSet(S) /\ Cardinality(S) = 2^n /\ IsFiniteSet(T) /\ Cardinality(T) = 2^(n + 1)
  BY <1>1, FS_SUBSET
<1>3. n + 1 \notin 1 .. n /\ 1 .. n + 1 = (1 .. n) \cup {n + 1}
  OBVIOUS
<1>4. T = S \cup W
  <2>1. ASSUME NEW x \in T PROVE x \in S \cup W
    <3>1. CASE n + 1 \in x
      <4>1. x \ {n + 1} \in S /\ x = (x \ {n + 1}) \cup {n + 1}
        BY <1>3, <3>1
      <4> QED BY <4>1
    <3>2. CASE n + 1 \notin x
      BY <1>3, <3>2
    <3> QED BY <3>1, <3>2
  <2>2. S \cup W \subseteq T
    BY <1>3
  <2> QED BY <2>1, <2>2
<1>5. S \cap W = {}
  BY <1>3
<1>6. f \in [S -> W] /\ (\A w \in W : \E x \in S : f[x] = w)
  OBVIOUS
<1>7. \A x, y \in S : f[x] = f[y] => x = y
  <2> SUFFICES ASSUME NEW x \in S, NEW y \in S, f[x] = f[y] PROVE x = y
    OBVIOUS
  <2>1. x \cup {n + 1} = y \cup {n + 1} /\ n + 1 \notin x /\ n + 1 \notin y
    BY <1>3
  <2> QED BY <2>1
<1>8. ExistsBijection(S, W)
  BY <1>6, <1>7 DEF ExistsBijection, Bijection, Injection, Surjection, IsInjective
<1> HIDE DEF S, T, W, f
<1>9. IsFiniteSet(W) /\ Cardinality(W) = Cardinality(S)
  BY <1>2, <1>8, FS_Bijection
<1>10. Cardinality(T) = Cardinality(S) + Cardinality(W) - Cardinality(S \cap W)
  BY <1>2, <1>4, <1>9, FS_Union
<1>11. Cardinality(S) \in Nat /\ Cardinality(S \cap W) = 0
  BY <1>2, <1>5, FS_CardinalityType, FS_EmptySet
<1> QED BY <1>2, <1>9, <1>10, <1>11

LEMMA One == 2^0 = 1
<1>1. SUBSET {} = {{}}
  OBVIOUS
<1>2. IsFiniteSet({}) /\ Cardinality({}) = 0 /\ Cardinality({{}}) = 1
  BY FS_EmptySet, FS_Singleton
<1> QED BY <1>1, <1>2, FS_SUBSET

-----------------------------------------------------------------------------
(* A connection is nil where it is read only once the context is done; the *)
(* attempts that failed are fewer than MaxRetries until the manager gives  *)
(* up, and no more than the failures in a row.                             *)
LinkInv ==
  /\ ctxDone <=> stopping # "no"
  /\ manager \in {"auth", "flush", "replay"} => conn # "nil"
  /\ manager = "connected" /\ conn = "nil" => ctxDone
  /\ manager = "read" /\ reader = "nil" => ctxDone
  /\ manager \in {"reading", "got", "dispatched"} => reader # "nil"
  /\ NeverReadsNil
RetryInv ==
  /\ manager # "gone" => attempts < MaxRetries
  /\ attempts <= streak
  /\ manager = "backoff" => attempts >= 1
  /\ RetriesAreCounted

LEMMA LinkInitially == Init => LinkInv
BY DEF Init, BufferInit, LinkInv, NeverReadsNil

(* Client.Stop cancels before it sets c.conn to nil, so a nil connection   *)
(* is met with the context done.                                           *)
LEMMA LinkKept ==
  ASSUME ClientTypes, LinkInv, [Next]_vars
  PROVE  LinkInv'
<1> USE DEF LinkInv, NeverReadsNil
<1>1. CASE Loop \/ Wait \/ Connect \/ Dial \/ Authenticate
  <2>1. CASE Loop
    BY <2>1 DEF Loop, Failed, bufferVars
  <2>2. CASE Wait
    BY <2>2 DEF Wait, Failed, bufferVars
  <2>3. CASE Connect
    BY <2>3 DEF Connect, Failed, bufferVars
  <2>4. CASE Dial
    BY <2>4 DEF Dial, Failed, bufferVars
  <2>5. CASE Authenticate
    BY <2>5 DEF Authenticate, Failed, bufferVars
  <2> QED BY <1>1, <2>1, <2>2, <2>3, <2>4, <2>5
<1>2. CASE FlushBuffer
  BY <1>2 DEF FlushBuffer, Flush
<1>3. CASE ReplayOne
  BY <1>3 DEF ReplayOne, EnqueueSend, bufferVars
<1>4. CASE EnqueueRest
  BY <1>4 DEF EnqueueRest, EnqueueFull, clientVars
<1>5. CASE Connected \/ BackOff \/ StartReading \/ CheckContext \/ Dispatched
  <2>1. CASE Connected
    BY <2>1 DEF Connected, bufferVars
  <2>2. CASE BackOff
    BY <2>2 DEF BackOff, bufferVars
  <2>3. CASE StartReading
    BY <2>3 DEF StartReading, bufferVars
  <2>4. CASE CheckContext
    BY <2>4 DEF CheckContext, bufferVars
  <2>5. CASE Dispatched
    BY <2>5 DEF Dispatched, bufferVars
  <2> QED BY <1>5, <2>1, <2>2, <2>3, <2>4, <2>5
<1>6. CASE ReadError
  BY <1>6 DEF ReadError
<1>7. CASE Dispatch
  BY <1>7 DEF Dispatch, EnqueueSend, bufferVars
<1>8. CASE ReadEvent \/ LoseConnection
  <2>1. CASE ReadEvent
    BY <2>1 DEF ReadEvent, bufferVars
  <2>2. CASE LoseConnection
    BY <2>2 DEF LoseConnection, bufferVars
  <2> QED BY <1>8, <2>1, <2>2
<1>9. CASE HandleEvent
  <2>1. UNCHANGED <<manager, conn, reader, ctxDone, stopping>> /\ crash' \in {crash, "nil event"}
    BY <1>9 DEF HandleEvent
  <2> QED BY <2>1
<1>10. CASE CallHandler \/ ProcessorExit \/ HealthCheck
  <2>1. CASE CallHandler
    BY <2>1 DEF CallHandler, bufferVars
  <2>2. CASE ProcessorExit
    BY <2>2 DEF ProcessorExit, bufferVars
  <2>3. CASE HealthCheck
    BY <2>3 DEF HealthCheck, bufferVars
  <2> QED BY <1>10, <2>1, <2>2, <2>3
<1>11. CASE Stop
  BY <1>11 DEF Stop, StopClient, StopCancel, StopClose, Locked, bufferVars
<1>12. CASE BackgroundFlush
  BY <1>12 DEF BackgroundFlush, Receive, StoreBatch, FlusherExit, clientVars
<1>13. CASE UNCHANGED vars
  BY <1>13 DEF vars, bufferVars, clientVars
<1> QED BY <1>1, <1>2, <1>3, <1>4, <1>5, <1>6, <1>7, <1>8, <1>9, <1>10, <1>11, <1>12, <1>13
     DEF Next, ManagerStep

-----------------------------------------------------------------------------
(* The delay after n failures, and after one more.                         *)
LEMMA Delays ==
  /\ SmallerOf(InitialBackoff * 2^0, MaxBackoff) = InitialBackoff
  /\ \A n \in Nat : SmallerOf(InitialBackoff * 2^(n + 1), MaxBackoff)
                      = SmallerOf(2 * SmallerOf(InitialBackoff * 2^n, MaxBackoff), MaxBackoff)
<1>1. SmallerOf(InitialBackoff * 2^0, MaxBackoff) = InitialBackoff
  BY One, Numbers DEF SmallerOf
<1>2. ASSUME NEW n \in Nat
      PROVE  SmallerOf(InitialBackoff * 2^(n + 1), MaxBackoff)
               = SmallerOf(2 * SmallerOf(InitialBackoff * 2^n, MaxBackoff), MaxBackoff)
  <2> DEFINE p == 2^n      q == InitialBackoff * p
  <2>1. p \in Nat /\ 2^(n + 1) = 2 * p
    BY Doubles
  <2> HIDE DEF p
  <2>2. q \in Nat /\ InitialBackoff * (2 * p) = 2 * q
    BY <2>1, Numbers
  <2> HIDE DEF q
  <2>3. SmallerOf(2 * q, MaxBackoff) = SmallerOf(2 * SmallerOf(q, MaxBackoff), MaxBackoff)
    BY <2>2, Numbers DEF SmallerOf
  <2> QED BY <2>1, <2>2, <2>3 DEF p, q
<1> QED BY <1>1, <1>2

LEMMA RetryInitially == Init => RetryInv
BY Numbers, Delays DEF Init, RetryInv, RetriesAreCounted

(* The delay follows the attempts, and the attempts the failures in a row. *)
LEMMA RetryKept ==
  ASSUME ClientTypes, RetryInv, [Next]_vars
  PROVE  RetryInv'
<1> DEFINE Delay(n) == SmallerOf(InitialBackoff * 2^n, MaxBackoff)
<1>1. /\ attempts \in Nat /\ streak \in Nat
      /\ manager # "gone" => attempts < MaxRetries
      /\ attempts <= streak
      /\ manager = "backoff" => attempts >= 1 /\ backoff = Delay(attempts - 1)
      /\ manager \notin {"backoff", "gone"} => backoff = Delay(attempts)
      /\ manager = "gone" /\ ~ctxDone => attempts = MaxRetries /\ streak >= MaxRetries
  BY Numbers DEF ClientTypes, TypeOK, RetryInv, RetriesAreCounted
<1>2. Delay(0) = InitialBackoff /\ \A n \in Nat : Delay(n + 1) = SmallerOf(2 * Delay(n), MaxBackoff)
  BY Delays
<1> HIDE DEF Delay
<1>3. SUFFICES /\ manager' # "gone" => attempts' < MaxRetries
               /\ attempts' <= streak'
               /\ manager' = "backoff" => attempts' >= 1 /\ backoff' = Delay(attempts' - 1)
               /\ manager' \notin {"backoff", "gone"} => backoff' = Delay(attempts')
               /\ manager' = "gone" /\ ~ctxDone' => attempts' = MaxRetries /\ streak' >= MaxRetries
  BY DEF RetryInv, RetriesAreCounted, Delay
<1>4. CASE manager' = manager /\ UNCHANGED <<attempts, streak, backoff>> /\ (ctxDone => ctxDone')
  BY <1>1, <1>4
<1>5. CASE Loop
  BY <1>1, <1>5 DEF Loop
<1>6. CASE Wait \/ Connect
  BY <1>1, <1>6 DEF Wait, Connect
<1>7. CASE Dial \/ Authenticate
  <2>1. CASE Failed /\ UNCHANGED <<backoff, ctxDone>> /\ manager \in {"dial", "auth"}
    <3>1. /\ attempts' = attempts + 1 /\ streak' = streak + 1
          /\ manager' = IF attempts + 1 >= MaxRetries THEN "gone" ELSE "backoff"
      BY <2>1 DEF Failed
    <3>2. attempts' - 1 = attempts
      BY <1>1, <3>1
    <3> QED BY <1>1, <2>1, <3>1, <3>2, Numbers
  <2>2. CASE manager' \in {"auth", "flush"} /\ manager \in {"dial", "auth"} /\ UNCHANGED <<attempts, streak, backoff>>
    BY <1>1, <2>2
  <2> QED BY <1>7, <2>1, <2>2 DEF Dial, Authenticate
<1>8. CASE FlushBuffer
  BY <1>1, <1>8 DEF FlushBuffer
<1>9. CASE Connected
  BY <1>2, <1>9, Numbers DEF Connected
<1>10. CASE BackOff
  <2>1. manager = "backoff" /\ manager' = "loop" /\ UNCHANGED <<attempts, streak>>
        /\ backoff' = SmallerOf(2 * backoff, MaxBackoff)
    BY <1>10 DEF BackOff
  <2>2. attempts - 1 \in Nat /\ (attempts - 1) + 1 = attempts
    BY <1>1, <2>1
  <2>3. backoff' = Delay(attempts)
    BY <1>1, <1>2, <2>1, <2>2, Zenon
  <2> QED BY <1>1, <2>1, <2>3
<1>11. CASE StartReading \/ CheckContext \/ Dispatched \/ Dispatch \/ ReadEvent
  BY <1>1, <1>11 DEF StartReading, CheckContext, Dispatched, Dispatch, ReadEvent
<1>12. CASE ReadError
  <2>1. manager = "reading" /\ UNCHANGED <<attempts, backoff>>
    BY <1>12 DEF ReadError
  <2>2. UNCHANGED <<manager, streak>> \/ (manager' = "loop" /\ streak' = streak + 1)
    BY <1>12, Zenon DEF ReadError
  <2> QED BY <1>1, <2>1, <2>2
<1>13. CASE \/ ReplayOne \/ EnqueueRest \/ LoseConnection \/ HandleEvent \/ CallHandler \/ ProcessorExit
            \/ HealthCheck \/ Stop \/ BackgroundFlush \/ UNCHANGED vars
  <2>1. CASE ReplayOne
    BY <1>4, <2>1 DEF ReplayOne, StopClient, clientVars, vars
  <2>2. CASE EnqueueRest
    BY <1>4, <2>2 DEF EnqueueRest, StopClient, clientVars, vars
  <2>3. CASE LoseConnection
    BY <1>4, <2>3 DEF LoseConnection, StopClient, clientVars, vars
  <2>4. CASE HandleEvent
    BY <1>4, <2>4 DEF HandleEvent, StopClient, clientVars, vars
  <2>5. CASE CallHandler
    BY <1>4, <2>5 DEF CallHandler, StopClient, clientVars, vars
  <2>6. CASE ProcessorExit
    BY <1>4, <2>6 DEF ProcessorExit, StopClient, clientVars, vars
  <2>7. CASE HealthCheck
    BY <1>4, <2>7 DEF HealthCheck, StopClient, clientVars, vars
  <2>8. CASE Stop
    BY <1>4, <2>8 DEF Stop, StopClient, clientVars, vars
  <2>9. CASE BackgroundFlush
    BY <1>4, <2>9 DEF StopClient, BackgroundFlush, clientVars, vars
  <2>10. CASE UNCHANGED vars
    BY <1>4, <2>10 DEF StopClient, clientVars, vars
  <2> QED BY <1>13, <2>1, <2>2, <2>3, <2>4, <2>5, <2>6, <2>7, <2>8, <2>9, <2>10
<1> QED BY <1>5, <1>6, <1>7, <1>8, <1>9, <1>10, <1>11, <1>12, <1>13 DEF Next, ManagerStep

(* For any limits and delays: what the manager keeps of its connection is  *)
(* well typed and never nil where it is read, the delay doubles once per   *)
(* failed attempt up to its cap, and the manager gives up only when        *)
(* stopped or after MaxRetries failures in a row.                          *)
THEOREM ConnectionAlwaysSound == Spec => []ConnectionSound
<1>1. Init => ClientTypes /\ LinkInv /\ RetryInv
  BY TypesInitially, LinkInitially, RetryInitially
<1>2. ClientTypes /\ LinkInv /\ RetryInv /\ [Next]_vars => (ClientTypes /\ LinkInv /\ RetryInv)'
  <2> SUFFICES ASSUME ClientTypes, LinkInv, RetryInv, [Next]_vars
               PROVE  (ClientTypes /\ LinkInv /\ RetryInv)'
    OBVIOUS
  <2>1. ClientTypes'
    BY TypesKept DEF RetryInv
  <2>2. LinkInv'
    BY LinkKept
  <2>3. RetryInv'
    BY RetryKept
  <2> QED BY <2>1, <2>2, <2>3
<1>3. ClientTypes /\ LinkInv /\ RetryInv => ConnectionSound
  BY DEF ClientTypes, LinkInv, RetryInv, ConnectionSound
<1> QED BY <1>1, <1>2, <1>3, PTL DEF Spec

-----------------------------------------------------------------------------
(* Events stay apart: each is in one place at most, and there once; nil,   *)
(* which is read off the closed channel, does not count.                   *)
Real(s) == Ids(s) \ {NilEvent}
Once(s) == \A i, j \in DOMAIN s : s[i] = s[j] /\ s[i] # NilEvent => i = j
Places == {"eventChan", "replay", "stored", "batch", "chan", "pending", "current"}
EventsAt(p) ==
  CASE p = "eventChan" -> Real(eventChan) [] p = "replay" -> Real(replay) [] p = "stored" -> Real(stored)
    [] p = "batch" -> Real(batch) [] p = "chan" -> Real(chan)
    [] p = "pending" -> {pending} \ {NilEvent} [] p = "current" -> {current} \ {NilEvent}
Apart == \A p, q \in Places : p # q => EventsAt(p) \cap EventsAt(q) = {}
OnceEach == Once(eventChan) /\ Once(replay) /\ Once(stored) /\ Once(batch) /\ Once(chan)
NilAtEnd ==
  ~closed => NilEvent \notin Ids(eventChan) \cup Ids(replay) \cup Ids(stored) \cup Ids(batch) \cup Ids(chan)
CountsSound ==
  /\ handled \in [Event -> Nat]
  /\ Handled \cup Held \cup stolen \subseteq 1 .. sent
  /\ Held \cap stolen = {}
  /\ DeliveredOrCounted

(* The events of a sequence with one more, ...                             *)
LEMMA AppendReal ==
  ASSUME NEW s \in Seq(Slot), NEW x \in Slot
  PROVE  /\ Real(Append(s, x)) = Real(s) \cup ({x} \ {NilEvent}) /\ Ids(Append(s, x)) = Ids(s) \cup {x}
         /\ Once(s) /\ x \notin Real(s) => Once(Append(s, x))
<1> DEFINE g == Append(s, x)
           n == Len(s)
<1>1. /\ n \in Nat /\ DOMAIN s = 1 .. n /\ DOMAIN g = 1 .. (n + 1)
      /\ g[n + 1] = x /\ \A i \in 1 .. n : g[i] = s[i]
  OBVIOUS
<1> HIDE DEF g, n
<1>2. /\ \A i \in 1 .. (n + 1) : i \in 1 .. n \/ i = n + 1
      /\ \A i \in 1 .. n : i \in 1 .. (n + 1)
      /\ n + 1 \in 1 .. (n + 1)
  BY <1>1
<1>3. Ids(g) = Ids(s) \cup {x}
  BY <1>1, <1>2 DEF Ids
<1>4. Real(g) = Real(s) \cup ({x} \ {NilEvent})
  BY <1>3 DEF Real
<1>5. ASSUME Once(s), x \notin Real(s) PROVE Once(g)
  <2>1. \A i \in 1 .. n : s[i] = x => x = NilEvent
    BY <1>1, <1>5 DEF Ids, Real
  <2>2. \A i, j \in 1 .. n : s[i] = s[j] /\ s[i] # NilEvent => i = j
    BY <1>1, <1>5 DEF Once
  <2>3. \A i, j \in 1 .. (n + 1) : g[i] = g[j] /\ g[i] # NilEvent => i = j
    BY <1>1, <1>2, <2>1, <2>2
  <2> QED BY <1>1, <2>3 DEF Once
<1> QED BY <1>3, <1>4, <1>5 DEF g

(* ... and with its first one taken.                                       *)
LEMMA TailReal ==
  ASSUME NEW s \in Seq(Slot), s # <<>>
  PROVE  /\ Real(s) = Real(Tail(s)) \cup ({Head(s)} \ {NilEvent}) /\ Ids(Tail(s)) \subseteq Ids(s)
         /\ Head(s) \in Ids(s) /\ Head(s) \in Slot
         /\ Once(s) => Once(Tail(s)) /\ Head(s) \notin Real(Tail(s))
<1> DEFINE g == Tail(s)
           n == Len(s)
           h == Head(s)
<1>1. /\ n \in Nat /\ n >= 1 /\ DOMAIN s = 1 .. n /\ DOMAIN g = 1 .. (n - 1)
      /\ h = s[1] /\ h \in Slot
  OBVIOUS
<1>2. \A i \in 1 .. (n - 1) : g[i] = s[i + 1]
  OBVIOUS
<1> HIDE DEF g, n, h
<1>3. /\ \A i \in 1 .. n : i = 1 \/ (i - 1 \in 1 .. (n - 1) /\ (i - 1) + 1 = i)
      /\ \A i \in 1 .. (n - 1) : i + 1 \in 1 .. n
      /\ 1 \in 1 .. n
  BY <1>1
<1>4. Ids(g) \subseteq Ids(s) /\ h \in Ids(s)
  BY <1>1, <1>2, <1>3 DEF Ids
<1>5. Ids(s) \subseteq Ids(g) \cup {h}
  <2> SUFFICES ASSUME NEW i \in 1 .. n PROVE s[i] \in Ids(g) \cup {h}
    BY <1>1 DEF Ids
  <2>1. CASE i = 1
    BY <1>1, <2>1
  <2>2. CASE i # 1
    <3>1. i - 1 \in 1 .. (n - 1) /\ (i - 1) + 1 = i
      BY <1>3, <2>2
    <3>2. g[i - 1] = s[i]
      BY <1>2, <3>1
    <3> QED BY <1>1, <3>1, <3>2 DEF Ids
  <2> QED BY <2>1, <2>2
<1>6. ASSUME Once(s) PROVE Once(g) /\ h \notin Real(g)
  <2>1. \A i, j \in 1 .. n : s[i] = s[j] /\ s[i] # NilEvent => i = j
    BY <1>1, <1>6 DEF Once
  <2>2. \A i, j \in 1 .. (n - 1) : g[i] = g[j] /\ g[i] # NilEvent => i = j
    BY <1>1, <1>2, <1>3, <2>1
  <2>3. \A i \in 1 .. (n - 1) : g[i] = h => h = NilEvent
    BY <1>1, <1>2, <1>3, <2>1
  <2> QED BY <1>1, <2>2, <2>3 DEF Once, Ids, Real
<1>7. Real(s) = Real(g) \cup ({h} \ {NilEvent})
  BY <1>4, <1>5 DEF Real
<1> QED BY <1>1, <1>4, <1>6, <1>7 DEF g, h

(* The first k events of a sequence without nil.                           *)
LEMMA FirstCounted ==
  ASSUME NEW s \in Seq(Slot), NEW k \in Nat, k <= Len(s), Once(s), NilEvent \notin Ids(s)
  PROVE  /\ IsFiniteSet({s[i] : i \in 1 .. k}) /\ Cardinality({s[i] : i \in 1 .. k}) = k
<1> DEFINE S == {s[i] : i \in 1 .. k}
           f == [i \in 1 .. k |-> s[i]]
<1>1. f \in [1 .. k -> S] /\ \A x \in S : \E i \in 1 .. k : f[i] = x
  OBVIOUS
<1>2. \A i, j \in 1 .. k : f[i] = f[j] => i = j
  BY DEF Once, Ids
<1>3. f \in Bijection(1 .. k, S)
  BY <1>1, <1>2 DEF Bijection, Injection, Surjection, IsInjective
<1>4. IsFiniteSet(1 .. k) /\ Cardinality(1 .. k) = k
  BY FS_Interval
<1> QED  BY <1>3, <1>4, FS_Bijection DEF ExistsBijection

(* What processBatch leaves of the stored events and a batch.              *)
LEMMA StoredReal ==
  ASSUME NEW s \in Seq(Slot), NEW b \in Seq(Slot), Once(s), Once(b), Real(s) \cap Real(b) = {}
  PROVE  /\ Once(Stored(s, b)) /\ Ids(Stored(s, b)) \subseteq Ids(s) \cup Ids(b)
         /\ NilEvent \notin Ids(s) \cup Ids(b) =>
              \E gone \in SUBSET (Real(s) \cup Real(b)) :
                /\ IsFiniteSet(gone) /\ Cardinality(gone) = Cuts(s, b)
                /\ Real(Stored(s, b)) = (Real(s) \cup Real(b)) \ gone
<1> DEFINE u == s \o b
           k == Cuts(s, b)
           r == Stored(s, b)
           n == Len(s)
           m == Len(b)
<1>0. n \in Nat /\ m \in Nat /\ DOMAIN s = 1 .. n /\ DOMAIN b = 1 .. m
  OBVIOUS
<1>1. /\ u \in Seq(Slot) /\ Len(u) = n + m /\ k \in Nat /\ k <= n + m
      /\ r \in Seq(Slot) /\ Len(r) = (n + m) - k
      /\ \A i \in 1 .. Len(r) : r[i] = u[i + k]
  BY <1>0, StoredLeaves
<1>2. (\A i \in 1 .. n : u[i] = s[i]) /\ \A i \in (n + 1) .. (n + m) : u[i] = b[i - n]
  OBVIOUS
<1> HIDE DEF u, k, r, n, m
<1>3. /\ \A i, j \in 1 .. n : s[i] = s[j] /\ s[i] # NilEvent => i = j
      /\ \A i, j \in 1 .. m : b[i] = b[j] /\ b[i] # NilEvent => i = j
      /\ \A i \in 1 .. n, j \in 1 .. m : s[i] = b[j] => s[i] = NilEvent
  <2>1. ASSUME NEW i \in 1 .. n, NEW j \in 1 .. m, s[i] = b[j] PROVE s[i] = NilEvent
    <3>1. s[i] \in Ids(s) /\ b[j] \in Ids(b)
      BY <1>0 DEF Ids
    <3> QED  BY <2>1, <3>1 DEF Real
  <2> QED  BY <1>0, <2>1 DEF Once
<1>4. \A i \in 1 .. (n + m) : i \in 1 .. n \/ (i \in (n + 1) .. (n + m) /\ i - n \in 1 .. m)
  BY <1>0
<1>5. ASSUME NEW i \in 1 .. (n + m), NEW j \in 1 .. (n + m), u[i] = u[j], u[i] # NilEvent PROVE i = j
  <2>1. CASE i \in 1 .. n /\ j \in 1 .. n
    BY <1>2, <1>3, <1>5, <2>1
  <2>2. CASE i \in (n + 1) .. (n + m) /\ j \in (n + 1) .. (n + m)
    <3>1. i - n \in 1 .. m /\ j - n \in 1 .. m /\ b[i - n] = b[j - n] /\ b[i - n] # NilEvent
      BY <1>0, <1>2, <1>4, <1>5, <2>2
    <3>2. i - n = j - n
      BY <1>3, <3>1
    <3> QED  BY <1>0, <3>2
  <2>3. CASE i \in 1 .. n /\ j \in (n + 1) .. (n + m)
    <3>1. j - n \in 1 .. m /\ s[i] = b[j - n] /\ s[i] # NilEvent
      BY <1>0, <1>2, <1>4, <1>5, <2>3
    <3> QED  BY <1>3, <2>3, <3>1
  <2>4. CASE j \in 1 .. n /\ i \in (n + 1) .. (n + m)
    <3>1. i - n \in 1 .. m /\ s[j] = b[i - n] /\ s[j] # NilEvent
      BY <1>0, <1>2, <1>4, <1>5, <2>4
    <3> QED  BY <1>3, <2>4, <3>1
  <2> QED  BY <1>4, <2>1, <2>2, <2>3, <2>4
<1>6. Once(u) /\ DOMAIN u = 1 .. (n + m)
  BY <1>1, <1>5 DEF Once
<1>7. Ids(u) = Ids(s) \cup Ids(b)
  <2>1. ASSUME NEW i \in 1 .. (n + m) PROVE u[i] \in Ids(s) \cup Ids(b)
    BY <1>0, <1>2, <1>4 DEF Ids
  <2>2. ASSUME NEW i \in 1 .. n PROVE s[i] \in Ids(u)
    <3>1. i \in 1 .. (n + m) /\ u[i] = s[i]
      BY <1>0, <1>2
    <3> QED BY <1>6, <3>1 DEF Ids
  <2>3. ASSUME NEW i \in 1 .. m PROVE b[i] \in Ids(u)
    <3>1. i + n \in 1 .. (n + m) /\ i + n \in (n + 1) .. (n + m) /\ (i + n) - n = i
      BY <1>0
    <3>2. u[i + n] = b[i]
      BY <1>2, <3>1
    <3> QED BY <1>6, <3>1, <3>2 DEF Ids
  <2> QED  BY <1>0, <1>6, <2>1, <2>2, <2>3 DEF Ids
<1>8. /\ DOMAIN r = 1 .. Len(r) /\ Len(r) \in Nat
      /\ \A i \in 1 .. Len(r) : i + k \in 1 .. (n + m) /\ i + k \notin 1 .. k
      /\ \A i \in 1 .. (n + m) : i \in 1 .. k \/ (i - k \in 1 .. Len(r) /\ (i - k) + k = i)
      /\ \A i \in 1 .. k : i \in 1 .. (n + m)
  BY <1>0, <1>1
<1>9. Once(r)
  <2> SUFFICES ASSUME NEW i \in 1 .. Len(r), NEW j \in 1 .. Len(r), r[i] = r[j], r[i] # NilEvent PROVE i = j
    BY <1>8 DEF Once
  <2>1. u[i + k] = u[j + k] /\ u[i + k] # NilEvent /\ i + k \in 1 .. (n + m) /\ j + k \in 1 .. (n + m)
    BY <1>1, <1>8
  <2>2. i + k = j + k
    BY <1>5, <2>1
  <2> QED  BY <1>1, <2>2
<1>10. Ids(r) \subseteq Ids(u)
  <2> SUFFICES ASSUME NEW i \in 1 .. Len(r) PROVE r[i] \in Ids(u)
    BY <1>8 DEF Ids
  <2> QED BY <1>1, <1>6, <1>8 DEF Ids
<1>11. ASSUME NilEvent \notin Ids(u)
       PROVE  \E gone \in SUBSET Ids(u) : /\ IsFiniteSet(gone) /\ Cardinality(gone) = k
                                         /\ Ids(r) = Ids(u) \ gone
  <2> DEFINE gone == {u[i] : i \in 1 .. k}
  <2>1. IsFiniteSet(gone) /\ Cardinality(gone) = k
    <3>1. u \in Seq(Slot) /\ k \in Nat /\ k <= Len(u)
      BY <1>1
    <3> QED BY <1>6, <1>11, <3>1, FirstCounted
  <2>2. gone \subseteq Ids(u)
    BY <1>6, <1>8 DEF Ids
  <2>3. ASSUME NEW i \in 1 .. Len(r) PROVE r[i] \notin gone
    <3>1. r[i] = u[i + k] /\ i + k \in 1 .. (n + m) /\ i + k \notin 1 .. k
      BY <1>1, <1>8
    <3>2. u[i + k] # NilEvent
      BY <1>6, <1>11, <3>1 DEF Ids
    <3> QED  BY <1>5, <1>8, <3>1, <3>2
  <2>4. ASSUME NEW i \in 1 .. (n + m), u[i] \notin gone PROVE u[i] \in Ids(r)
    <3>1. i - k \in 1 .. Len(r) /\ (i - k) + k = i
      BY <1>8, <2>4
    <3>2. r[i - k] = u[i]
      BY <1>1, <3>1
    <3> QED  BY <1>8, <3>1, <3>2 DEF Ids
  <2> HIDE DEF gone
  <2>5. Ids(r) = Ids(u) \ gone
    <3>1. Ids(r) \cap gone = {}
      BY <1>8, <2>3 DEF Ids
    <3>2. Ids(u) \ gone \subseteq Ids(r)
      BY <1>6, <2>4 DEF Ids
    <3> QED BY <1>10, <3>1, <3>2
  <2> QED BY <2>1, <2>2, <2>5
<1> QED  BY <1>7, <1>9, <1>10, <1>11 DEF k, r, Real

Resting == /\ UNCHANGED <<chan, batch, stored, pending, eventChan, replay, current>>
           /\ UNCHANGED <<handled, stolen, sent, dropped>> /\ (closed => closed')

(* The places, before and after a step.                                    *)
LEMMA PlaceByPlace ==
  /\ EventsAt("eventChan") = Real(eventChan) /\ EventsAt("replay") = Real(replay)
  /\ EventsAt("stored") = Real(stored) /\ EventsAt("batch") = Real(batch) /\ EventsAt("chan") = Real(chan)
  /\ EventsAt("pending") = {pending} \ {NilEvent} /\ EventsAt("current") = {current} \ {NilEvent}
  /\ EventsAt("eventChan")' = Real(eventChan') /\ EventsAt("replay")' = Real(replay')
  /\ EventsAt("stored")' = Real(stored') /\ EventsAt("batch")' = Real(batch') /\ EventsAt("chan")' = Real(chan')
  /\ EventsAt("pending")' = {pending'} \ {NilEvent} /\ EventsAt("current")' = {current'} \ {NilEvent}
BY DEF EventsAt, Real

(* The events held are those of all places.                                *)
LEMMA HeldByPlace ==
  /\ \A e : e \in Held <=> \E p \in Places : e \in EventsAt(p)
  /\ \A e : e \in Held' <=> \E p \in Places : e \in EventsAt(p)'
<1>1. Held = EventsAt("eventChan") \cup EventsAt("replay") \cup EventsAt("stored") \cup EventsAt("batch")
             \cup EventsAt("chan") \cup EventsAt("pending") \cup EventsAt("current")
  BY PlaceByPlace DEF Held, Real
<1>2. Held' = EventsAt("eventChan")' \cup EventsAt("replay")' \cup EventsAt("stored")' \cup EventsAt("batch")'
             \cup EventsAt("chan")' \cup EventsAt("pending")' \cup EventsAt("current")'
  BY PlaceByPlace DEF Held, Real
<1> QED BY <1>1, <1>2 DEF Places

(* Events G go from one place to another, and some of what is then there   *)
(* is gone.                                                                *)
Transferred(k, l, G, gone) ==
  /\ k \in Places /\ l \in Places /\ k # l
  /\ G \subseteq EventsAt(k) /\ gone \subseteq EventsAt(l) \cup G
  /\ EventsAt(k)' = EventsAt(k) \ G /\ EventsAt(l)' = (EventsAt(l) \cup G) \ gone
  /\ \A p \in Places : p # k /\ p # l => EventsAt(p)' = EventsAt(p)
LEMMA Transfer ==
  ASSUME Apart, NEW k, NEW l, NEW G, NEW gone, Transferred(k, l, G, gone)
  PROVE  Apart' /\ Held' = Held \ gone /\ gone \subseteq Held
<1> USE DEF Transferred
<1>1. \A p, q \in Places : \A e : e \in EventsAt(p) /\ e \in EventsAt(q) => p = q
  BY DEF Apart
<1>2. \A p \in Places : \A e : e \in EventsAt(p)' <=>
        IF p = k THEN e \in EventsAt(k) /\ e \notin G
        ELSE IF p = l THEN e \in EventsAt(l) \cup G /\ e \notin gone ELSE e \in EventsAt(p)
  OBVIOUS
<1>3. ASSUME NEW p \in Places, NEW q \in Places, NEW e, e \in EventsAt(p)', e \in EventsAt(q)' PROVE p = q
  BY <1>1, <1>2, <1>3
<1>4. Apart'
  BY <1>3 DEF Apart
<1>5. ASSUME NEW e, e \in Held' PROVE e \in Held /\ e \notin gone
  <2>1. PICK p \in Places : e \in EventsAt(p)'
    BY <1>5, HeldByPlace
  <2>2. e \in EventsAt(p) \/ e \in EventsAt(k)
    BY <1>2, <2>1
  <2>3. e \notin gone
    BY <1>1, <1>2, <2>1
  <2> QED BY <2>2, <2>3, HeldByPlace
<1>6. ASSUME NEW e, e \in Held, e \notin gone PROVE e \in Held'
  <2>1. PICK p \in Places : e \in EventsAt(p)
    BY <1>6, HeldByPlace
  <2>2. e \in EventsAt(p)' \/ e \in EventsAt(l)'
    BY <1>2, <1>6, <2>1
  <2> QED BY <2>2, HeldByPlace
<1>7. gone \subseteq Held
  BY HeldByPlace
<1> QED BY <1>4, <1>5, <1>6, <1>7

(* The counts, when some events are gone, ...                              *)
LEMMA GoneAreCounted ==
  ASSUME ClientTypes, CountsSound, NEW gone, gone \subseteq Held, Held' = Held \ gone,
         UNCHANGED <<handled, stolen, sent>>,
         closed => closed', ~closed' => IsFiniteSet(gone) /\ dropped' = dropped + Cardinality(gone)
  PROVE  CountsSound'
<1> DEFINE T == Handled \cup Held \cup stolen
<1>1. Handled' = Handled /\ handled' = handled /\ stolen' = stolen /\ sent' = sent
  BY DEF Handled
<1>2. Handled \cap Held = {} /\ Held \cap stolen = {} /\ T \subseteq 1 .. sent
  BY DEF CountsSound, DeliveredOrCounted
<1>3. Handled' \cup Held' \cup stolen' = T \ gone /\ T \cap gone = gone
  BY <1>1, <1>2
<1>4. ~closed' => dropped' = sent' - Cardinality(Handled' \cup Held' \cup stolen')
  <2> SUFFICES ASSUME ~closed' PROVE dropped' = sent' - Cardinality(T \ gone)
    BY <1>3
  <2>1. sent \in Nat /\ IsFiniteSet(1 .. sent)
    BY FS_Interval, Numbers DEF ClientTypes
  <2>2. IsFiniteSet(T) /\ IsFiniteSet(gone)
    BY <1>2, <2>1, FS_Subset
  <2>3. dropped = sent - Cardinality(T) /\ dropped' = dropped + Cardinality(gone)
    BY DEF CountsSound, DeliveredOrCounted
  <2> HIDE DEF T
  <2>4. Cardinality(T \ gone) = Cardinality(T) - Cardinality(gone)
    <3>1. Cardinality(T \ gone) = Cardinality(T) - Cardinality(T \cap gone)
      BY <2>2, FS_Difference
    <3> QED BY <1>3, <3>1
  <2>5. Cardinality(T) \in Nat /\ Cardinality(gone) \in Nat
    BY <2>2, FS_CardinalityType
  <2> QED BY <1>1, <2>1, <2>3, <2>4, <2>5
<1>5. (Handled \cap Held)' = {} /\ (Held \cap stolen)' = {} /\ (Handled \cup Held \cup stolen \subseteq 1 .. sent)'
  BY <1>1, <1>2, <1>3
<1> QED BY <1>1, <1>4, <1>5 DEF CountsSound, DeliveredOrCounted

(* ... and when FreeSWITCH has sent one more.                              *)
LEMMA SentIsCounted ==
  ASSUME ClientTypes, CountsSound, sent' = sent + 1, UNCHANGED <<handled, dropped, closed>>,
         Held' \cup stolen' = (Held \cup stolen) \cup {sent + 1},
         Held' \cap stolen' = {}, Held' \subseteq Held \cup {sent + 1}
  PROVE  CountsSound'
<1> DEFINE T == Handled \cup Held \cup stolen
<1>1. Handled' = Handled /\ handled' = handled /\ sent \in Nat
  BY Numbers DEF Handled, ClientTypes
<1>2. Handled \cap Held = {} /\ T \subseteq 1 .. sent
  BY DEF CountsSound, DeliveredOrCounted
<1>3. Handled' \cup Held' \cup stolen' = T \cup {sent + 1}
  BY <1>1
<1>4. sent + 1 \notin 1 .. sent /\ \A i \in 1 .. sent : i \in 1 .. (sent + 1)
  BY <1>1
<1>5. sent + 1 \notin T /\ sent + 1 \in 1 .. (sent + 1)
  BY <1>1, <1>2, <1>4
<1>6. ~closed' => dropped' = sent' - Cardinality(Handled' \cup Held' \cup stolen')
  <2> SUFFICES ASSUME ~closed' PROVE dropped' = sent' - Cardinality(T \cup {sent + 1})
    BY <1>3
  <2>1. IsFiniteSet(T)
    <3>1. IsFiniteSet(1 .. sent)
      BY <1>1, FS_Interval
    <3> QED BY <1>2, <3>1, FS_Subset
  <2>2. dropped = sent - Cardinality(T) /\ dropped' = dropped
    BY DEF CountsSound, DeliveredOrCounted
  <2> HIDE DEF T
  <2>3. Cardinality(T \cup {sent + 1}) = Cardinality(T) + 1 /\ Cardinality(T) \in Nat
    BY <1>5, <2>1, FS_AddElement, FS_CardinalityType
  <2> QED BY <1>1, <2>2, <2>3
<1>7. (Handled \cap Held)' = {} /\ (Handled \cup Held \cup stolen \subseteq 1 .. sent)'
  BY <1>1, <1>2, <1>3, <1>4, <1>5
<1> QED BY <1>1, <1>6, <1>7 DEF CountsSound, DeliveredOrCounted

Sound == Apart /\ OnceEach /\ NilAtEnd /\ CountsSound

(* A step that moves no event keeps everything; closing the channel        *)
(* matters to none.                                                        *)
LEMMA RestIsSound ==
  ASSUME ClientTypes, Sound, Resting
  PROVE  Sound'
<1>1. \A p \in Places : EventsAt(p)' = EventsAt(p)
  BY PlaceByPlace DEF Places, Resting
<1>2. Apart' /\ Held' = Held \ {}
  <2>1. "replay" \in Places /\ "chan" \in Places /\ "replay" # "chan"
    BY DEF Places
  <2>2. Transferred("replay", "chan", {}, {})
    BY <1>1, <2>1 DEF Transferred
  <2> QED BY <2>2, Transfer DEF Sound
<1>3. CountsSound'
  <2>1. IsFiniteSet({}) /\ Cardinality({}) = 0 /\ (~closed => dropped + 0 = dropped)
    <3>1. ~closed => dropped = sent - Cardinality(Handled \cup Held \cup stolen)
      BY DEF Sound, CountsSound, DeliveredOrCounted
    <3>2. sent \in Nat /\ Handled \cup Held \cup stolen \subseteq 1 .. sent
      BY Numbers DEF Sound, CountsSound, ClientTypes
    <3>3. IsFiniteSet(1 .. sent)
      BY <3>2, FS_Interval
    <3>4. Cardinality(Handled \cup Held \cup stolen) \in Nat
      BY <3>2, <3>3, FS_Subset, FS_CardinalityType
    <3> QED BY <3>1, <3>2, <3>4, FS_EmptySet
  <2> QED BY <1>2, <2>1, GoneAreCounted DEF Sound, Resting
<1>4. OnceEach' /\ NilAtEnd'
  BY DEF Sound, OnceEach, NilAtEnd, Resting, Once, Ids
<1> QED BY <1>2, <1>3, <1>4 DEF Sound

(* Nothing gone, or gone once the channel is closed.                       *)
LEMMA NothingGone ==
  ASSUME ClientTypes, Sound, UNCHANGED <<handled, stolen, sent, dropped>>, closed => closed',
         Held' = Held \ {} \/ (closed' /\ \E gone \in SUBSET Held : Held' = Held \ gone)
  PROVE  CountsSound'
<1>1. CASE closed'
  <2>1. PICK gone \in SUBSET Held : Held' = Held \ gone
    OBVIOUS
  <2> QED BY <1>1, <2>1, GoneAreCounted DEF Sound
<1>2. CASE ~closed'
  <2>1. dropped = sent - Cardinality(Handled \cup Held \cup stolen)
    BY <1>2 DEF Sound, CountsSound, DeliveredOrCounted
  <2>2. sent \in Nat /\ Handled \cup Held \cup stolen \subseteq 1 .. sent
    BY Numbers DEF Sound, CountsSound, ClientTypes
  <2>3. IsFiniteSet(1 .. sent)
    BY <2>2, FS_Interval
  <2>4. Cardinality(Handled \cup Held \cup stolen) \in Nat
    BY <2>2, <2>3, FS_Subset, FS_CardinalityType
  <2>5. IsFiniteSet({}) /\ Cardinality({}) = 0 /\ dropped + 0 = dropped
    BY <2>1, <2>2, <2>4, FS_EmptySet
  <2> QED BY <1>2, <2>5, GoneAreCounted DEF Sound
<1> QED BY <1>1, <1>2

(* An event is taken from the manager's hands and sent on.                 *)
LEMMA SentOn ==
  ASSUME ClientTypes, Sound, NEW k \in {"replay", "current"}, NEW e \in Slot,
         {e} \ {NilEvent} \subseteq EventsAt(k), EventsAt(k)' = EventsAt(k) \ ({e} \ {NilEvent}),
         \A p \in {"replay", "current"} : p # k => EventsAt(p)' = EventsAt(p),
         Once(replay'), ~closed => e # NilEvent /\ NilEvent \notin Ids(replay'),
         pending = NilEvent, UNCHANGED <<handled, stolen, sent>>,
         IF Len(eventChan) < EventCap
           THEN eventChan' = Append(eventChan, e) /\ UNCHANGED bufferVars
           ELSE EnqueueSend(e) /\ UNCHANGED eventChan
  PROVE  Sound'
<1> DEFINE G == {e} \ {NilEvent}
<1>1. /\ "eventChan" \in Places /\ "chan" \in Places /\ "pending" \in Places /\ k \in Places
      /\ k # "eventChan" /\ k # "chan" /\ k # "pending"
      /\ \A p \in Places : p \in {"replay", "current", "eventChan", "chan", "pending", "stored", "batch"}
  BY DEF Places
<1>2. \A p \in Places : \A x : x \in EventsAt(k) /\ x \in EventsAt(p) => p = k
  BY <1>1 DEF Sound, Apart
<1>3. \A p \in Places : p # k => EventsAt(p) \cap G = {}
  BY <1>2
<1>4. eventChan \in Seq(Slot) /\ chan \in Seq(Slot)
  BY DEF ClientTypes, TypeOK, Slot
<1>5. UNCHANGED <<stored, batch, dropped, closed>>
  BY DEF EnqueueSend, bufferVars
<1>6. EventsAt("stored")' = EventsAt("stored") /\ EventsAt("batch")' = EventsAt("batch")
  BY <1>5, PlaceByPlace
<1> HIDE DEF G
<1>7. CASE Len(eventChan) < EventCap
  <2>1. eventChan' = Append(eventChan, e) /\ chan' = chan /\ pending' = pending
    BY <1>7 DEF bufferVars
  <2>2. e \notin Real(eventChan)
    BY <1>1, <1>3, PlaceByPlace DEF G, Real
  <2>3. /\ Real(eventChan') = Real(eventChan) \cup G /\ Ids(eventChan') = Ids(eventChan) \cup {e} /\ Once(eventChan')
    BY <1>4, <2>1, <2>2, AppendReal DEF G, Sound, OnceEach
  <2>4. Apart' /\ Held' = Held \ {}
    <3>1. EventsAt("eventChan")' = (EventsAt("eventChan") \cup G) \ {}
      BY <2>3, PlaceByPlace
    <3>2. \A p \in Places : p # k /\ p # "eventChan" => EventsAt(p)' = EventsAt(p)
      BY <1>1, <1>6, <2>1, PlaceByPlace
    <3>3. G \subseteq EventsAt(k) /\ EventsAt(k)' = EventsAt(k) \ G
      BY DEF G
    <3>4. Transferred(k, "eventChan", G, {})
      BY <1>1, <3>1, <3>2, <3>3 DEF Transferred
    <3> QED BY <3>4, Transfer DEF Sound
  <2>5. CountsSound'
    BY <1>5, <2>4, NothingGone
  <2>6. OnceEach' /\ NilAtEnd'
    BY <1>5, <2>1, <2>3 DEF Sound, OnceEach, NilAtEnd
  <2> QED BY <2>4, <2>5, <2>6 DEF Sound
<1>8. CASE ~(Len(eventChan) < EventCap) /\ closed
  <2>1. eventChan' = eventChan /\ chan' = chan /\ pending' = pending /\ closed'
    BY <1>8 DEF EnqueueSend
  <2>2. Apart' /\ Held' = Held \ G /\ G \subseteq Held
    <3>1. EventsAt("chan")' = (EventsAt("chan") \cup G) \ G
      BY <1>1, <1>3, <2>1, PlaceByPlace
    <3>2. \A p \in Places : p # k /\ p # "chan" => EventsAt(p)' = EventsAt(p)
      BY <1>1, <1>6, <2>1, PlaceByPlace
    <3>3. G \subseteq EventsAt(k) /\ EventsAt(k)' = EventsAt(k) \ G
      BY DEF G
    <3>4. Transferred(k, "chan", G, G)
      BY <1>1, <3>1, <3>2, <3>3 DEF Transferred
    <3> QED BY <3>4, Transfer DEF Sound
  <2>3. CountsSound'
    BY <1>5, <2>1, <2>2, NothingGone
  <2>4. OnceEach' /\ NilAtEnd'
    BY <1>5, <2>1 DEF Sound, OnceEach, NilAtEnd
  <2> QED BY <2>2, <2>3, <2>4 DEF Sound
<1>9. CASE ~(Len(eventChan) < EventCap) /\ ~closed /\ Len(chan) < MaxSize
  <2>1. chan' = Append(chan, e) /\ eventChan' = eventChan /\ pending' = pending
    BY <1>9 DEF EnqueueSend
  <2>2. e \notin Real(chan)
    BY <1>1, <1>3, PlaceByPlace DEF G, Real
  <2>3. /\ Real(chan') = Real(chan) \cup G /\ Ids(chan') = Ids(chan) \cup {e} /\ Once(chan')
    BY <1>4, <2>1, <2>2, AppendReal DEF G, Sound, OnceEach
  <2>4. Apart' /\ Held' = Held \ {}
    <3>1. EventsAt("chan")' = (EventsAt("chan") \cup G) \ {}
      BY <2>3, PlaceByPlace
    <3>2. \A p \in Places : p # k /\ p # "chan" => EventsAt(p)' = EventsAt(p)
      BY <1>1, <1>6, <2>1, PlaceByPlace
    <3>3. G \subseteq EventsAt(k) /\ EventsAt(k)' = EventsAt(k) \ G
      BY DEF G
    <3>4. Transferred(k, "chan", G, {})
      BY <1>1, <3>1, <3>2, <3>3 DEF Transferred
    <3> QED BY <3>4, Transfer DEF Sound
  <2>5. CountsSound'
    BY <1>5, <2>4, NothingGone
  <2>6. OnceEach' /\ NilAtEnd'
    BY <1>5, <2>1, <2>3 DEF Sound, OnceEach, NilAtEnd
  <2> QED BY <2>4, <2>5, <2>6 DEF Sound
<1>10. CASE ~(Len(eventChan) < EventCap) /\ ~closed /\ ~(Len(chan) < MaxSize)
  <2>1. chan' = chan /\ eventChan' = eventChan /\ pending' = e
    BY <1>10 DEF EnqueueSend
  <2>2. Apart' /\ Held' = Held \ {}
    <3>1. EventsAt("pending")' = (EventsAt("pending") \cup G) \ {}
      BY <2>1, PlaceByPlace DEF G
    <3>2. \A p \in Places : p # k /\ p # "pending" => EventsAt(p)' = EventsAt(p)
      BY <1>1, <1>6, <2>1, PlaceByPlace
    <3>3. G \subseteq EventsAt(k) /\ EventsAt(k)' = EventsAt(k) \ G
      BY DEF G
    <3>4. Transferred(k, "pending", G, {})
      BY <1>1, <3>1, <3>2, <3>3 DEF Transferred
    <3> QED BY <3>4, Transfer DEF Sound
  <2>3. CountsSound'
    BY <1>5, <2>2, NothingGone
  <2>4. OnceEach' /\ NilAtEnd'
    BY <1>5, <2>1 DEF Sound, OnceEach, NilAtEnd
  <2> QED BY <2>2, <2>3, <2>4 DEF Sound
<1> QED BY <1>7, <1>8, <1>9, <1>10

Sources == /\ current # NilEvent <=> manager = "got"
           /\ replay # <<>> => manager = "replay"

LEMMA NoIds == Real(<<>>) = {} /\ Ids(<<>>) = {} /\ Once(<<>>)
BY DEF Real, Ids, Once

(* The steps that move events, one by one.                                 *)
LEMMA ReplayKept ==
  ASSUME ClientTypes, Sound, Sources, ReplayOne
  PROVE  Sound'
<1> DEFINE e == Head(replay)
<1>1. replay \in Seq(Slot) /\ replay # <<>> /\ replay' = Tail(replay) /\ current' = current
  BY DEF ClientTypes, TypeOK, Slot, ReplayOne
<1>2. /\ Real(replay) = Real(replay') \cup ({e} \ {NilEvent}) /\ Ids(replay') \subseteq Ids(replay)
      /\ e \in Ids(replay) /\ e \in Slot /\ Once(replay') /\ e \notin Real(replay')
  BY <1>1, TailReal DEF Sound, OnceEach
<1>3. UNCHANGED <<handled, stolen, sent>> /\ pending = NilEvent
      /\ IF Len(eventChan) < EventCap
           THEN eventChan' = Append(eventChan, e) /\ UNCHANGED bufferVars
           ELSE EnqueueSend(e) /\ UNCHANGED eventChan
  BY DEF ReplayOne
<1> HIDE DEF e
<1>4. {e} \ {NilEvent} \subseteq EventsAt("replay") /\ EventsAt("replay")' = EventsAt("replay") \ ({e} \ {NilEvent})
  BY <1>2, PlaceByPlace DEF Real
<1>5. EventsAt("current")' = EventsAt("current")
  BY <1>1, PlaceByPlace
<1>6. ~closed => e # NilEvent /\ NilEvent \notin Ids(replay')
  BY <1>2 DEF Sound, NilAtEnd
<1> QED BY <1>2, <1>3, <1>4, <1>5, <1>6, SentOn

LEMMA DispatchKept ==
  ASSUME ClientTypes, Sound, Sources, Dispatch
  PROVE  Sound'
<1>1. current \in Slot /\ current # NilEvent /\ replay' = replay /\ current' = NilEvent
  BY DEF ClientTypes, TypeOK, Slot, Dispatch, Sources
<1>2. UNCHANGED <<handled, stolen, sent>> /\ pending = NilEvent
      /\ IF Len(eventChan) < EventCap
           THEN eventChan' = Append(eventChan, current) /\ UNCHANGED bufferVars
           ELSE EnqueueSend(current) /\ UNCHANGED eventChan
  BY DEF Dispatch
<1>3. {current} \ {NilEvent} \subseteq EventsAt("current")
      /\ EventsAt("current")' = EventsAt("current") \ ({current} \ {NilEvent})
  BY <1>1, PlaceByPlace
<1>4. EventsAt("replay")' = EventsAt("replay")
  BY <1>1, PlaceByPlace
<1>5. Once(replay') /\ (~closed => NilEvent \notin Ids(replay'))
  BY <1>1 DEF Sound, OnceEach, NilAtEnd
<1> QED BY <1>1, <1>2, <1>3, <1>4, <1>5, SentOn

LEMMA EnqueueRestKept ==
  ASSUME ClientTypes, Sound, EnqueueRest
  PROVE  Sound'
<1> DEFINE G == {pending}      t == IF stored = <<>> THEN <<>> ELSE Tail(stored)
           gone == IF stored = <<>> THEN {} ELSE {Head(stored)} \ {NilEvent}
<1>1. /\ pending \in Slot /\ pending # NilEvent /\ pending' = NilEvent /\ stored' = Append(t, pending)
      /\ UNCHANGED <<chan, batch, closed, eventChan, replay, current, handled, stolen, sent>>
      /\ dropped' = IF stored = <<>> THEN dropped ELSE dropped + 1
      /\ stored \in Seq(Slot)
  BY DEF ClientTypes, EnqueueRest, EnqueueFull, clientVars
<1>2. /\ t \in Seq(Slot) /\ Real(t) = Real(stored) \ gone /\ Once(t) /\ Ids(t) \subseteq Ids(stored)
      /\ gone \subseteq Real(stored) /\ (stored # <<>> => Head(stored) \in Ids(stored))
  <2>1. CASE stored = <<>>
    <3>1. t = <<>> /\ gone = {} /\ <<>> \in Seq(Slot)
      BY <2>1
    <3> QED BY <2>1, <3>1, NoIds
  <2>2. CASE stored # <<>>
    <3>1. t = Tail(stored) /\ gone = {Head(stored)} \ {NilEvent} /\ t \in Seq(Slot)
      BY <1>1, <2>2, Ends
    <3>2. /\ Real(stored) = Real(Tail(stored)) \cup ({Head(stored)} \ {NilEvent})
          /\ Ids(Tail(stored)) \subseteq Ids(stored) /\ Head(stored) \in Ids(stored)
          /\ Once(Tail(stored)) /\ Head(stored) \notin Real(Tail(stored))
      BY <1>1, <2>2, TailReal DEF Sound, OnceEach
    <3> HIDE DEF t, gone
    <3> QED BY <3>1, <3>2
  <2> QED BY <2>1, <2>2
<1>3. "pending" \in Places /\ "stored" \in Places /\ "pending" # "stored"
      /\ \A p \in Places : p \in {"replay", "current", "eventChan", "chan", "pending", "stored", "batch"}
  BY DEF Places
<1>4. EventsAt("pending") = G /\ EventsAt("stored") = Real(stored) /\ G \cap Real(stored) = {}
  <2>1. EventsAt("pending") = G /\ EventsAt("stored") = Real(stored)
    BY <1>1, PlaceByPlace
  <2> QED BY <1>3, <2>1 DEF Sound, Apart
<1>5. (stored # <<>> /\ ~closed) => gone = {Head(stored)}
  BY <1>2 DEF Sound, NilAtEnd
<1>6. stored = <<>> => gone = {}
  OBVIOUS
<1> HIDE DEF t, gone, G
<1>7. pending \notin Real(t)
  BY <1>2, <1>4 DEF G
<1>8. /\ Real(stored') = Real(t) \cup G /\ Ids(stored') = Ids(t) \cup {pending} /\ Once(stored')
  <2>1. Real(stored') = Real(t) \cup ({pending} \ {NilEvent})
    BY <1>1, <1>2, AppendReal
  <2>2. Ids(stored') = Ids(t) \cup {pending} /\ Once(stored')
    BY <1>1, <1>2, <1>7, AppendReal
  <2> QED BY <1>1, <2>1, <2>2 DEF G
<1>9. Apart' /\ Held' = Held \ gone /\ gone \subseteq Held
  <2>1. EventsAt("stored")' = (EventsAt("stored") \cup G) \ gone
    BY <1>2, <1>4, <1>8, PlaceByPlace
  <2>2. EventsAt("pending")' = EventsAt("pending") \ G
    BY <1>1, <1>4, PlaceByPlace
  <2>3. \A p \in Places : p # "pending" /\ p # "stored" => EventsAt(p)' = EventsAt(p)
    BY <1>1, <1>3, PlaceByPlace
  <2>4. Transferred("pending", "stored", G, gone)
    BY <1>2, <1>3, <1>4, <2>1, <2>2, <2>3 DEF Transferred
  <2> QED BY <2>4, Transfer DEF Sound
<1>10. CountsSound'
  <2>1. CASE stored = <<>>
    BY <1>1, <1>6, <1>9, <2>1, NothingGone
  <2>2. CASE stored # <<>>
    <3>1. ~closed => IsFiniteSet(gone) /\ dropped' = dropped + Cardinality(gone)
      BY <1>1, <1>5, <2>2, FS_Singleton
    <3> QED BY <1>1, <1>9, <3>1, GoneAreCounted DEF Sound
  <2> QED BY <2>1, <2>2
<1>11. OnceEach' /\ NilAtEnd'
  BY <1>1, <1>2, <1>8 DEF Sound, OnceEach, NilAtEnd
<1> QED BY <1>9, <1>10, <1>11 DEF Sound

LEMMA FlushKept ==
  ASSUME ClientTypes, Sound, Sources, FlushBuffer
  PROVE  Sound'
<1> DEFINE G == Real(stored)
<1>1. /\ replay = <<>> /\ replay' = stored /\ stored' = <<>>
      /\ UNCHANGED <<chan, batch, dropped, pending, closed, eventChan, current, handled, stolen, sent>>
  BY DEF FlushBuffer, Flush, Sources
<1>2. "replay" \in Places /\ "stored" \in Places /\ "replay" # "stored"
      /\ \A p \in Places : p \in {"replay", "current", "eventChan", "chan", "pending", "stored", "batch"}
  BY DEF Places
<1>3. Apart' /\ Held' = Held \ {}
  <2>1. EventsAt("stored")' = EventsAt("stored") \ G /\ G \subseteq EventsAt("stored")
    BY <1>1, NoIds, PlaceByPlace
  <2>2. EventsAt("replay")' = (EventsAt("replay") \cup G) \ {}
    BY <1>1, NoIds, PlaceByPlace
  <2>3. \A p \in Places : p # "stored" /\ p # "replay" => EventsAt(p)' = EventsAt(p)
    BY <1>1, <1>2, PlaceByPlace
  <2> HIDE DEF G
  <2>4. Transferred("stored", "replay", G, {})
    BY <1>2, <2>1, <2>2, <2>3 DEF Transferred
  <2> QED BY <2>4, Transfer DEF Sound
<1>4. CountsSound'
  BY <1>1, <1>3, NothingGone
<1>5. OnceEach' /\ NilAtEnd'
  BY <1>1, NoIds DEF Sound, OnceEach, NilAtEnd
<1> QED BY <1>3, <1>4, <1>5 DEF Sound

LEMMA ReceiveKept ==
  ASSUME ClientTypes, Sound, Receive, UNCHANGED clientVars
  PROVE  Sound'
<1>1. /\ UNCHANGED <<stored, dropped, pending, closed, eventChan, replay, current, handled, stolen, sent>>
      /\ batch \in Seq(Slot) /\ chan \in Seq(Slot)
  BY DEF Receive, clientVars, ClientTypes
<1>2. "batch" \in Places /\ "chan" \in Places /\ "batch" # "chan"
      /\ \A p \in Places : p \in {"replay", "current", "eventChan", "chan", "pending", "stored", "batch"}
  BY DEF Places
<1>3. \A p \in Places : p # "chan" /\ p # "batch" => EventsAt(p)' = EventsAt(p)
  BY <1>1, <1>2, PlaceByPlace
<1>4. CASE chan # <<>> /\ batch' = Append(batch, Head(chan)) /\ chan' = Tail(chan)
  <2> DEFINE e == Head(chan)      G == {e} \ {NilEvent}
  <2>1. /\ Real(chan) = Real(chan') \cup G /\ Ids(chan') \subseteq Ids(chan) /\ e \in Ids(chan) /\ e \in Slot
        /\ Once(chan') /\ e \notin Real(chan')
    BY <1>1, <1>4, TailReal DEF Sound, OnceEach
  <2>2. e \notin Real(batch)
    <3>1. EventsAt("chan") \cap EventsAt("batch") = {}
      BY <1>2 DEF Sound, Apart
    <3>2. e \in Real(chan) \/ e = NilEvent
      BY <2>1 DEF Real
    <3> QED BY <3>1, <3>2, PlaceByPlace DEF Real
  <2>3. Real(batch') = Real(batch) \cup G /\ Ids(batch') = Ids(batch) \cup {e} /\ Once(batch')
    BY <1>1, <1>4, <2>1, <2>2, AppendReal DEF Sound, OnceEach
  <2>4. EventsAt("chan")' = EventsAt("chan") \ G /\ G \subseteq EventsAt("chan")
    BY <2>1, PlaceByPlace
  <2>5. EventsAt("batch")' = (EventsAt("batch") \cup G) \ {}
    BY <2>3, PlaceByPlace
  <2> HIDE DEF G, e
  <2>6. Transferred("chan", "batch", G, {})
    BY <1>2, <1>3, <2>4, <2>5 DEF Transferred
  <2>7. Apart' /\ Held' = Held \ {}
    BY <2>6, Transfer DEF Sound
  <2>8. CountsSound'
    BY <1>1, <2>7, NothingGone
  <2>9. OnceEach' /\ NilAtEnd'
    BY <1>1, <2>1, <2>3 DEF Sound, OnceEach, NilAtEnd
  <2> QED BY <2>7, <2>8, <2>9 DEF Sound
<1>5. CASE closed /\ chan = <<>> /\ batch' = Append(batch, NilEvent) /\ UNCHANGED chan
  <2>1. NilEvent \in Slot /\ NilEvent \notin Real(batch)
    BY DEF Slot, Real
  <2>2. Real(batch') = Real(batch) \cup ({NilEvent} \ {NilEvent}) /\ Once(batch')
    BY <1>1, <1>5, <2>1, AppendReal DEF Sound, OnceEach
  <2>3. EventsAt("batch")' = (EventsAt("batch") \cup {}) \ {} /\ EventsAt("chan")' = EventsAt("chan") \ {}
    BY <1>5, <2>2, PlaceByPlace
  <2>4. Transferred("chan", "batch", {}, {})
    BY <1>2, <1>3, <2>3 DEF Transferred
  <2>5. Apart' /\ Held' = Held \ {}
    BY <2>4, Transfer DEF Sound
  <2>6. CountsSound'
    BY <1>1, <2>5, NothingGone
  <2>7. OnceEach' /\ NilAtEnd'
    BY <1>1, <1>5, <2>2 DEF Sound, OnceEach, NilAtEnd
  <2> QED BY <2>5, <2>6, <2>7 DEF Sound
<1> QED BY <1>4, <1>5 DEF Receive

LEMMA StoreKept ==
  ASSUME ClientTypes, Sound, StoreBatch, UNCHANGED clientVars
  PROVE  Sound'
<1>1. /\ UNCHANGED <<chan, pending, closed, eventChan, replay, current, handled, stolen, sent>>
      /\ batch \in Seq(Slot) /\ stored \in Seq(Slot)
  BY DEF StoreBatch, clientVars, ClientTypes
<1>2. CASE Cuts(stored, batch) > MaxSize
  <2>1. UNCHANGED <<stored, dropped, batch>>
    BY <1>2 DEF StoreBatch
  <2>2. Resting
    BY <1>1, <2>1 DEF Resting
  <2> QED BY <2>2, RestIsSound
<1>3. CASE ~(Cuts(stored, batch) > MaxSize)
  <2> DEFINE G == Real(batch)      gone == (Real(stored) \cup Real(batch)) \ Real(stored')
  <2>1. stored' = Stored(stored, batch) /\ dropped' = dropped + Cuts(stored, batch) /\ batch' = <<>>
    BY <1>3 DEF StoreBatch
  <2>2. "batch" \in Places /\ "stored" \in Places /\ "batch" # "stored"
        /\ \A p \in Places : p \in {"replay", "current", "eventChan", "chan", "pending", "stored", "batch"}
    BY DEF Places
  <2>3. Real(stored) \cap Real(batch) = {}
    BY <2>2, PlaceByPlace DEF Sound, Apart
  <2>4. /\ Once(stored') /\ Ids(stored') \subseteq Ids(stored) \cup Ids(batch)
        /\ NilEvent \notin Ids(stored) \cup Ids(batch) =>
             \E g \in SUBSET (Real(stored) \cup Real(batch)) :
               /\ IsFiniteSet(g) /\ Cardinality(g) = Cuts(stored, batch)
               /\ Real(stored') = (Real(stored) \cup Real(batch)) \ g
    BY <1>1, <2>1, <2>3, StoredReal DEF Sound, OnceEach
  <2>5. Real(stored') \subseteq Real(stored) \cup Real(batch)
    BY <2>4 DEF Real
  <2>6. ~closed => IsFiniteSet(gone) /\ dropped' = dropped + Cardinality(gone)
    <3> SUFFICES ASSUME ~closed PROVE IsFiniteSet(gone) /\ dropped' = dropped + Cardinality(gone)
      OBVIOUS
    <3>1. NilEvent \notin Ids(stored) \cup Ids(batch)
      BY DEF Sound, NilAtEnd
    <3>2. PICK g \in SUBSET (Real(stored) \cup Real(batch)) :
            /\ IsFiniteSet(g) /\ Cardinality(g) = Cuts(stored, batch)
            /\ Real(stored') = (Real(stored) \cup Real(batch)) \ g
      BY <2>4, <3>1
    <3>3. gone = g
      BY <3>2
    <3> HIDE DEF gone
    <3> QED BY <2>1, <3>2, <3>3
  <2>7. gone \subseteq Real(stored) \cup G /\ Real(stored') = (Real(stored) \cup G) \ gone
    BY <2>5
  <2>8. EventsAt("batch")' = EventsAt("batch") \ G /\ G \subseteq EventsAt("batch")
    BY <2>1, NoIds, PlaceByPlace
  <2> HIDE DEF G, gone
  <2>9. EventsAt("stored")' = (EventsAt("stored") \cup G) \ gone /\ gone \subseteq EventsAt("stored") \cup G
    BY <2>7, PlaceByPlace
  <2>10. \A p \in Places : p # "batch" /\ p # "stored" => EventsAt(p)' = EventsAt(p)
    BY <1>1, <2>2, PlaceByPlace
  <2>11. Transferred("batch", "stored", G, gone)
    BY <2>2, <2>8, <2>9, <2>10 DEF Transferred
  <2>12. Apart' /\ Held' = Held \ gone /\ gone \subseteq Held
    BY <2>11, Transfer DEF Sound
  <2>13. CountsSound'
    BY <1>1, <2>6, <2>12, GoneAreCounted DEF Sound
  <2>14. OnceEach' /\ NilAtEnd'
    BY <1>1, <2>1, <2>4, NoIds DEF Sound, OnceEach, NilAtEnd
  <2> QED BY <2>12, <2>13, <2>14 DEF Sound
<1> QED BY <1>2, <1>3

LEMMA HandleKept ==
  ASSUME ClientTypes, Sound, HandleEvent
  PROVE  Sound'
<1> DEFINE e == Head(eventChan)      gone == {e} \ {NilEvent}
<1>1. /\ UNCHANGED <<chan, batch, stored, dropped, pending, closed, current, replay, sent, stolen>>
      /\ eventChan \in Seq(Slot) /\ eventChan # <<>> /\ eventChan' = Tail(eventChan)
  BY DEF HandleEvent, ClientTypes, TypeOK, Slot
<1>2. /\ Real(eventChan) = Real(eventChan') \cup gone /\ Ids(eventChan') \subseteq Ids(eventChan)
      /\ e \in Ids(eventChan) /\ e \in Slot /\ Once(eventChan') /\ e \notin Real(eventChan')
  BY <1>1, TailReal DEF Sound, OnceEach
<1>3. "replay" \in Places /\ "eventChan" \in Places /\ "replay" # "eventChan"
      /\ \A p \in Places : p \in {"replay", "current", "eventChan", "chan", "pending", "stored", "batch"}
  BY DEF Places
<1>4. EventsAt("eventChan")' = (EventsAt("eventChan") \cup {}) \ gone /\ gone \subseteq EventsAt("eventChan")
  BY <1>2, PlaceByPlace
<1>5. \A p \in Places : p # "eventChan" => EventsAt(p)' = EventsAt(p)
  BY <1>1, <1>3, PlaceByPlace
<1>6. IF e = NilEvent THEN handled' = handled ELSE handled' = [handled EXCEPT ![e] = @ + 1]
  BY DEF HandleEvent
<1>7. OnceEach' /\ NilAtEnd'
  BY <1>1, <1>2 DEF Sound, OnceEach, NilAtEnd
<1>8. e = NilEvent => gone = {}
  OBVIOUS
<1>9. e # NilEvent => gone = {e}
  OBVIOUS
<1> HIDE DEF e, gone
<1>10. Apart' /\ Held' = Held \ gone /\ gone \subseteq Held
  <2>1. Transferred("replay", "eventChan", {}, gone)
    BY <1>3, <1>4, <1>5 DEF Transferred
  <2> QED BY <2>1, Transfer DEF Sound
<1>11. CASE e = NilEvent
  <2>1. handled' = handled /\ Held' = Held \ {}
    BY <1>6, <1>8, <1>10, <1>11
  <2>2. CountsSound'
    BY <1>1, <2>1, NothingGone
  <2> QED BY <1>7, <1>10, <2>2 DEF Sound
<1>12. CASE e # NilEvent
  <2>1. e \in Event /\ gone = {e} /\ e \in Held
    BY <1>2, <1>9, <1>10, <1>12 DEF Slot
  <2>2. /\ handled \in [Event -> Nat] /\ (\A x \in Event : handled[x] <= 1) /\ Handled \cap Held = {}
        /\ Handled \cup Held \cup stolen \subseteq 1 .. sent /\ Held \cap stolen = {}
        /\ ~closed => dropped = sent - Cardinality(Handled \cup Held \cup stolen)
    BY DEF Sound, CountsSound, DeliveredOrCounted
  <2>3. handled' = [handled EXCEPT ![e] = @ + 1]
    BY <1>6, <1>12
  <2>4. e \notin Handled /\ handled[e] = 0
    BY <2>1, <2>2 DEF Handled
  <2>5. /\ handled' \in [Event -> Nat] /\ handled'[e] = 1
        /\ \A x \in Event : x # e => handled'[x] = handled[x]
    BY <2>1, <2>2, <2>3, <2>4
  <2>6. Handled' = Handled \cup {e}
    BY <2>1, <2>2, <2>5 DEF Handled
  <2>7. Held' = Held \ {e}
    BY <1>10, <2>1
  <2>8. Handled' \cup Held' \cup stolen' = Handled \cup Held \cup stolen /\ Handled' \cap Held' = {}
        /\ Held' \cap stolen' = {}
    BY <1>1, <2>1, <2>2, <2>6, <2>7
  <2>9. \A x \in Event : handled'[x] <= 1
    BY <2>2, <2>5
  <2>10. CountsSound'
    BY <1>1, <2>2, <2>5, <2>8, <2>9 DEF CountsSound, DeliveredOrCounted
  <2> QED BY <1>7, <1>10, <2>10 DEF Sound
<1> QED BY <1>11, <1>12

LEMMA ReadKept ==
  ASSUME ClientTypes, Sound, Sources, ReadEvent
  PROVE  Sound'
<1>1. /\ UNCHANGED <<chan, batch, stored, dropped, pending, closed, replay, eventChan, handled, stolen>>
      /\ current = NilEvent /\ current' = sent + 1 /\ sent' = sent + 1 /\ sent \in Nat
  BY Numbers DEF ReadEvent, Sources, bufferVars, ClientTypes
<1>2. \A p \in Places : p \in {"replay", "current", "eventChan", "chan", "pending", "stored", "batch"}
  BY DEF Places
<1>3. \A p \in Places : p # "current" => EventsAt(p)' = EventsAt(p)
  BY <1>1, <1>2, PlaceByPlace
<1>4. sent + 1 # NilEvent /\ sent + 1 \notin 1 .. sent
  BY <1>1 DEF NilEvent
<1>5. EventsAt("current") = {} /\ EventsAt("current")' = {sent + 1} /\ "current" \in Places
  BY <1>1, <1>4, PlaceByPlace DEF Places
<1>6. Held' = Held \cup {sent + 1}
  BY <1>3, <1>5, HeldByPlace
<1>7. sent + 1 \notin Held /\ sent + 1 \notin stolen /\ Held \cap stolen = {}
  BY <1>4 DEF Sound, CountsSound
<1>8. Apart'
  <2> SUFFICES ASSUME NEW p \in Places, NEW q \in Places, p # q PROVE EventsAt(p)' \cap EventsAt(q)' = {}
    BY DEF Apart
  <2>1. EventsAt(p) \cap EventsAt(q) = {} /\ EventsAt(p) \subseteq Held /\ EventsAt(q) \subseteq Held
    BY HeldByPlace DEF Sound, Apart
  <2> QED BY <1>3, <1>5, <1>7, <2>1
<1>9. CountsSound'
  <2>1. Held' \cup stolen' = (Held \cup stolen) \cup {sent + 1} /\ Held' \cap stolen' = {}
        /\ Held' \subseteq Held \cup {sent + 1}
    BY <1>1, <1>6, <1>7
  <2> QED BY <1>1, <2>1, SentIsCounted DEF Sound
<1>10. OnceEach' /\ NilAtEnd'
  BY <1>1 DEF Sound, OnceEach, NilAtEnd
<1> QED BY <1>8, <1>9, <1>10 DEF Sound

LEMMA CheckKept ==
  ASSUME ClientTypes, Sound, HealthCheck
  PROVE  Sound'
<1>1. /\ UNCHANGED <<chan, batch, stored, dropped, pending, closed, replay, eventChan, current, handled>>
      /\ stolen' = stolen \cup {sent + 1} /\ sent' = sent + 1 /\ sent \in Nat
  BY Numbers DEF HealthCheck, bufferVars, ClientTypes
<1>2. \A p \in Places : p \in {"replay", "current", "eventChan", "chan", "pending", "stored", "batch"}
  BY DEF Places
<1>3. \A p \in Places : EventsAt(p)' = EventsAt(p)
  BY <1>1, <1>2, PlaceByPlace
<1>4. Held' = Held /\ Apart'
  BY <1>3, HeldByPlace DEF Sound, Apart
<1>5. sent + 1 \notin Held /\ Held \cap stolen = {}
  BY <1>1 DEF Sound, CountsSound
<1>6. CountsSound'
  <2>1. Held' \cup stolen' = (Held \cup stolen) \cup {sent + 1} /\ Held' \cap stolen' = {}
        /\ Held' \subseteq Held \cup {sent + 1}
    BY <1>1, <1>4, <1>5
  <2> QED BY <1>1, <2>1, SentIsCounted DEF Sound
<1>7. OnceEach' /\ NilAtEnd'
  BY <1>1 DEF Sound, OnceEach, NilAtEnd
<1> QED BY <1>4, <1>6, <1>7 DEF Sound

(* All other steps move none.                                              *)
LEMMA OthersRest ==
  ASSUME \/ Loop \/ Wait \/ Connect \/ Dial \/ Authenticate \/ Connected \/ BackOff \/ StartReading
         \/ CheckContext \/ ReadError \/ Dispatched \/ LoseConnection \/ CallHandler \/ ProcessorExit
         \/ Stop \/ (FlusherExit /\ UNCHANGED clientVars) \/ UNCHANGED vars
  PROVE  Resting
<1> USE DEF Resting, bufferVars
<1>1. CASE Loop
  BY <1>1 DEF Loop
<1>2. CASE Wait
  BY <1>2 DEF Wait
<1>3. CASE Connect
  BY <1>3 DEF Connect
<1>4. CASE Dial
  BY <1>4 DEF Dial
<1>5. CASE Authenticate
  BY <1>5 DEF Authenticate
<1>6. CASE Connected
  BY <1>6 DEF Connected
<1>7. CASE BackOff
  BY <1>7 DEF BackOff
<1>8. CASE StartReading
  BY <1>8 DEF StartReading
<1>9. CASE CheckContext
  BY <1>9 DEF CheckContext
<1>10. CASE ReadError
  BY <1>10 DEF ReadError
<1>11. CASE Dispatched
  BY <1>11 DEF Dispatched
<1>12. CASE LoseConnection
  BY <1>12 DEF LoseConnection
<1>13. CASE CallHandler
  BY <1>13 DEF CallHandler
<1>14. CASE ProcessorExit
  BY <1>14 DEF ProcessorExit
<1>15. CASE Stop
  <2>1. UNCHANGED <<chan, batch, stored, pending, eventChan, replay, current, handled, stolen, sent, dropped>>
    BY <1>15 DEF Stop, StopClient, StopCancel, StopClose
  <2>2. closed => closed'
    BY <1>15 DEF Stop, StopClient, StopCancel, StopClose
  <2> QED BY <2>1, <2>2
<1>16. CASE FlusherExit /\ UNCHANGED clientVars
  BY <1>16 DEF FlusherExit, clientVars
<1>17. CASE UNCHANGED vars
  BY <1>17 DEF vars, clientVars
<1> QED BY <1>1, <1>2, <1>3, <1>4, <1>5, <1>6, <1>7, <1>8, <1>9, <1>10, <1>11, <1>12, <1>13, <1>14,
           <1>15, <1>16, <1>17

LEMMA SoundKept ==
  ASSUME ClientTypes, Sound, Sources, [Next]_vars
  PROVE  Sound'
<1>1. CASE ReplayOne
  BY <1>1, ReplayKept
<1>2. CASE Dispatch
  BY <1>2, DispatchKept
<1>3. CASE EnqueueRest
  BY <1>3, EnqueueRestKept
<1>4. CASE FlushBuffer
  BY <1>4, FlushKept
<1>5. CASE HandleEvent
  BY <1>5, HandleKept
<1>6. CASE ReadEvent
  BY <1>6, ReadKept
<1>7. CASE HealthCheck
  BY <1>7, CheckKept
<1>8. CASE Receive /\ UNCHANGED clientVars
  BY <1>8, ReceiveKept
<1>9. CASE StoreBatch /\ UNCHANGED clientVars
  BY <1>9, StoreKept
<1>10. CASE \/ Loop \/ Wait \/ Connect \/ Dial \/ Authenticate \/ Connected \/ BackOff \/ StartReading
            \/ CheckContext \/ ReadError \/ Dispatched \/ LoseConnection \/ CallHandler \/ ProcessorExit
            \/ Stop \/ (FlusherExit /\ UNCHANGED clientVars) \/ UNCHANGED vars
  BY <1>10, OthersRest, RestIsSound
<1> QED BY <1>1, <1>2, <1>3, <1>4, <1>5, <1>6, <1>7, <1>8, <1>9, <1>10
        DEF Next, ManagerStep, BackgroundFlush

(* The manager holds an event only between ReadEvent and Dispatch, and     *)
(* events to replay only while it replays them.                            *)
LEMMA SourcesKept ==
  ASSUME ClientTypes, Sources, [Next]_vars
  PROVE  Sources'
<1> USE DEF Sources
<1>1. CASE Loop \/ Wait \/ Connect \/ Dial \/ Authenticate \/ Connected \/ BackOff
  <2>1. current' = current /\ replay' = replay /\ manager \notin {"got"} /\ manager' # "got"
        /\ (manager = "replay" => replay = <<>>)
    BY <1>1 DEF Loop, Wait, Connect, Dial, Authenticate, Failed, Connected, BackOff
  <2> QED BY <2>1
<1>2. CASE StartReading \/ CheckContext \/ Dispatched \/ ReadError
  <2>1. current' = current /\ replay' = replay /\ manager # "got" /\ manager' # "got" /\ manager # "replay"
    BY <1>2 DEF StartReading, CheckContext, Dispatched, ReadError
  <2> QED BY <2>1
<1>3. CASE FlushBuffer
  BY <1>3 DEF FlushBuffer
<1>4. CASE ReplayOne
  BY <1>4 DEF ReplayOne
<1>5. CASE Dispatch
  BY <1>5 DEF Dispatch
<1>6. CASE ReadEvent
  <2>1. sent + 1 # NilEvent
    BY Numbers DEF ClientTypes, NilEvent
  <2> QED BY <1>6, <2>1 DEF ReadEvent
<1>7. CASE EnqueueRest \/ LoseConnection \/ HandleEvent \/ CallHandler \/ ProcessorExit \/ HealthCheck
           \/ Stop \/ BackgroundFlush \/ UNCHANGED vars
  <2>1. UNCHANGED <<manager, current, replay>>
    BY <1>7 DEF EnqueueRest, LoseConnection, HandleEvent, CallHandler, ProcessorExit, HealthCheck,
                Stop, StopClient, BackgroundFlush, clientVars, vars
  <2> QED BY <2>1
<1> QED BY <1>1, <1>2, <1>3, <1>4, <1>5, <1>6, <1>7 DEF Next, ManagerStep

LEMMA SoundInitially == Init => Sound /\ Sources
<1> SUFFICES ASSUME Init PROVE Sound /\ Sources
  OBVIOUS
<1>1. /\ chan = <<>> /\ batch = <<>> /\ stored = <<>> /\ eventChan = <<>> /\ replay = <<>>
      /\ pending = NilEvent /\ current = NilEvent /\ dropped = 0 /\ sent = 0 /\ stolen = {}
      /\ handled = [e \in Event |-> 0] /\ manager = "loop"
  BY DEF Init, BufferInit
<1>2. \A p \in Places : EventsAt(p) = {}
  BY <1>1, NoIds, PlaceByPlace DEF Places
<1>3. Held = {} /\ Handled = {}
  BY <1>1, <1>2, HeldByPlace DEF Handled
<1>4. Cardinality(Handled \cup Held \cup stolen) = 0
  BY <1>1, <1>3, FS_EmptySet
<1>5. CountsSound
  BY <1>1, <1>3, <1>4 DEF CountsSound, DeliveredOrCounted
<1>6. OnceEach /\ NilAtEnd
  BY <1>1, NoIds DEF OnceEach, NilAtEnd
<1>7. Apart
  BY <1>2 DEF Apart
<1> QED BY <1>1, <1>5, <1>6, <1>7 DEF Sound, Sources

(* For any capacities and any events: an event is handled once at most,    *)
(* whichever way it took through channel, buffer and replay, and until     *)
(* Stop closes the buffer each one that was read is held, handled or       *)
(* counted as dropped.                                                     *)
THEOREM AlwaysDeliveredOrCounted == Spec => []DeliveredOrCounted
<1> DEFINE I == ClientTypes /\ RetryInv /\ Sound /\ Sources
<1>1. Init => I
  BY TypesInitially, RetryInitially, SoundInitially
<1>2. I /\ [Next]_vars => I'
  <2> SUFFICES ASSUME I, [Next]_vars PROVE I'
    OBVIOUS
  <2>1. ClientTypes'
    BY TypesKept DEF RetryInv
  <2>2. RetryInv'
    BY RetryKept
  <2>3. Sound'
    BY SoundKept
  <2>4. Sources'
    BY SourcesKept
  <2> QED BY <2>1, <2>2, <2>3, <2>4
<1>3. I => DeliveredOrCounted
  BY DEF Sound, CountsSound
<1> QED BY <1>1, <1>2, <1>3, PTL DEF Spec
=============================================================================
