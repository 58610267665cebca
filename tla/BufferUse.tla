------------------------------ MODULE BufferUse ------------------------------
(***************************************************************************)
(* The event buffer of EventBuffer with a user: one goroutine offers       *)
(* events, flushes, clears and dequeues, as the connection manager of the  *)
(* client does, and another one may stop the buffer.  Two history          *)
(* variables say what was offered and what the user took back out.         *)
(***************************************************************************)
EXTENDS EventBuffer, FiniteSets

CONSTANT MaxEvents     \* bound: how many events are offered, and nil events read

ASSUME BufferUseAssumption == MaxEvents \in Nat

VARIABLES
  offered,   \* events offered so far: 1 .. offered
  taken      \* those that Flush, Clear or Dequeue took out

bufVars == <<bufferVars, offered, taken>>

BufInit == BufferInit /\ offered = 0 /\ taken = {}

Alive == crash = "none"
Idle == pending = NilEvent       \* the user is not inside an Enqueue

Offer ==
  /\ offered < MaxEvents
  /\ EnqueueSend(offered + 1)
  /\ offered' = offered + 1
  /\ UNCHANGED taken

TakeAll ==
  /\ Idle
  /\ Flush
  /\ taken' = taken \cup (Ids(stored) \ {NilEvent})
  /\ UNCHANGED offered

TakeOne ==
  /\ Idle
  /\ Dequeue
  /\ taken' = taken \cup ({Head(stored)} \ {NilEvent})
  /\ UNCHANGED offered

Flusher ==
  /\ \/ Receive /\ (chan = <<>> => dropped < MaxEvents)
     \/ StoreBatch
     \/ FlusherExit
  /\ UNCHANGED <<offered, taken>>

BufNext ==
  /\ Alive
  /\ \/ Offer \/ TakeAll \/ TakeOne \/ Flusher
     \/ (EnqueueFull \/ StopCancel \/ StopClose) /\ UNCHANGED <<offered, taken>>

(* The goroutine is scheduled and its ticker ticks. *)
BufSpec == BufInit /\ [][BufNext]_bufVars
             /\ WF_bufVars(Alive /\ Receive /\ UNCHANGED <<offered, taken>>)
             /\ WF_bufVars(Alive /\ StoreBatch /\ UNCHANGED <<offered, taken>>)

-----------------------------------------------------------------------------
Event == 1 .. MaxEvents
(* Types and sizes: neither the channel nor the stored events outgrow the  *)
(* configured size, whoever adds to them; and with a batch no longer than  *)
(* the buffer, storing it never cuts past the end of the slice.            *)
BufTypeOK ==
  /\ chan \in Seq(Event) /\ Len(chan) <= MaxSize
  /\ batch \in Seq(Event \cup {NilEvent}) /\ Len(batch) <= BatchCap
  /\ stored \in Seq(Event \cup {NilEvent}) /\ Len(stored) <= MaxSize
  /\ dropped \in Nat
  /\ pending \in Event \cup {NilEvent}
  /\ flusher \in {"running", "exited"}
  /\ cancelled \in BOOLEAN /\ closed \in BOOLEAN
  /\ crash \in {"none", "send on closed channel"}
  /\ offered \in 0 .. MaxEvents /\ taken \subseteq Event

Line == stored \o batch \o chan
Held == Ids(Line) \cup ({pending} \ {NilEvent})

(* Nothing is duplicated and nothing vanishes uncounted: until the buffer  *)
(* is closed, every event offered is in exactly one place, taken out, or   *)
(* counted as dropped.                                                     *)
EventsAccounted ==
  /\ BufTypeOK
  /\ ~closed =>
       /\ Cardinality(Held) = Len(Line) + (IF Idle THEN 0 ELSE 1)
       /\ Held \cap taken = {}
       /\ dropped = offered - Cardinality(Held \cup taken)

(* Events wait in the order they came in, as long as no Enqueue has met a  *)
(* full channel: the goroutine, the batch and the takes keep the order.    *)
(* And one is dropped only by a buffer that holds as many as its size, or  *)
(* would but for a batch that was cut off it while an Enqueue waited.      *)
Increasing(s) == \A i, j \in DOMAIN s : i < j => s[i] < s[j]
OrderKept ==
  [][~closed => /\ Increasing(Line) /\ Idle => Increasing(Line)'
                /\ dropped' > dropped => Cardinality(Held) + BatchCap > MaxSize + 1]_bufVars

(* What Enqueue accepted gets to where Flush sees it, or is dropped: it    *)
(* does not stay in the channel or the batch while the buffer runs.        *)
EventuallyStored ==
  \A e \in Event : e \in Ids(chan \o batch) ~> (e \notin Ids(chan \o batch) \/ cancelled)
=============================================================================
