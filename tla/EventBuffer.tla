----------------------------- MODULE EventBuffer -----------------------------
(***************************************************************************)
(* The event buffer of esl-resilience (internal/esl/buffer.go): a channel  *)
(* that Enqueue writes to without waiting, a goroutine that gathers what   *)
(* it reads from the channel into a batch, and the slice of stored events  *)
(* that Flush and Dequeue read.  This module has the state and the         *)
(* operations; BufferUse gives it a user, EslClient its place in the       *)
(* client.                                                                 *)
(*                                                                         *)
(* Events are the numbers they arrived under, so that age is order; NilEvent*)
(* is what a receive on the closed channel yields.  Every critical section *)
(* of b.mu is one step; what happens between two of them is not.           *)
(***************************************************************************)
EXTENDS Integers, Sequences

CONSTANTS
  MaxSize,    \* b.maxSize: capacity of the channel and of the stored slice
  BatchCap    \* capacity of the goroutine's batch (100 in backgroundFlush)

ASSUME SizeAssumption == MaxSize \in Nat \ {0} /\ BatchCap \in Nat \ {0}

VARIABLES
  chan,       \* b.eventChan
  batch,      \* the batch of backgroundFlush, a local variable
  stored,     \* b.events
  dropped,    \* b.dropped
  pending,    \* the event of an Enqueue that found the channel full, or NilEvent
  flusher,    \* the goroutine: "running" or "exited"
  cancelled,  \* b.ctx is cancelled
  closed,     \* b.eventChan is closed
  crash       \* the panic that ended the process, or "none"

bufferVars == <<chan, batch, stored, dropped, pending, flusher, cancelled, closed, crash>>

NilEvent == 0
Ids(s) == {s[i] : i \in DOMAIN s}

BufferInit ==
  /\ chan = <<>> /\ batch = <<>> /\ stored = <<>>
  /\ dropped = 0
  /\ pending = NilEvent
  /\ flusher = "running"
  /\ cancelled = FALSE /\ closed = FALSE
  /\ crash = "none"

-----------------------------------------------------------------------------
(* Enqueue, first half: the select.  A send on a closed channel panics,    *)
(* in a select too; a full channel makes it take the default branch.       *)
EnqueueSend(e) ==
  /\ pending = NilEvent
  /\ IF closed
       THEN crash' = "send on closed channel" /\ UNCHANGED <<chan, pending>>
       ELSE /\ UNCHANGED crash
            /\ IF Len(chan) < MaxSize
                 THEN chan' = Append(chan, e) /\ UNCHANGED pending
                 ELSE pending' = e /\ UNCHANGED chan
  /\ UNCHANGED <<batch, stored, dropped, flusher, cancelled, closed>>

(* Enqueue, second half, once it has the lock: the head of the stored      *)
(* events makes room for the new one, whatever room there was.             *)
EnqueueFull ==
  /\ pending # NilEvent
  /\ stored' = Append(IF stored = <<>> THEN <<>> ELSE Tail(stored), pending)
  /\ dropped' = IF stored = <<>> THEN dropped ELSE dropped + 1
  /\ pending' = NilEvent
  /\ UNCHANGED <<chan, batch, flusher, cancelled, closed, crash>>

(* backgroundFlush reads the channel while its batch has room; once the    *)
(* channel is closed and empty it reads nil.                               *)
Receive ==
  /\ flusher = "running"
  /\ Len(batch) < BatchCap
  /\ \/ /\ chan # <<>>
        /\ batch' = Append(batch, Head(chan))
        /\ chan' = Tail(chan)
     \/ /\ closed /\ chan = <<>>
        /\ batch' = Append(batch, NilEvent)
        /\ UNCHANGED chan
  /\ UNCHANGED <<stored, dropped, pending, flusher, cancelled, closed, crash>>

(* What processBatch makes of the stored events: its loop appends one      *)
(* event at a time and, on finding the slice full, cuts as many events off *)
(* its front as the whole batch has, not as many as are still to come; so  *)
(* a batch that does not fit leaves as many events as there were.  The cut *)
(* is past the end of the slice if the batch is longer than MaxSize.       *)
Fits(s, b) == Len(s) + Len(b) <= MaxSize
Cuts(s, b) == IF Fits(s, b) THEN 0 ELSE Len(b)
Stored(s, b) == SubSeq(s \o b, Cuts(s, b) + 1, Len(s) + Len(b))

(* processBatch, event by event, of which Stored and Cuts are the outcome. *)
StoreNext(k, had, e) ==
  LET overflow == Len(had.events) + k - MaxSize
      room == IF Len(had.events) >= MaxSize /\ overflow > 0
              THEN [events |-> SubSeq(had.events, overflow + 1, Len(had.events)),
                    dropped |-> had.dropped + overflow]
              ELSE had
  IN [events |-> Append(room.events, e), dropped |-> room.dropped]

processBatch(s, b) ==
  LET after[i \in 0 .. Len(b)] ==
        IF i = 0 THEN [events |-> s, dropped |-> 0] ELSE StoreNext(Len(b), after[i - 1], b[i])
  IN after[Len(b)]

(* processBatch, on a full batch or on the ticker. *)
StoreBatchAgain ==
  /\ flusher = "running"
  /\ batch # <<>>
  /\ stored' = Stored(stored, batch)
  /\ dropped' = dropped + Cuts(stored, batch)
  /\ batch' = IF Len(batch) = BatchCap THEN <<>> ELSE batch
  /\ UNCHANGED <<chan, pending, flusher, cancelled, closed, crash>>
StoreBatchPrepending ==
  /\ flusher = "running"
  /\ batch # <<>>
  /\ stored' = Stored(batch, stored)
  /\ dropped' = dropped + Cuts(batch, stored)
  /\ batch' = <<>>
  /\ UNCHANGED <<chan, pending, flusher, cancelled, closed, crash>>
StoreBatchWhenFull ==
  /\ flusher = "running"
  /\ Len(batch) = BatchCap
  /\ stored' = Stored(stored, batch)
  /\ dropped' = dropped + Cuts(stored, batch)
  /\ batch' = <<>>
  /\ UNCHANGED <<chan, pending, flusher, cancelled, closed, crash>>
StoreBatch ==
  /\ flusher = "running"
  /\ batch # <<>>
  /\ IF Cuts(stored, batch) > MaxSize
       THEN crash' = "slice bounds out of range" /\ UNCHANGED <<stored, dropped, batch>>
       ELSE /\ stored' = Stored(stored, batch)
            /\ dropped' = dropped + Cuts(stored, batch)
            /\ batch' = <<>>
            /\ UNCHANGED crash
  /\ UNCHANGED <<chan, pending, flusher, cancelled, closed>>

(* Flush and Clear empty the slice; Dequeue takes its head. *)
Flush ==
  /\ stored' = <<>>
  /\ UNCHANGED <<chan, batch, dropped, pending, flusher, cancelled, closed, crash>>

Dequeue ==
  /\ stored # <<>>
  /\ stored' = Tail(stored)
  /\ UNCHANGED <<chan, batch, dropped, pending, flusher, cancelled, closed, crash>>

(* Stop: cancel, then close. *)
StopCancel ==
  /\ ~cancelled
  /\ cancelled' = TRUE
  /\ UNCHANGED <<chan, batch, stored, dropped, pending, flusher, closed, crash>>

StopClose ==
  /\ cancelled /\ ~closed
  /\ closed' = TRUE
  /\ UNCHANGED <<chan, batch, stored, dropped, pending, flusher, cancelled, crash>>

(* The goroutine's select takes ctx.Done when it comes to it. *)
FlusherExit ==
  /\ flusher = "running" /\ cancelled
  /\ flusher' = "exited"
  /\ UNCHANGED <<chan, batch, stored, dropped, pending, cancelled, closed, crash>>
=============================================================================
