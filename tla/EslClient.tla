------------------------------ MODULE EslClient ------------------------------
(***************************************************************************)
(* The resilient ESL client of esl-resilience (internal/esl/client.go)     *)
(* with its circuit breaker and its event buffer, and the server's Stop.   *)
(*                                                                         *)
(* Four goroutines run here: the connection manager (connect, replay, read *)
(* events, back off), the event processor, the buffer's background flush   *)
(* and, once a signal arrives, Server.Stop.  The health checker sends a    *)
(* command on the manager's socket and reads from it.  A step is what a    *)
(* goroutine does between two points where another one can matter: lock    *)
(* operations, channel operations, sleeps and socket calls.                *)
(*                                                                         *)
(* FreeSWITCH and the network are free: a dial, the authentication and any *)
(* read may fail.  Events are numbered in the order they are sent.         *)
(***************************************************************************)
EXTENDS EventBuffer, FiniteSets

CONSTANTS
  EventCap,        \* capacity of client.eventChan (1000 in NewClient)
  MaxRetries,      \* config.MaxRetries
  InitialBackoff,  \* config.InitialBackoff
  MaxBackoff,      \* config.MaxBackoff; the multiplier is 2
  Threshold,       \* config.CircuitBreakerThreshold
  MaxEvents,       \* bound: how many events FreeSWITCH sends
  MaxLosses        \* bound: how many times an open connection is lost

ASSUME ClientAssumption ==
  /\ EventCap \in Nat \ {0} /\ MaxRetries \in Nat \ {0} /\ Threshold \in Nat \ {0}
  /\ InitialBackoff \in Nat \ {0} /\ MaxBackoff \in Nat /\ InitialBackoff <= MaxBackoff
  /\ MaxEvents \in Nat /\ MaxLosses \in Nat

VARIABLES
  manager,    \* where connectionManager is
  conn,       \* c.conn: "nil", "open", or "dead": closed or lost, yet not nil
  reader,     \* the connection processEvents reads from, the same values
  current,    \* the event processEvents has just read, or NilEvent
  replay,     \* the flushed events replayBufferedEvents has still to send
  attempts,   \* c.reconnectAttempts
  backoff,    \* the local variable of connectionManager
  breaker,    \* [state, failures, cooled]: cooled once the timeout has passed
  eventChan,  \* c.eventChan
  processor,  \* eventProcessor: "running", "handling" or "exited"
  ctxDone,    \* c.ctx is cancelled
  stopping,   \* where Server.Stop is
  sent,       \* events FreeSWITCH has sent
  losses,     \* connections lost so far
  handled,    \* history: how often each event was handled
  stolen,     \* history: events the health check read off the socket
  streak      \* history: connections that failed in a row

clientVars == <<manager, conn, reader, current, replay, attempts, backoff, breaker,
                eventChan, processor, ctxDone, stopping, sent, losses, handled, stolen, streak>>
vars == <<bufferVars, clientVars>>

Event == 1 .. MaxEvents
Alive == crash = "none"

(* c.mu is held by connect from its first line to its return. *)
Locked == manager \in {"dial", "auth", "flush", "replay"}

Init ==
  /\ BufferInit
  /\ manager = "loop" /\ conn = "nil" /\ reader = "nil"
  /\ current = NilEvent /\ replay = <<>>
  /\ attempts = 0 /\ backoff = InitialBackoff
  /\ breaker = [state |-> "closed", failures |-> 0, cooled |-> FALSE]
  /\ eventChan = <<>> /\ processor = "running"
  /\ ctxDone = FALSE /\ stopping = "no"
  /\ sent = 0 /\ losses = 0
  /\ handled = [e \in Event |-> 0] /\ stolen = {} /\ streak = 0

-----------------------------------------------------------------------------
(* CircuitBreaker: IsOpen half-opens a breaker that has cooled down. *)
IsOpen == breaker.state = "open" /\ ~breaker.cooled
AfterIsOpen ==
  IF breaker.state = "open" /\ breaker.cooled
  THEN [breaker EXCEPT !.state = "half-open"] ELSE breaker
RecordSuccess == [breaker EXCEPT !.failures = 0, !.state = "closed"]
RecordFailure ==
  [state    |-> IF breaker.failures + 1 >= Threshold THEN "open" ELSE breaker.state,
   failures |-> breaker.failures + 1,
   cooled   |-> FALSE]

(* The head of the manager's loop. *)
Loop ==
  /\ manager = "loop"
  /\ IF ctxDone
       THEN manager' = "gone" /\ UNCHANGED breaker
       ELSE /\ breaker' = AfterIsOpen
            /\ manager' = IF IsOpen THEN "wait" ELSE "connect"
  /\ UNCHANGED <<bufferVars, conn, reader, current, replay, attempts, backoff, eventChan,
                 processor, ctxDone, stopping, sent, losses, handled, stolen, streak>>

(* The sleep of an open breaker lasts its whole timeout. *)
WaitUncooled ==
  /\ manager = "wait"
  /\ manager' = "loop"
  /\ UNCHANGED <<bufferVars, breaker, conn, reader, current, replay, attempts, backoff, eventChan,
                 processor, ctxDone, stopping, sent, losses, handled, stolen, streak>>
Wait ==
  /\ manager = "wait"
  /\ breaker' = [breaker EXCEPT !.cooled = TRUE]
  /\ manager' = "loop"
  /\ UNCHANGED <<bufferVars, conn, reader, current, replay, attempts, backoff, eventChan,
                 processor, ctxDone, stopping, sent, losses, handled, stolen, streak>>

(* connect: the lock, and the old connection closed.  Its early return on  *)
(* c.reconnecting is never taken: the manager is the only caller.          *)
Connect ==
  /\ manager = "connect"
  /\ conn' = "nil"
  /\ manager' = "dial"
  /\ UNCHANGED <<bufferVars, reader, current, replay, attempts, backoff, breaker, eventChan,
                 processor, ctxDone, stopping, sent, losses, handled, stolen, streak>>

(* An attempt that failed: the breaker hears nothing of it. *)
Failed ==
  /\ attempts' = attempts + 1
  /\ streak' = streak + 1
  /\ manager' = IF attempts + 1 >= MaxRetries THEN "gone" ELSE "backoff"

Dial ==
  /\ manager = "dial"
  /\ \/ Failed /\ UNCHANGED conn
     \/ conn' = "open" /\ manager' = "auth" /\ UNCHANGED <<attempts, streak>>
  /\ UNCHANGED <<bufferVars, reader, current, replay, backoff, breaker, eventChan,
                 processor, ctxDone, stopping, sent, losses, handled, stolen>>

(* A refused authentication closes the socket and leaves c.conn set. *)
Authenticate ==
  /\ manager = "auth"
  /\ \/ Failed /\ conn' = "dead"
     \/ manager' = "flush" /\ UNCHANGED <<conn, attempts, streak>>
  /\ UNCHANGED <<bufferVars, reader, current, replay, backoff, breaker, eventChan,
                 processor, ctxDone, stopping, sent, losses, handled, stolen>>

(* replayBufferedEvents: what the buffer has stored is taken out ... *)
FlushBuffer ==
  /\ manager = "flush"
  /\ Flush
  /\ replay' = stored
  /\ manager' = "replay"
  /\ UNCHANGED <<conn, reader, current, attempts, backoff, breaker, eventChan,
                 processor, ctxDone, stopping, sent, losses, handled, stolen, streak>>

(* ... and sent on, the ones that find no room going back to the buffer.   *)
ReplayOneLossy ==
  /\ manager = "replay" /\ replay # <<>> /\ pending = NilEvent
  /\ IF Len(eventChan) < EventCap
       THEN eventChan' = Append(eventChan, Head(replay)) ELSE UNCHANGED eventChan
  /\ replay' = Tail(replay)
  /\ UNCHANGED <<bufferVars, manager, conn, reader, current, attempts, backoff, breaker,
                 processor, ctxDone, stopping, sent, losses, handled, stolen, streak>>
ReplayOne ==
  /\ manager = "replay" /\ replay # <<>> /\ pending = NilEvent
  /\ IF Len(eventChan) < EventCap
       THEN eventChan' = Append(eventChan, Head(replay)) /\ UNCHANGED bufferVars
       ELSE EnqueueSend(Head(replay)) /\ UNCHANGED eventChan
  /\ replay' = Tail(replay)
  /\ UNCHANGED <<manager, conn, reader, current, attempts, backoff, breaker,
                 processor, ctxDone, stopping, sent, losses, handled, stolen, streak>>

(* An Enqueue of the manager that met a full buffer channel goes on. *)
EnqueueRest ==
  /\ EnqueueFull
  /\ UNCHANGED clientVars

(* connect returns: counters reset, breaker closed. *)
ConnectedKeepingBackoff ==
  /\ manager = "replay" /\ replay = <<>> /\ pending = NilEvent
  /\ attempts' = 0 /\ streak' = 0
  /\ breaker' = RecordSuccess
  /\ manager' = "connected"
  /\ UNCHANGED <<bufferVars, backoff, conn, reader, current, replay, eventChan,
                 processor, ctxDone, stopping, sent, losses, handled, stolen>>
Connected ==
  /\ manager = "replay" /\ replay = <<>> /\ pending = NilEvent
  /\ attempts' = 0 /\ backoff' = InitialBackoff /\ streak' = 0
  /\ breaker' = RecordSuccess
  /\ manager' = "connected"
  /\ UNCHANGED <<bufferVars, conn, reader, current, replay, eventChan,
                 processor, ctxDone, stopping, sent, losses, handled, stolen>>

(* The sleep between attempts; the next one is twice as long. *)
SmallerOf(a, b) == IF a <= b THEN a ELSE b
BackOff ==
  /\ manager = "backoff"
  /\ backoff' = SmallerOf(2 * backoff, MaxBackoff)
  /\ manager' = "loop"
  /\ UNCHANGED <<bufferVars, conn, reader, current, replay, attempts, breaker, eventChan,
                 processor, ctxDone, stopping, sent, losses, handled, stolen, streak>>

-----------------------------------------------------------------------------
(* processEvents takes c.conn as it is, without the lock. *)
StartReading ==
  /\ manager = "connected"
  /\ reader' = conn
  /\ manager' = "read"
  /\ UNCHANGED <<bufferVars, conn, current, replay, attempts, backoff, breaker, eventChan,
                 processor, ctxDone, stopping, sent, losses, handled, stolen, streak>>

(* The select at the head of its loop: with the context done it returns    *)
(* without an error, so the breaker hears of no failure.                   *)
CheckContext ==
  /\ manager = "read"
  /\ manager' = IF ctxDone THEN "loop" ELSE "reading"
  /\ UNCHANGED <<bufferVars, conn, reader, current, replay, attempts, backoff, breaker, eventChan,
                 processor, ctxDone, stopping, sent, losses, handled, stolen, streak>>

ReadEvent ==
  /\ manager = "reading" /\ reader = "open" /\ sent < MaxEvents
  /\ sent' = sent + 1
  /\ current' = sent + 1
  /\ manager' = "got"
  /\ UNCHANGED <<bufferVars, conn, reader, replay, attempts, backoff, breaker, eventChan,
                 processor, ctxDone, stopping, losses, handled, stolen, streak>>

(* The connection is lost, by the peer, the network or the read deadline.  *)
LoseConnection ==
  /\ manager = "reading" /\ reader = "open" /\ losses < MaxLosses
  /\ reader' = "dead" /\ losses' = losses + 1
  /\ conn' = IF conn = "nil" THEN "nil" ELSE "dead"
  /\ UNCHANGED <<bufferVars, manager, current, replay, attempts, backoff, breaker, eventChan,
                 processor, ctxDone, stopping, sent, handled, stolen, streak>>

ReadError ==
  /\ manager = "reading" /\ reader # "open"
  /\ IF reader = "nil"
       THEN crash' = "nil connection" /\ UNCHANGED <<manager, breaker, streak>>
       ELSE /\ breaker' = RecordFailure
            /\ streak' = streak + 1
            /\ manager' = "loop"
            /\ UNCHANGED crash
  /\ UNCHANGED <<chan, batch, stored, dropped, pending, flusher, cancelled, closed,
                 conn, reader, current, replay, attempts, backoff, eventChan,
                 processor, ctxDone, stopping, sent, losses, handled, stolen>>

(* The event goes to the processor's channel, or to the buffer if full. *)
Dispatch ==
  /\ manager = "got" /\ pending = NilEvent
  /\ IF Len(eventChan) < EventCap
       THEN eventChan' = Append(eventChan, current) /\ UNCHANGED bufferVars
       ELSE EnqueueSend(current) /\ UNCHANGED eventChan
  /\ current' = NilEvent
  /\ manager' = "dispatched"
  /\ UNCHANGED <<conn, reader, replay, attempts, backoff, breaker,
                 processor, ctxDone, stopping, sent, losses, handled, stolen, streak>>

Dispatched ==
  /\ manager = "dispatched" /\ pending = NilEvent
  /\ manager' = "read"
  /\ UNCHANGED <<bufferVars, conn, reader, current, replay, attempts, backoff, breaker, eventChan,
                 processor, ctxDone, stopping, sent, losses, handled, stolen, streak>>

-----------------------------------------------------------------------------
(* eventProcessor; with an event and the context both ready, its select    *)
(* takes either.  A nil event is dereferenced; any other goes to the state *)
(* machine, and then to its handler once c.mu is free to be read.          *)
HandleEvent ==
  /\ processor = "running" /\ eventChan # <<>>
  /\ LET e == Head(eventChan) IN
       IF e = NilEvent
         THEN crash' = "nil event" /\ UNCHANGED <<handled, processor>>
         ELSE /\ handled' = [handled EXCEPT ![e] = @ + 1]
              /\ processor' = "handling"
              /\ UNCHANGED crash
  /\ eventChan' = Tail(eventChan)
  /\ UNCHANGED <<chan, batch, stored, dropped, pending, flusher, cancelled, closed,
                 manager, conn, reader, current, replay, attempts, backoff, breaker,
                 ctxDone, stopping, sent, losses, stolen, streak>>

CallHandler ==
  /\ processor = "handling" /\ ~Locked
  /\ processor' = "running"
  /\ UNCHANGED <<bufferVars, manager, conn, reader, current, replay, attempts, backoff, breaker,
                 eventChan, ctxDone, stopping, sent, losses, handled, stolen, streak>>

ProcessorExit ==
  /\ processor = "running" /\ ctxDone
  /\ processor' = "exited"
  /\ UNCHANGED <<bufferVars, manager, conn, reader, current, replay, attempts, backoff, breaker,
                 eventChan, ctxDone, stopping, sent, losses, handled, stolen, streak>>

(* The health check's SendCommand copies c.conn under the lock and reads   *)
(* from it: what it takes for its response may be an event.                *)
HealthCheck ==
  /\ ~Locked /\ conn = "open" /\ sent < MaxEvents
  /\ sent' = sent + 1
  /\ stolen' = stolen \cup {sent + 1}
  /\ UNCHANGED <<bufferVars, manager, conn, reader, current, replay, attempts, backoff, breaker,
                 eventChan, processor, ctxDone, stopping, losses, handled, streak>>

(* Server.Stop: Client.Stop cancels, then closes the connection under the  *)
(* lock, and only then is the buffer stopped.                              *)
StopClient ==
  \/ /\ stopping = "no"
     /\ ctxDone' = TRUE
     /\ stopping' = "cancelled"
     /\ UNCHANGED <<conn, reader>>
  \/ /\ stopping = "cancelled" /\ ~Locked
     /\ conn' = "nil"
     /\ reader' = IF reader = "open" THEN "dead" ELSE reader
     /\ stopping' = "disconnected"
     /\ UNCHANGED ctxDone

Stop ==
  \/ /\ StopClient
     /\ UNCHANGED <<bufferVars, manager, current, replay, attempts, backoff, breaker,
                    eventChan, processor, sent, losses, handled, stolen, streak>>
  \/ /\ \/ stopping = "disconnected" /\ StopCancel /\ stopping' = "cancelling buffer"
        \/ stopping = "cancelling buffer" /\ StopClose /\ stopping' = "done"
     /\ UNCHANGED <<manager, conn, reader, current, replay, attempts, backoff, breaker,
                    eventChan, processor, ctxDone, sent, losses, handled, stolen, streak>>

BackgroundFlush ==
  /\ \/ Receive /\ (chan = <<>> => dropped <= MaxEvents)
     \/ StoreBatch
     \/ FlusherExit
  /\ UNCHANGED clientVars

-----------------------------------------------------------------------------
ManagerStep ==
  \/ Loop \/ Wait \/ Connect \/ Dial \/ Authenticate \/ FlushBuffer \/ ReplayOne
  \/ EnqueueRest \/ Connected \/ BackOff \/ StartReading \/ CheckContext
  \/ ReadError \/ Dispatch \/ Dispatched

Next ==
  /\ Alive
  /\ \/ ManagerStep \/ ReadEvent \/ LoseConnection
     \/ HandleEvent \/ CallHandler \/ ProcessorExit \/ HealthCheck \/ Stop \/ BackgroundFlush

(* The goroutines are scheduled, dials and authentication end by their     *)
(* timeouts and sleeps end; nothing makes FreeSWITCH send, a connection    *)
(* fail or a signal arrive, but a Stop once begun goes on.                 *)
Spec ==
  /\ Init /\ [][Next]_vars
  /\ WF_vars(Alive /\ ManagerStep)
  /\ WF_vars(Alive /\ (HandleEvent \/ CallHandler))
  /\ WF_vars(Alive /\ stopping # "no" /\ Stop)

-----------------------------------------------------------------------------
TypeOK ==
  /\ manager \in {"loop", "wait", "connect", "dial", "auth", "flush", "replay", "connected",
                  "backoff", "read", "reading", "got", "dispatched", "gone"}
  /\ conn \in {"nil", "open", "dead"} /\ reader \in {"nil", "open", "dead"}
  /\ current \in Event \cup {NilEvent}
  /\ replay \in Seq(Event \cup {NilEvent}) /\ Len(replay) <= MaxSize
  /\ attempts \in 0 .. MaxRetries
  /\ backoff \in InitialBackoff .. MaxBackoff
  /\ breaker \in [state : {"closed", "open", "half-open"}, failures : Nat, cooled : BOOLEAN]
  /\ eventChan \in Seq(Event \cup {NilEvent}) /\ Len(eventChan) <= EventCap

(* An event is handled once at most, whichever of the channel, the buffer  *)
(* and the replay it went through; and until Stop closes the buffer none   *)
(* that was read is lost without being counted as dropped.                 *)
Held == (Ids(eventChan) \cup Ids(replay) \cup Ids(stored) \cup Ids(batch) \cup Ids(chan)
         \cup {pending, current}) \ {NilEvent}
Handled == {e \in Event : handled[e] > 0}
DeliveredOrCounted ==
  /\ \A e \in Event : handled[e] <= 1
  /\ Handled \cap Held = {}
  /\ ~closed => dropped = sent - Cardinality(Handled \cup Held \cup stolen)

(* Stop cancels before it sets c.conn to nil, so processEvents, which      *)
(* reads c.conn without the lock, never reads from a nil connection.       *)
NeverReadsNil == crash # "nil connection"

(* The delay before the next attempt is InitialBackoff doubled once per    *)
(* failed attempt, up to MaxBackoff ("1s, 2s, 4s, ... 60s, 60s"): it does  *)
(* not survive a connection and no failure skips a step.  And the manager  *)
(* gives up only when stopped or after MaxRetries connections failed in a  *)
(* row.                                                                    *)
RetriesAreCounted ==
  LET steps == IF manager = "backoff" THEN attempts - 1 ELSE attempts
  IN /\ manager # "gone" => backoff = SmallerOf(InitialBackoff * 2^steps, MaxBackoff)
     /\ manager = "gone" /\ ~ctxDone => attempts = MaxRetries /\ streak >= MaxRetries

(* The manager does not stay disconnected: it reads events again or gives  *)
(* up, however the breaker, the backoff and the replay go; and a stopped   *)
(* one ends, also if it was blocked in a read or connecting at the time.   *)
ManagerSettles ==
  /\ manager \notin {"reading", "gone"} ~> (manager \in {"reading", "gone"} \/ ctxDone \/ ~Alive)
  /\ ctxDone ~> (manager = "gone" \/ ~Alive)

(* "Run server with graceful shutdown": no step after a stop panics. *)
GracefulShutdown == crash = "none"

(* What the manager keeps of its connection is sound, whatever order the   *)
(* failures, the stop and the other goroutines come in: well typed, never  *)
(* nil where it is read, and retried as often and as late as was failed.   *)
ConnectionSound == TypeOK /\ NeverReadsNil /\ RetriesAreCounted
=============================================================================
