-------------------------------- MODULE EslConn --------------------------------
(***************************************************************************)
(* The Event Socket connection of freeswitch-cdr (internal/esl; the same   *)
(* files are in multi-tenant-cdr), once Dial has authenticated it.  Calls  *)
(* write a command and wait for the next response in one shared channel;   *)
(* a receive loop sorts what FreeSWITCH sends into events, which it        *)
(* dispatches, and responses, which it puts into the channel.  Nothing in  *)
(* a response says which command it is to: only the order does.            *)
(*                                                                         *)
(* A response is the command it is to.  FreeSWITCH answers in order, and   *)
(* may send a notice that it disconnects, which counts as a response.      *)
(***************************************************************************)
EXTENDS Integers, Sequences, FiniteSets, Functions

CONSTANTS
  Commands,    \* the commands of SendCommandWithContext, one call of it each
  Patient,     \* those whose call waits on the connection's own context
  Exit,        \* the command of ExitAndClose, whose response nobody awaits
  Event,       \* what FreeSWITCH sends of its own accord
  Notice,      \* text/disconnect-notice
  ChanCap,     \* capacity of responseChan (100)
  MaxEvents    \* bound: how many events FreeSWITCH sends

ASSUME ConnAssumption ==
  /\ ChanCap \in Nat \ {0} /\ MaxEvents \in Nat
  /\ Patient \subseteq Commands
  /\ {Exit, Event, Notice, "none", "cancelled", "failed"} \cap Commands = {}
  /\ Event \notin {Exit, Notice} /\ Exit \notin {Notice, "none", "cancelled", "failed"}

VARIABLES
  call,          \* where each call is: "idle", "waiting" or "returned"
  result,        \* what it returns: "none" yet, a response, or an error
  exit,          \* ExitAndClose: "idle", "closing" (written) or "closed"
  socket,        \* c.conn: "open", "lost" or "closed"
  wire,          \* commands on their way to FreeSWITCH
  inbox,         \* responses and events on their way back
  responseChan,  \* c.responseChan
  loop,          \* receiveLoop: "check", "read", "deliver" or "gone"
  held,          \* the response it is to deliver, or Event
  ctxDone,       \* c.ctx is cancelled
  events,        \* events FreeSWITCH has sent
  written,       \* history: the commands written, in order
  consumed,      \* history: the responses taken from the channel, in order
  dispatched,    \* history: events dispatched
  overlapped     \* history: two calls waited at once, or one while exiting

callVars == <<call, result, exit, written, overlapped>>
loopVars == <<loop, held, dispatched>>
peerVars == <<wire, inbox, events>>
vars == <<callVars, loopVars, peerVars, socket, responseChan, ctxDone, consumed>>

Init ==
  /\ call = [c \in Commands |-> "idle"] /\ result = [c \in Commands |-> "none"]
  /\ exit = "idle" /\ socket = "open" /\ ctxDone = FALSE
  /\ wire = <<>> /\ inbox = <<>> /\ responseChan = <<>>
  /\ loop = "check" /\ held = Event
  /\ events = 0 /\ dispatched = 0
  /\ written = <<>> /\ consumed = <<>> /\ overlapped = FALSE

Waiting == {c \in Commands : call[c] = "waiting"}

Return(c, r) ==
  /\ call' = [call EXCEPT ![c] = "returned"]
  /\ result' = [result EXCEPT ![c] = r]

-----------------------------------------------------------------------------
(* SendCommandWithContext: the write, under the write lock; one on a lost  *)
(* connection may still succeed.                                           *)
SendCommand(c) ==
  /\ call[c] = "idle"
  /\ \/ /\ socket # "closed"
        /\ call' = [call EXCEPT ![c] = "waiting"]
        /\ wire' = Append(wire, c)
        /\ written' = Append(written, c)
        /\ overlapped' = (overlapped \/ Waiting # {} \/ exit = "closing")
        /\ UNCHANGED result
     \/ /\ socket # "open"
        /\ Return(c, "failed")
        /\ UNCHANGED <<wire, written, overlapped>>
  /\ UNCHANGED <<loopVars, exit, socket, inbox, events, responseChan, ctxDone, consumed>>

(* Its select: the next response, whose ever it is ... *)
ReadResponse(c) ==
  /\ call[c] = "waiting" /\ responseChan # <<>>
  /\ Return(c, Head(responseChan))
  /\ responseChan' = Tail(responseChan)
  /\ consumed' = Append(consumed, Head(responseChan))
  /\ UNCHANGED <<loopVars, peerVars, exit, written, overlapped, socket, ctxDone>>

(* ... or the end of its context, or of ReadResponse's five seconds. *)
GiveUpNever(c) ==
  /\ call[c] = "waiting"
  /\ c \notin Patient /\ ctxDone
  /\ Return(c, "cancelled")
  /\ UNCHANGED <<loopVars, peerVars, exit, written, overlapped, socket, responseChan, ctxDone,
                 consumed>>
GiveUp(c) ==
  /\ call[c] = "waiting"
  /\ c \in Patient => ctxDone
  /\ Return(c, "cancelled")
  /\ UNCHANGED <<loopVars, peerVars, exit, written, overlapped, socket, responseChan, ctxDone,
                 consumed>>

(* ExitAndClose: the write, whose error is ignored, then Close. *)
SendExit ==
  /\ exit = "idle"
  /\ exit' = "closing"
  /\ \/ /\ socket # "closed"
        /\ wire' = Append(wire, Exit)
        /\ written' = Append(written, Exit)
        /\ overlapped' = (overlapped \/ Waiting # {})
     \/ /\ socket # "open"
        /\ UNCHANGED <<wire, written, overlapped>>
  /\ UNCHANGED <<loopVars, call, result, socket, inbox, events, responseChan, ctxDone, consumed>>

Close ==
  /\ exit \in {"idle", "closing"}
  /\ exit' = "closed" /\ ctxDone' = TRUE /\ socket' = "closed"
  /\ UNCHANGED <<loopVars, peerVars, call, result, written, overlapped, responseChan, consumed>>

-----------------------------------------------------------------------------
(* receiveLoop: the context, then one frame.  An event starts its          *)
(* listeners and the loop goes on; a read error ends it, and tells nobody: *)
(* the context of a lost connection stays as it was.                       *)
CheckContext ==
  /\ loop = "check"
  /\ loop' = IF ctxDone THEN "gone" ELSE "read"
  /\ UNCHANGED <<callVars, peerVars, socket, held, dispatched, responseChan, ctxDone, consumed>>

ReadFrame ==
  /\ loop = "read" /\ inbox # <<>>
  /\ inbox' = Tail(inbox)
  /\ IF Head(inbox) = Event
       THEN loop' = "check" /\ dispatched' = dispatched + 1 /\ UNCHANGED held
       ELSE loop' = "deliver" /\ held' = Head(inbox) /\ UNCHANGED dispatched
  /\ UNCHANGED <<callVars, wire, events, socket, responseChan, ctxDone, consumed>>

ReadError ==
  /\ loop = "read" /\ socket # "open"
  /\ loop' = "gone"
  /\ UNCHANGED <<callVars, peerVars, socket, held, dispatched, responseChan, ctxDone, consumed>>

(* A response waits for room in the channel, or for Close. *)
DeliverTwice ==
  /\ loop = "deliver" /\ Len(responseChan) < ChanCap
  /\ responseChan' = Append(responseChan, held)
  /\ \/ loop' = "check" /\ held' = Event
     \/ UNCHANGED <<loop, held>>
  /\ UNCHANGED <<callVars, peerVars, socket, dispatched, ctxDone, consumed>>
Deliver ==
  /\ loop = "deliver" /\ Len(responseChan) < ChanCap
  /\ responseChan' = Append(responseChan, held)
  /\ loop' = "check" /\ held' = Event
  /\ UNCHANGED <<callVars, peerVars, socket, dispatched, ctxDone, consumed>>

DropResponse ==
  /\ loop = "deliver" /\ ctxDone
  /\ loop' = "gone"
  /\ UNCHANGED <<callVars, peerVars, socket, held, dispatched, responseChan, ctxDone, consumed>>

-----------------------------------------------------------------------------
(* FreeSWITCH, and the connection to it. *)
Answer ==
  /\ socket = "open" /\ wire # <<>>
  /\ inbox' = Append(inbox, Head(wire)) /\ wire' = Tail(wire)
  /\ UNCHANGED <<callVars, loopVars, events, socket, responseChan, ctxDone, consumed>>

SendEvent ==
  /\ socket = "open" /\ events < MaxEvents
  /\ inbox' = Append(inbox, Event) /\ events' = events + 1
  /\ UNCHANGED <<callVars, loopVars, wire, socket, responseChan, ctxDone, consumed>>

LoseSocket ==
  /\ socket = "open"
  /\ socket' = "lost"
  /\ inbox' \in {inbox, Append(inbox, Notice)}
  /\ UNCHANGED <<callVars, loopVars, wire, events, responseChan, ctxDone, consumed>>

Next ==
  \/ \E c \in Commands : SendCommand(c) \/ ReadResponse(c) \/ GiveUp(c)
  \/ SendExit \/ Close
  \/ CheckContext \/ ReadFrame \/ ReadError \/ Deliver \/ DropResponse
  \/ Answer \/ SendEvent \/ LoseSocket

(* Goroutines are scheduled, FreeSWITCH answers and contexts with a        *)
(* deadline run out.                                                       *)
ReceiveLoop == CheckContext \/ ReadFrame \/ ReadError \/ Deliver \/ DropResponse
Spec ==
  /\ Init /\ [][Next]_vars
  /\ \A c \in Commands : WF_vars(ReadResponse(c) \/ GiveUp(c))
  /\ WF_vars(ReceiveLoop) /\ WF_vars(Answer)

-----------------------------------------------------------------------------
Asked == Commands \cup {Exit}
Replies == Asked \cup {Notice}

(* Types: a channel never over its capacity, a loop that holds a response  *)
(* exactly while it delivers one.                                          *)
TypeOK ==
  /\ call \in [Commands -> {"idle", "waiting", "returned"}]
  /\ result \in [Commands -> Replies \cup {"none", "cancelled", "failed"}]
  /\ exit \in {"idle", "closing", "closed"} /\ socket \in {"open", "lost", "closed"}
  /\ wire \in Seq(Asked) /\ inbox \in Seq(Replies \cup {Event})
  /\ responseChan \in Seq(Replies) /\ Len(responseChan) <= ChanCap
  /\ loop \in {"check", "read", "deliver", "gone"} /\ held \in Replies \cup {Event}
  /\ loop = "deliver" => held # Event
  /\ ctxDone \in BOOLEAN /\ overlapped \in BOOLEAN
  /\ events \in 0 .. MaxEvents /\ dispatched \in 0 .. MaxEvents
  /\ written \in Seq(Asked) /\ consumed \in Seq(Replies)

(* What the matching by order rests on: from the write to the call that    *)
(* takes it, no response is lost, repeated or overtaken, and the events    *)
(* between the responses are neither.                                      *)
Holding == IF held = Event THEN <<>> ELSE <<held>>
Line == consumed \o responseChan \o Holding \o inbox \o wire
ResponsesInOrder ==
  /\ IsInjective(written) /\ Range(Line) \cap Asked = Range(written)
  /\ \A i, j \in DOMAIN Line : i < j /\ Line[i] \in Asked /\ Line[j] \in Asked =>
       \E m, n \in DOMAIN written : m < n /\ written[m] = Line[i] /\ written[n] = Line[j]
  /\ dispatched + Cardinality({i \in DOMAIN inbox : inbox[i] = Event}) = events

(* As long as calls come one after the other and none gives up, each gets  *)
(* the response to its own command.                                        *)
OwnReply == \A c \in Commands : result[c] \in Asked => result[c] = c
GaveUp == {c \in Commands : result[c] = "cancelled"}
SerialCallsMatch == ~overlapped /\ GaveUp = {} => OwnReply

(* A call with a context of its own returns; one that waits on the         *)
(* connection's returns unless the connection is lost, which ends nothing. *)
CallsReturn ==
  \A c \in Commands :
    call[c] = "waiting" ~> (call[c] = "returned" \/ (c \in Patient /\ socket = "lost"))

(* Responses nobody claims stay in the channel: those to calls that gave  *)
(* up, to the exit, and the notice.  Until they fill it the loop gets back *)
(* to its socket, and so to the events.                                    *)
Unclaimed ==
  Cardinality(GaveUp) + (IF exit = "idle" THEN 0 ELSE 1) + (IF socket = "open" THEN 0 ELSE 1)
LoopReturns == loop = "deliver" ~> (loop # "deliver" \/ Unclaimed >= ChanCap)

(* Neither the callers nor the receive loop hang, but for the two ways     *)
(* that the code leaves: a lost connection, and a channel filled by        *)
(* responses nobody claims.                                                *)
NothingHangs == CallsReturn /\ LoopReturns

(* "Cancel requests using Go context": a cancelled request is over, and    *)
(* the ones made after it get their own responses.                         *)
CancelledIsOver == ~overlapped => OwnReply

(* Matching responses to calls by order alone is sound as far as it is:    *)
(* the order is kept from socket to call, and calls that come one after    *)
(* the other, with nobody giving up, get their own.                        *)
ResponsesMatch == TypeOK /\ ResponsesInOrder /\ SerialCallsMatch
=============================================================================
