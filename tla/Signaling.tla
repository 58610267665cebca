------------------------------ MODULE Signaling ------------------------------
(***************************************************************************)
(* The WebSocket signaling server of webrtc-gateway                        *)
(* (internal/signaling/server.go).  Every connected client has a reader    *)
(* goroutine, which runs the message handlers, and a writer goroutine,     *)
(* which drains the client's Send channel to its socket.  The handlers     *)
(* share the client and session maps under one RWMutex, and send to other  *)
(* clients' channels while they hold it for reading.                       *)
(*                                                                         *)
(* A message carries its type, the user or the session it names; SDP, ICE  *)
(* candidates and timestamps are left out, and so is what the SIP handler  *)
(* is told after a hangup or an answer has been forwarded.  A Send channel *)
(* is the number of messages in it.  Session ids are used once, as the     *)
(* clock they are taken from makes them.                                   *)
(***************************************************************************)
EXTENDS Integers, FiniteSets

CONSTANTS
  Clients,      \* WebSocket connections, each used once
  Users,        \* user ids a client may register under or call
  Sids,         \* session ids
  NoOne,        \* not a user, not a client, not a session
  SendCap,      \* capacity of client.Send (256)
  MaxFailures,  \* bound: how many connections are lost
  MayClose      \* whether Server.Close may be called

ASSUME SignalingAssumption ==
  /\ SendCap \in Nat \ {0} /\ MaxFailures \in Nat /\ MayClose \in BOOLEAN
  /\ NoOne \notin Clients \cup Users \cup Sids

VARIABLES
  clients,   \* the keys of s.clients
  sessions,  \* s.sessions: [state, caller, callee] of each id
  user,      \* client.UserID, NoOne while not Registered
  socket,    \* the client's connection: "none", "open" or "closed"
  queue,     \* messages in client.Send
  closed,    \* client.Send is closed
  reader,    \* where the client's connection handler or reader goroutine is
  writer,    \* the client's writer goroutine
  msg,       \* the message the reader is handling
  todo,      \* clients the forwarding loop has still to visit
  to,        \* the client it is sending to
  ctxDone,   \* s.ctx is cancelled
  closing,   \* where Server.Close is
  failures,  \* connections lost so far
  crash      \* a send on a closed channel has panicked

vars == <<clients, sessions, user, socket, queue, closed, reader, writer, msg, todo, to,
          ctxDone, closing, failures, crash>>

NoSession == [state |-> "unused", caller |-> NoOne, callee |-> NoOne]
NoMsg == [type |-> "none", user |-> NoOne, sid |-> NoOne]
Live == {"initiating", "offered", "answered"}

Messages ==
  [type : {"register", "call"}, user : Users, sid : {NoOne}]
  \cup [type : {"offer", "answer", "ice", "hangup"}, user : {NoOne}, sid : Sids]

Init ==
  /\ clients = {} /\ sessions = [s \in Sids |-> NoSession]
  /\ user = [c \in Clients |-> NoOne]
  /\ socket = [c \in Clients |-> "none"]
  /\ queue = [c \in Clients |-> 0] /\ closed = [c \in Clients |-> FALSE]
  /\ reader = [c \in Clients |-> "none"] /\ writer = [c \in Clients |-> "none"]
  /\ msg = [c \in Clients |-> NoMsg]
  /\ todo = [c \in Clients |-> {}] /\ to = [c \in Clients |-> NoOne]
  /\ ctxDone = FALSE /\ closing = "no" /\ failures = 0 /\ crash = FALSE

-----------------------------------------------------------------------------
(* s.mu.  The write lock is taken, used and released in one step, so only  *)
(* its waiters show; as in sync.RWMutex, they keep new readers out.        *)
ReadHolders == {c \in Clients : reader[c] \in {"scan", "send"}}
WriteWaiters == {c \in Clients : reader[c] \in {"arrive", "lock", "cleanup"}}
MayWrite == ReadHolders = {}
MayRead == WriteWaiters = {} /\ closing # "waiting"

(* HandleConnection: upgrade, then the entry in the client map.            *)
Arrive(c) ==
  /\ reader[c] = "none"
  /\ reader' = [reader EXCEPT ![c] = "arrive"]
  /\ socket' = [socket EXCEPT ![c] = "open"]
  /\ UNCHANGED <<clients, sessions, user, queue, closed, writer, msg, todo, to,
                 ctxDone, closing, failures, crash>>

AddClient(c) ==
  /\ reader[c] = "arrive" /\ MayWrite
  /\ clients' = clients \cup {c}
  /\ reader' = [reader EXCEPT ![c] = "idle"]
  /\ writer' = [writer EXCEPT ![c] = "running"]
  /\ UNCHANGED <<sessions, user, socket, queue, closed, msg, todo, to,
                 ctxDone, closing, failures, crash>>

(* Bound: no call is placed that no session id is left for.                *)
SidLeft ==
  Cardinality({d \in Clients : msg[d].type = "call" /\ reader[d] = "lock"})
    < Cardinality({s \in Sids : sessions[s] = NoSession})

(* readMessages: one message from the socket.  An unregistered client's    *)
(* call is dropped; a register is answered on the client's own channel;    *)
(* handleICE only reads the session map, the other handlers write it.      *)
Receive(c) ==
  /\ reader[c] = "idle" /\ socket[c] = "open" /\ ~ctxDone
  /\ \E m \in Messages :
       /\ m.type = "call" => user[c] # NoOne /\ SidLeft
       /\ msg' = [msg EXCEPT ![c] = m]
       /\ reader' = [reader EXCEPT ![c] = CASE m.type = "register" -> "reply"
                                            [] m.type = "ice"      -> "lookup"
                                            [] OTHER               -> "lock"]
       /\ user' = IF m.type = "register" THEN [user EXCEPT ![c] = m.user] ELSE user
  /\ UNCHANGED <<clients, sessions, socket, queue, closed, writer, todo, to,
                 ctxDone, closing, failures, crash>>

(* A handler goes on at l, or returns: its message is then out of scope.   *)
Goto(c, l) == reader' = [reader EXCEPT ![c] = l] /\ UNCHANGED msg
Return(c) == reader' = [reader EXCEPT ![c] = "idle"] /\ msg' = [msg EXCEPT ![c] = NoMsg]

(* handleRegister's confirmation, sent with no lock held. *)
Reply(c) ==
  /\ reader[c] = "reply"
  /\ queue[c] < SendCap
  /\ queue' = [queue EXCEPT ![c] = @ + 1]
  /\ Return(c)
  /\ UNCHANGED <<clients, sessions, user, socket, closed, writer, todo, to,
                 ctxDone, closing, failures, crash>>

-----------------------------------------------------------------------------
(* The locked part of a handler: a call opens a session; an offer and an   *)
(* answer set the state of a live one whatever it was; a hangup deletes it *)
(* and, finding none, returns without forwarding.                          *)
OpenSession(c, s) ==
  /\ msg[c].type = "call"
  /\ sessions[s] = NoSession
  /\ \E caller \in Users :
       sessions' = [sessions EXCEPT ![s] =
                      [state |-> "initiating", caller |-> caller, callee |-> msg[c].user]]
  /\ msg' = [msg EXCEPT ![c].sid = s]
  /\ reader' = [reader EXCEPT ![c] = "rlock"]

UpdateSession(c, s) ==
  /\ msg[c].type \in {"offer", "answer"} /\ msg[c].sid = s
  /\ IF sessions[s].state \in Live
       THEN /\ sessions' = [sessions EXCEPT ![s].state =
                              IF msg[c].type = "offer" THEN "offered" ELSE "answered"]
            /\ Goto(c, "rlock")
       ELSE Return(c) /\ UNCHANGED sessions

EndSession(c, s) ==
  /\ msg[c].type = "hangup" /\ msg[c].sid = s
  /\ IF sessions[s].state \in Live
       THEN /\ sessions' = [sessions EXCEPT ![s].state = "ended"]
            /\ Goto(c, "rlock")
       ELSE Return(c) /\ UNCHANGED sessions

Locked(c) ==
  /\ reader[c] = "lock" /\ MayWrite
  /\ \E s \in Sids : OpenSession(c, s) \/ UpdateSession(c, s) \/ EndSession(c, s)
  /\ UNCHANGED <<clients, user, socket, queue, closed, writer, todo, to,
                 ctxDone, closing, failures, crash>>

(* handleICE looks its session up under the read lock. *)
Lookup(c) ==
  /\ reader[c] = "lookup" /\ MayRead
  /\ IF sessions[msg[c].sid].state \in Live THEN Goto(c, "rlock") ELSE Return(c)
  /\ UNCHANGED <<clients, sessions, user, socket, queue, closed, writer, todo, to,
                 ctxDone, closing, failures, crash>>

(* The forwarding loop, over the clients there are once it has the lock.   *)
ReadLock(c) ==
  /\ reader[c] = "rlock" /\ MayRead
  /\ todo' = [todo EXCEPT ![c] = clients]
  /\ reader' = [reader EXCEPT ![c] = "scan"]
  /\ UNCHANGED <<clients, sessions, user, socket, queue, closed, writer, msg, to,
                 ctxDone, closing, failures, crash>>

(* Whom a message is for.  A call, an offer and an ICE candidate go to the *)
(* callee, or the other party; a hangup to every client of either party.   *)
Wanted(c) ==
  LET s == sessions[msg[c].sid]
  IN CASE msg[c].type \in {"call", "offer"} -> {s.callee}
       [] msg[c].type = "answer" -> {s.caller}
       [] msg[c].type = "ice" -> IF user[c] = s.caller THEN {s.callee} ELSE {s.caller}
       [] msg[c].type = "hangup" -> {s.caller, s.callee}
       [] OTHER -> {}

Scan(c) ==
  /\ reader[c] = "scan"
  /\ LET matches == {d \in todo[c] : user[d] \in Wanted(c)} IN
       \/ /\ matches = {}
          /\ Return(c)
          /\ todo' = [todo EXCEPT ![c] = {}]
          /\ UNCHANGED to
       \/ \E d \in matches :
            /\ to' = [to EXCEPT ![c] = d]
            /\ todo' = [todo EXCEPT ![c] = IF msg[c].type = "hangup" THEN @ \ {d} ELSE {}]
            /\ Goto(c, "send")
  /\ UNCHANGED <<clients, sessions, user, socket, queue, closed, writer,
                 ctxDone, closing, failures, crash>>

(* c.Send <- message, with the read lock held for as long as it blocks.    *)
Send(c) ==
  /\ reader[c] = "send"
  /\ \/ /\ closed[to[c]]
        /\ crash' = TRUE
        /\ UNCHANGED <<queue, reader, to>>
     \/ /\ ~closed[to[c]] /\ queue[to[c]] < SendCap
        /\ queue' = [queue EXCEPT ![to[c]] = @ + 1]
        /\ reader' = [reader EXCEPT ![c] = "scan"]
        /\ to' = [to EXCEPT ![c] = NoOne]
        /\ UNCHANGED crash
  /\ UNCHANGED <<clients, sessions, user, socket, closed, writer, msg, todo,
                 ctxDone, closing, failures>>

-----------------------------------------------------------------------------
(* The reader ends on a read error or a done context, closes the socket,   *)
(* takes the client off the map under the lock, and only then closes Send. *)
StopReading(c) ==
  /\ reader[c] = "idle" /\ (socket[c] = "closed" \/ ctxDone)
  /\ socket' = [socket EXCEPT ![c] = "closed"]
  /\ reader' = [reader EXCEPT ![c] = "cleanup"]
  /\ UNCHANGED <<clients, sessions, user, queue, closed, writer, msg, todo, to,
                 ctxDone, closing, failures, crash>>

RemoveClientUnlocked(c) ==
  /\ reader[c] = "cleanup"
  /\ clients' = clients \ {c}
  /\ reader' = [reader EXCEPT ![c] = "removed"]
  /\ UNCHANGED <<sessions, user, socket, queue, closed, writer, msg, todo, to,
                 ctxDone, closing, failures, crash>>
RemoveClient(c) ==
  /\ reader[c] = "cleanup" /\ MayWrite
  /\ clients' = clients \ {c}
  /\ reader' = [reader EXCEPT ![c] = "removed"]
  /\ UNCHANGED <<sessions, user, socket, queue, closed, writer, msg, todo, to,
                 ctxDone, closing, failures, crash>>

CloseSend(c) ==
  /\ reader[c] = "removed"
  /\ closed' = [closed EXCEPT ![c] = TRUE]
  /\ reader' = [reader EXCEPT ![c] = "gone"]
  /\ UNCHANGED <<clients, sessions, user, socket, queue, writer, msg, todo, to,
                 ctxDone, closing, failures, crash>>

(* writeMessages: a message written; a write, a ping included, that fails  *)
(* on a closed socket, the channel closed and drained, or the context done.*)
Write(c) ==
  /\ writer[c] = "running" /\ queue[c] > 0 /\ socket[c] = "open"
  /\ queue' = [queue EXCEPT ![c] = @ - 1]
  /\ UNCHANGED <<clients, sessions, user, socket, closed, reader, writer, msg, todo, to,
                 ctxDone, closing, failures, crash>>

StopWritingWhenEmpty(c) ==
  /\ writer[c] = "running"
  /\ queue[c] = 0
  /\ writer' = [writer EXCEPT ![c] = "exited"]
  /\ socket' = [socket EXCEPT ![c] = "closed"]
  /\ UNCHANGED <<clients, sessions, user, queue, closed, reader, msg, todo, to,
                 ctxDone, closing, failures, crash>>
StopWriting(c) ==
  /\ writer[c] = "running"
  /\ \/ /\ socket[c] = "closed"
        /\ \E k \in {0, 1} : k <= queue[c] /\ queue' = [queue EXCEPT ![c] = @ - k]
     \/ /\ ctxDone \/ (closed[c] /\ queue[c] = 0)
        /\ UNCHANGED queue
  /\ writer' = [writer EXCEPT ![c] = "exited"]
  /\ socket' = [socket EXCEPT ![c] = "closed"]
  /\ UNCHANGED <<clients, sessions, user, closed, reader, msg, todo, to,
                 ctxDone, closing, failures, crash>>

(* The peer goes away, or the network does. *)
LoseSocket(c) ==
  /\ socket[c] = "open" /\ reader[c] # "arrive" /\ failures < MaxFailures
  /\ failures' = failures + 1
  /\ socket' = [socket EXCEPT ![c] = "closed"]
  /\ UNCHANGED <<clients, sessions, user, queue, closed, reader, writer, msg, todo, to,
                 ctxDone, closing, crash>>

(* Server.Close: cancel, then every socket of the map closed under the lock.*)
Close ==
  /\ \/ /\ MayClose /\ closing = "no"
        /\ ctxDone' = TRUE /\ closing' = "waiting"
        /\ UNCHANGED socket
     \/ /\ closing = "waiting" /\ MayWrite
        /\ closing' = "done"
        /\ socket' = [c \in Clients |-> IF c \in clients THEN "closed" ELSE socket[c]]
        /\ UNCHANGED ctxDone
  /\ UNCHANGED <<clients, sessions, user, queue, closed, reader, writer, msg, todo, to,
                 failures, crash>>

-----------------------------------------------------------------------------
ReaderStep(c) ==
  \/ AddClient(c) \/ Reply(c) \/ Locked(c) \/ Lookup(c) \/ ReadLock(c) \/ Scan(c) \/ Send(c)
  \/ StopReading(c) \/ RemoveClient(c) \/ CloseSend(c)
WriterStep(c) == Write(c) \/ StopWriting(c)

Next ==
  /\ ~crash
  /\ \/ \E c \in Clients : Arrive(c) \/ Receive(c) \/ ReaderStep(c) \/ WriterStep(c) \/ LoseSocket(c)
     \/ Close

(* Goroutines are scheduled and peers read their sockets.  A reader that   *)
(* waits for the lock gets it if it comes free again and again: RWMutex    *)
(* lets the waiting readers in when a writer leaves and the reverse.       *)
Spec ==
  /\ Init /\ [][Next]_vars
  /\ \A c \in Clients : SF_vars(~crash /\ ReaderStep(c)) /\ WF_vars(~crash /\ WriterStep(c))

-----------------------------------------------------------------------------
TypeOK ==
  /\ clients \subseteq Clients
  /\ sessions \in [Sids -> [state : Live \cup {"unused", "ended"},
                            caller : Users \cup {NoOne}, callee : Users \cup {NoOne}]]
  /\ user \in [Clients -> Users \cup {NoOne}]
  /\ socket \in [Clients -> {"none", "open", "closed"}]
  /\ queue \in [Clients -> 0 .. SendCap]
  /\ closed \in [Clients -> BOOLEAN]
  /\ reader \in [Clients -> {"none", "arrive", "idle", "reply", "lock", "lookup", "rlock",
                             "scan", "send", "cleanup", "removed", "gone"}]
  /\ writer \in [Clients -> {"none", "running", "exited"}]
  /\ msg \in [Clients -> [type : {"none", "register", "call", "offer", "answer", "ice", "hangup"},
                          user : Users \cup {NoOne}, sid : Sids \cup {NoOne}]]
  /\ todo \in [Clients -> SUBSET Clients]
  /\ to \in [Clients -> Clients \cup {NoOne}]
  /\ ctxDone \in BOOLEAN /\ closing \in {"no", "waiting", "done"}
  /\ failures \in 0 .. MaxFailures /\ crash \in BOOLEAN

(* No handler sends on a closed channel: a client leaves the map, under    *)
(* the lock, before its channel is closed, and a forwarding loop holds the *)
(* lock from its look at the map to its last send.                         *)
NoSendOnClosed == ~crash

(* A session is hung up once: of two parties that hang up together, one    *)
(* forwards the hangup and the other finds no session.                     *)
Forwarding(c, s) == reader[c] \in {"rlock", "scan", "send"} /\ msg[c].sid = s
HungUpOnce ==
  \A s \in Sids :
    Cardinality({c \in Clients : Forwarding(c, s) /\ msg[c].type = "hangup"}) <= 1

(* As long as no connection is lost and the server is not closed, every    *)
(* handler ends, although handlers block on the channels of other clients  *)
(* with the lock held.                                                     *)
HandlersFinish ==
  \A c \in Clients :
    reader[c] \notin {"none", "idle", "gone"}
      ~> reader[c] \in {"idle", "gone"} \/ failures > 0 \/ closing # "no"

(* Both parties of a session that is hung up receive the hangup, the ones  *)
(* whose connection is good at least.                                      *)
HangupReachesParties ==
  \A c, d \in Clients :
    reader[c] \in {"scan", "send"} /\ msg[c].type = "hangup" /\ d \in todo[c] /\ user[d] \in Wanted(c)
      ~> d \notin todo[c] \/ socket[d] # "open"

(* What the handlers of several clients share is sound, however they race: *)
(* no channel is written to after it was closed, and no session is hung    *)
(* up twice.                                                               *)
SharedSound == TypeOK /\ NoSendOnClosed /\ HungUpOnce
=============================================================================
