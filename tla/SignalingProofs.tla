---------------------------- MODULE SignalingProofs ----------------------------
(***************************************************************************)
(* What the handlers of any number of clients share is sound, for every    *)
(* value of the constants of Signaling.                                    *)
(*                                                                         *)
(* NoSendOnClosed is not inductive: that the channel a handler sends to is *)
(* open needs to know that its client is still in the map (Looked), since  *)
(* the handler has held the lock since it looked there, and that a client  *)
(* in the map has not been closed (Open).  HungUpOnce needs to know that a *)
(* session whose hangup is being forwarded has ended (Ended), so that no   *)
(* second handler finds it live.                                           *)
(***************************************************************************)
EXTENDS Signaling, FiniteSetTheorems, TLAPS

Open ==
  \A c \in Clients :
    /\ c \in clients => reader[c] \notin {"none", "arrive", "removed", "gone"}
    /\ closed[c] => reader[c] = "gone"

Looked ==
  \A c \in Clients :
    /\ reader[c] \in {"scan", "send"} => todo[c] \subseteq clients
    /\ reader[c] = "send" => to[c] \in clients

HangingUp(c) == reader[c] \in {"rlock", "scan", "send"} /\ msg[c].type = "hangup"

Ended ==
  \A c \in Clients :
    /\ reader[c] = "lookup" => msg[c].type = "ice"
    /\ HangingUp(c) => /\ msg[c].sid \in Sids
                       /\ sessions[msg[c].sid].state = "ended"

Once ==
  \A c, d \in Clients :
    HangingUp(c) /\ HangingUp(d) /\ msg[c].sid = msg[d].sid => c = d

SignalingInv == TypeOK /\ ~crash /\ Open /\ Looked /\ Ended /\ Once

-----------------------------------------------------------------------------
(* What is left of a session or a message when one field of it is set. *)
SessionType == [state : Live \cup {"unused", "ended"},
                caller : Users \cup {NoOne}, callee : Users \cup {NoOne}]
MsgType == [type : {"none", "register", "call", "offer", "answer", "ice", "hangup"},
            user : Users \cup {NoOne}, sid : Sids \cup {NoOne}]

LEMMA StateSet ==
  ASSUME NEW r \in SessionType, NEW x \in Live \cup {"unused", "ended"}
  PROVE  [r EXCEPT !.state = x] \in SessionType /\ [r EXCEPT !.state = x].state = x
BY DEF SessionType

LEMMA SidSet ==
  ASSUME NEW m \in MsgType, NEW s \in Sids
  PROVE  /\ [m EXCEPT !.sid = s] \in MsgType
         /\ [m EXCEPT !.sid = s].type = m.type /\ [m EXCEPT !.sid = s].sid = s
BY DEF MsgType

LEMMA InitSound == ASSUME SignalingAssumption, Init PROVE SignalingInv
<1>1. TypeOK
  <2>1. sessions \in [Sids -> SessionType]
    BY DEF Init, NoSession, SessionType
  <2>2. msg \in [Clients -> MsgType]
    BY DEF Init, NoMsg, MsgType
  <2>3. queue \in [Clients -> 0 .. SendCap] /\ failures \in 0 .. MaxFailures
    BY DEF Init, SignalingAssumption
  <2> QED  BY <2>1, <2>2, <2>3 DEF Init, TypeOK, SessionType, MsgType
<1>2. ~crash /\ Open /\ Looked  BY DEF Init, Open, Looked
<1>3. Ended /\ Once  BY DEF Init, Ended, Once, HangingUp
<1> QED  BY <1>1, <1>2, <1>3 DEF SignalingInv

LEMMA ArriveSound ==
  ASSUME SignalingAssumption, SignalingInv, NEW c \in Clients, Arrive(c)
  PROVE SignalingInv'
<1> USE DEF SignalingInv, Arrive
<1>1. TypeOK'  BY DEF TypeOK
<1>2. (~crash /\ Open /\ Looked)'  BY DEF Open, Looked, TypeOK
<1>3. (Ended /\ Once)'  BY DEF Ended, Once, HangingUp, TypeOK
<1> QED  BY <1>1, <1>2, <1>3

LEMMA AddClientSound ==
  ASSUME SignalingAssumption, SignalingInv, NEW c \in Clients, AddClient(c)
  PROVE SignalingInv'
<1> USE DEF SignalingInv, AddClient
<1>1. TypeOK'  BY DEF TypeOK
<1>2. (~crash /\ Open /\ Looked)'  BY DEF Open, Looked, TypeOK
<1>3. (Ended /\ Once)'  BY DEF Ended, Once, HangingUp, TypeOK
<1> QED  BY <1>1, <1>2, <1>3

LEMMA ReceiveSound ==
  ASSUME SignalingAssumption, SignalingInv, NEW c \in Clients, Receive(c)
  PROVE SignalingInv'
<1> USE DEF SignalingInv
<1>1. PICK m \in Messages :
        /\ msg' = [msg EXCEPT ![c] = m]
        /\ reader' = [reader EXCEPT ![c] = CASE m.type = "register" -> "reply"
                                             [] m.type = "ice"      -> "lookup"
                                             [] OTHER               -> "lock"]
        /\ user' = IF m.type = "register" THEN [user EXCEPT ![c] = m.user] ELSE user
  BY DEF Receive
<1>2. /\ reader[c] = "idle"
      /\ UNCHANGED <<clients, sessions, socket, queue, closed, writer, todo, to,
                     ctxDone, closing, failures, crash>>
  BY DEF Receive
<1>3. /\ m \in MsgType
      /\ m.type = "register" => m.user \in Users
  BY DEF Messages, MsgType
<1>4. reader'[c] \in {"reply", "lookup", "lock"} /\ (reader'[c] = "lookup" => m.type = "ice")
  BY <1>1, <1>2 DEF TypeOK
<1>5. TypeOK'
  <2>1. reader' \in [Clients -> {"none", "arrive", "idle", "reply", "lock", "lookup", "rlock",
                                 "scan", "send", "cleanup", "removed", "gone"}]
    BY <1>1 DEF TypeOK
  <2>2. msg' \in [Clients -> MsgType]  BY <1>1, <1>3 DEF TypeOK, MsgType
  <2>3. user' \in [Clients -> Users \cup {NoOne}]  BY <1>1, <1>3 DEF TypeOK
  <2> QED  BY <1>2, <2>1, <2>2, <2>3 DEF TypeOK, MsgType
<1>6. \A d \in Clients : d # c => reader'[d] = reader[d] /\ msg'[d] = msg[d]
  BY <1>1 DEF TypeOK
<1>7. msg'[c] = m  BY <1>1 DEF TypeOK
<1>8. (~crash /\ Open /\ Looked)'  BY <1>2, <1>4, <1>6 DEF Open, Looked
<1>9. (Ended /\ Once)'  BY <1>2, <1>4, <1>6, <1>7 DEF Ended, Once, HangingUp
<1> QED  BY <1>5, <1>8, <1>9

LEMMA ReplySound ==
  ASSUME SignalingAssumption, SignalingInv, NEW c \in Clients, Reply(c)
  PROVE SignalingInv'
<1> USE DEF SignalingInv, Reply, Return
<1>1. TypeOK'
  <2>1. queue' \in [Clients -> 0 .. SendCap]  BY DEF TypeOK, SignalingAssumption
  <2>2. msg' \in [Clients -> MsgType]  BY DEF TypeOK, MsgType, NoMsg
  <2> QED  BY <2>1, <2>2 DEF TypeOK, MsgType
<1>2. (~crash /\ Open /\ Looked)'  BY DEF Open, Looked, TypeOK
<1>3. (Ended /\ Once)'  BY DEF Ended, Once, HangingUp, TypeOK
<1> QED  BY <1>1, <1>2, <1>3

LEMMA LockedSound ==
  ASSUME SignalingAssumption, SignalingInv, NEW c \in Clients, Locked(c)
  PROVE SignalingInv'
<1> USE DEF SignalingInv
<1>1. /\ reader[c] = "lock"
      /\ UNCHANGED <<clients, user, socket, queue, closed, writer, todo, to,
                     ctxDone, closing, failures, crash>>
  BY DEF Locked
<1>2. PICK s \in Sids : OpenSession(c, s) \/ UpdateSession(c, s) \/ EndSession(c, s)
  BY DEF Locked
<1>3. /\ reader' \in [Clients -> {"none", "arrive", "idle", "reply", "lock", "lookup", "rlock",
                                  "scan", "send", "cleanup", "removed", "gone"}]
      /\ reader'[c] \in {"rlock", "idle"}
      /\ \A d \in Clients : d # c => reader'[d] = reader[d]
  BY <1>2, ZenonT(40) DEF OpenSession, UpdateSession, EndSession, Goto, Return, TypeOK
<1>4. /\ msg' \in [Clients -> MsgType]
      /\ \A d \in Clients : d # c => msg'[d] = msg[d]
  <2>1. msg \in [Clients -> MsgType] /\ NoMsg \in MsgType  BY DEF TypeOK, MsgType, NoMsg
  <2>2. CASE OpenSession(c, s)
    <3>1. msg' = [msg EXCEPT ![c] = [msg[c] EXCEPT !.sid = s]]  BY <2>2 DEF OpenSession
    <3>2. [msg[c] EXCEPT !.sid = s] \in MsgType  BY <2>1, SidSet
    <3> QED  BY <2>1, <3>1, <3>2
  <2>3. CASE UpdateSession(c, s)  BY <2>1, <2>3 DEF UpdateSession, Goto, Return
  <2>4. CASE EndSession(c, s)  BY <2>1, <2>4 DEF EndSession, Goto, Return
  <2> QED  BY <1>2, <2>2, <2>3, <2>4
<1>5. sessions' \in [Sids -> SessionType]
  <2>1. sessions \in [Sids -> SessionType]  BY DEF TypeOK, SessionType
  <2>2. CASE OpenSession(c, s)  BY <2>2 DEF OpenSession, TypeOK, SessionType, Live
  <2>3. ASSUME NEW x \in Live \cup {"unused", "ended"},
               sessions' = [sessions EXCEPT ![s] = [sessions[s] EXCEPT !.state = x]]
        PROVE  sessions' \in [Sids -> SessionType]
    <3>1. [sessions[s] EXCEPT !.state = x] \in SessionType  BY <2>1, StateSet
    <3> QED  BY <2>1, <2>3, <3>1
  <2>4. CASE UpdateSession(c, s)  BY <2>1, <2>3, <2>4 DEF UpdateSession, Live
  <2>5. CASE EndSession(c, s)  BY <2>1, <2>3, <2>5 DEF EndSession
  <2> QED  BY <1>2, <2>2, <2>4, <2>5
<1>6. TypeOK'  BY <1>1, <1>3, <1>4, <1>5 DEF TypeOK, SessionType, MsgType
<1>7. (~crash /\ Open /\ Looked)'  BY <1>1, <1>3 DEF Open, Looked
<1>8. \A t \in Sids : sessions[t].state = "ended" => sessions'[t] = sessions[t]
  BY <1>2 DEF OpenSession, UpdateSession, EndSession, TypeOK, Live, NoSession
<1>9. HangingUp(c)' => /\ msg'[c].sid = s
                       /\ sessions[s].state \in Live /\ sessions'[s].state = "ended"
  <2>1. CASE OpenSession(c, s)  BY <2>1 DEF OpenSession, HangingUp, TypeOK
  <2>2. CASE UpdateSession(c, s)
    BY <2>2 DEF UpdateSession, HangingUp, Goto, Return, TypeOK, NoMsg
  <2>3. CASE EndSession(c, s)
    BY <2>3 DEF EndSession, HangingUp, Goto, Return, TypeOK, NoMsg
  <2> QED  BY <1>2, <2>1, <2>2, <2>3
<1>10. \A d \in Clients : d # c => (HangingUp(d)' <=> HangingUp(d))
  BY <1>3, <1>4 DEF HangingUp
<1>11. Ended'
  <2> SUFFICES ASSUME NEW d \in Clients
               PROVE  /\ reader'[d] = "lookup" => msg'[d].type = "ice"
                      /\ HangingUp(d)' => /\ msg'[d].sid \in Sids
                                          /\ sessions'[msg'[d].sid].state = "ended"
    BY DEF Ended
  <2>1. CASE d = c  BY <1>3, <1>9, <2>1
  <2>2. CASE d # c  BY <1>3, <1>4, <1>8, <1>10, <2>2 DEF Ended
  <2> QED  BY <2>1, <2>2
<1>12. Once'
  <2> SUFFICES ASSUME NEW d \in Clients, d # c, HangingUp(c)', HangingUp(d)',
                      msg'[c].sid = msg'[d].sid
               PROVE  FALSE
    BY <1>4, <1>10 DEF Once
  <2>1. sessions[msg[d].sid].state = "ended"  BY <1>10 DEF Ended
  <2>2. msg[d].sid = s  BY <1>4, <1>9
  <2> QED  BY <1>9, <2>1, <2>2 DEF Live
<1> QED  BY <1>6, <1>7, <1>11, <1>12

LEMMA LookupSound ==
  ASSUME SignalingAssumption, SignalingInv, NEW c \in Clients, Lookup(c)
  PROVE SignalingInv'
<1> USE DEF SignalingInv
<1>1. /\ reader[c] = "lookup"
      /\ UNCHANGED <<clients, sessions, user, socket, queue, closed, writer, todo, to,
                     ctxDone, closing, failures, crash>>
  BY DEF Lookup
<1>2. \/ reader' = [reader EXCEPT ![c] = "rlock"] /\ UNCHANGED msg
      \/ reader' = [reader EXCEPT ![c] = "idle"] /\ msg' = [msg EXCEPT ![c] = NoMsg]
  BY DEF Lookup, Goto, Return
<1>3. TypeOK'
  <2>1. msg' \in [Clients -> MsgType]  BY <1>2, SMTT(30) DEF TypeOK, MsgType, NoMsg
  <2>2. reader' \in [Clients -> {"none", "arrive", "idle", "reply", "lock", "lookup", "rlock",
                                 "scan", "send", "cleanup", "removed", "gone"}]
    BY <1>2 DEF TypeOK
  <2> QED  BY <1>1, <2>1, <2>2 DEF TypeOK, MsgType
<1>4. (~crash /\ Open /\ Looked)'  BY <1>1, <1>2 DEF Open, Looked, TypeOK
<1>5. (Ended /\ Once)'  BY <1>1, <1>2, SMTT(30) DEF Ended, Once, HangingUp, TypeOK
<1> QED  BY <1>3, <1>4, <1>5

LEMMA ReadLockSound ==
  ASSUME SignalingAssumption, SignalingInv, NEW c \in Clients, ReadLock(c)
  PROVE SignalingInv'
<1> USE DEF SignalingInv, ReadLock
<1>1. TypeOK'  BY DEF TypeOK
<1>2. (~crash /\ Open /\ Looked)'  BY DEF Open, Looked, TypeOK
<1>3. (Ended /\ Once)'  BY DEF Ended, Once, HangingUp, TypeOK
<1> QED  BY <1>1, <1>2, <1>3

LEMMA ScanSound ==
  ASSUME SignalingAssumption, SignalingInv, NEW c \in Clients, Scan(c)
  PROVE SignalingInv'
<1> USE DEF SignalingInv
<1>1. /\ reader[c] = "scan"
      /\ UNCHANGED <<clients, sessions, user, socket, queue, closed, writer,
                     ctxDone, closing, failures, crash>>
  BY DEF Scan
<1>2. CASE /\ Return(c)
           /\ todo' = [todo EXCEPT ![c] = {}]
           /\ UNCHANGED to
  <2>1. TypeOK'  BY <1>1, <1>2 DEF Return, TypeOK, NoMsg
  <2>2. (~crash /\ Open /\ Looked)'  BY <1>1, <1>2 DEF Return, Open, Looked, TypeOK
  <2>3. (Ended /\ Once)'  BY <1>1, <1>2 DEF Return, Ended, Once, HangingUp, TypeOK
  <2> QED  BY <2>1, <2>2, <2>3
<1>3. CASE \E d \in todo[c] :
             /\ to' = [to EXCEPT ![c] = d]
             /\ todo' = [todo EXCEPT ![c] = IF msg[c].type = "hangup" THEN @ \ {d} ELSE {}]
             /\ Goto(c, "send")
  <2>1. PICK d \in todo[c] :
             /\ to' = [to EXCEPT ![c] = d]
             /\ todo' = [todo EXCEPT ![c] = IF msg[c].type = "hangup" THEN @ \ {d} ELSE {}]
             /\ Goto(c, "send")
    BY <1>3
  <2>2. d \in Clients /\ d \in clients /\ todo[c] \subseteq clients
    BY <1>1 DEF Looked, TypeOK
  <2>3. todo'[c] \subseteq todo[c] /\ todo' \in [Clients -> SUBSET Clients]
    BY <2>1 DEF TypeOK
  <2>4. \A e \in Clients : e # c => todo'[e] = todo[e]  BY <2>1 DEF TypeOK
  <2>5. TypeOK'  BY <1>1, <2>1, <2>2, <2>3 DEF Goto, TypeOK
  <2>6. (~crash /\ Open)'  BY <1>1, <2>1 DEF Goto, Open, TypeOK
  <2>7. Looked'  BY <1>1, <2>1, <2>2, <2>3, <2>4 DEF Goto, Looked, TypeOK
  <2>8. (Ended /\ Once)'  BY <1>1, <2>1 DEF Goto, Ended, Once, HangingUp, TypeOK
  <2> QED  BY <2>5, <2>6, <2>7, <2>8
<1> QED  BY <1>2, <1>3 DEF Scan

LEMMA SendSound ==
  ASSUME SignalingAssumption, SignalingInv, NEW c \in Clients, Send(c)
  PROVE SignalingInv'
<1> USE DEF SignalingInv
<1>1. to[c] \in Clients /\ ~closed[to[c]]
  BY DEF Send, Looked, Open, TypeOK
<1>2. /\ reader[c] = "send" /\ queue[to[c]] < SendCap
      /\ queue' = [queue EXCEPT ![to[c]] = @ + 1]
      /\ reader' = [reader EXCEPT ![c] = "scan"]
      /\ to' = [to EXCEPT ![c] = NoOne]
      /\ UNCHANGED <<clients, sessions, user, socket, closed, writer, msg, todo,
                     ctxDone, closing, failures, crash>>
  BY <1>1 DEF Send
<1>3. queue' \in [Clients -> 0 .. SendCap]
  BY <1>1, <1>2 DEF TypeOK, SignalingAssumption
<1>4. TypeOK'  BY <1>2, <1>3 DEF TypeOK
<1>5. (~crash /\ Open /\ Looked)'  BY <1>2 DEF Open, Looked, TypeOK
<1>6. (Ended /\ Once)'  BY <1>2 DEF Ended, Once, HangingUp, TypeOK
<1> QED  BY <1>4, <1>5, <1>6

LEMMA StopReadingSound ==
  ASSUME SignalingAssumption, SignalingInv, NEW c \in Clients, StopReading(c)
  PROVE SignalingInv'
<1> USE DEF SignalingInv, StopReading
<1>1. TypeOK'  BY DEF TypeOK
<1>2. (~crash /\ Open /\ Looked)'  BY DEF Open, Looked, TypeOK
<1>3. (Ended /\ Once)'  BY DEF Ended, Once, HangingUp, TypeOK
<1> QED  BY <1>1, <1>2, <1>3

(* The lock keeps a client in the map while another's loop is sending. *)
LEMMA RemoveClientSound ==
  ASSUME SignalingAssumption, SignalingInv, NEW c \in Clients, RemoveClient(c)
  PROVE SignalingInv'
<1> USE DEF SignalingInv, RemoveClient
<1>1. TypeOK'  BY DEF TypeOK
<1>2. \A d \in Clients : reader[d] \notin {"scan", "send"}
  BY DEF MayWrite, ReadHolders
<1>3. \A d \in Clients : reader'[d] \notin {"scan", "send"}  BY <1>2 DEF TypeOK
<1>4. (~crash /\ Open)'  BY DEF Open, TypeOK
<1>5. Looked'  BY <1>3 DEF Looked
<1>6. (Ended /\ Once)'  BY DEF Ended, Once, HangingUp, TypeOK
<1> QED  BY <1>1, <1>4, <1>5, <1>6

LEMMA CloseSendSound ==
  ASSUME SignalingAssumption, SignalingInv, NEW c \in Clients, CloseSend(c)
  PROVE SignalingInv'
<1> USE DEF SignalingInv, CloseSend
<1>1. TypeOK'  BY DEF TypeOK
<1>2. (~crash /\ Open /\ Looked)'  BY DEF Open, Looked, TypeOK
<1>3. (Ended /\ Once)'  BY DEF Ended, Once, HangingUp, TypeOK
<1> QED  BY <1>1, <1>2, <1>3

(* The writer, the network and Close leave the readers and the map alone. *)
LEMMA OthersSound ==
  ASSUME SignalingAssumption, SignalingInv, TypeOK',
         UNCHANGED <<clients, sessions, closed, reader, msg, todo, to, crash>>
  PROVE SignalingInv'
<1> USE DEF SignalingInv
<1>1. (~crash /\ Open /\ Looked)'  BY DEF Open, Looked
<1>2. (Ended /\ Once)'  BY DEF Ended, Once, HangingUp
<1> QED  BY <1>1, <1>2

LEMMA WriterSound ==
  ASSUME SignalingAssumption, SignalingInv, NEW c \in Clients, WriterStep(c)
  PROVE SignalingInv'
<1>1. UNCHANGED <<clients, sessions, closed, reader, msg, todo, to, crash>>
  BY DEF WriterStep, Write, StopWriting
<1>2. queue' \in [Clients -> 0 .. SendCap]
  <2>1. CASE Write(c)  BY <2>1 DEF Write, SignalingInv, TypeOK, SignalingAssumption
  <2>2. CASE StopWriting(c)
    BY <2>2 DEF StopWriting, SignalingInv, TypeOK, SignalingAssumption
  <2> QED  BY <2>1, <2>2 DEF WriterStep
<1>3. TypeOK'
  BY <1>1, <1>2, ZenonT(40) DEF WriterStep, Write, StopWriting, SignalingInv, TypeOK
<1> QED  BY <1>1, <1>3, OthersSound

LEMMA LoseSocketSound ==
  ASSUME SignalingAssumption, SignalingInv, NEW c \in Clients, LoseSocket(c)
  PROVE SignalingInv'
<1>1. UNCHANGED <<clients, sessions, closed, reader, msg, todo, to, crash>>  BY DEF LoseSocket
<1>2. TypeOK'  BY DEF LoseSocket, SignalingInv, TypeOK, SignalingAssumption
<1> QED  BY <1>1, <1>2, OthersSound

LEMMA CloseSound ==
  ASSUME SignalingAssumption, SignalingInv, Close PROVE SignalingInv'
<1>1. UNCHANGED <<clients, sessions, closed, reader, msg, todo, to, crash>>  BY DEF Close
<1>2. TypeOK'  BY ZenonT(40) DEF Close, SignalingInv, TypeOK
<1> QED  BY <1>1, <1>2, OthersSound

LEMMA StutterSound ==
  ASSUME SignalingAssumption, SignalingInv, UNCHANGED vars PROVE SignalingInv'
<1>1. TypeOK'  BY DEF vars, SignalingInv, TypeOK
<1> QED  BY <1>1, OthersSound DEF vars

LEMMA StepSound ==
  ASSUME SignalingAssumption, SignalingInv, [Next]_vars PROVE SignalingInv'
<1>1. CASE UNCHANGED vars  BY <1>1, StutterSound
<1>2. CASE Close  BY <1>2, CloseSound
<1>3. ASSUME NEW c \in Clients,
             Arrive(c) \/ Receive(c) \/ ReaderStep(c) \/ WriterStep(c) \/ LoseSocket(c)
      PROVE  SignalingInv'
  BY <1>3, ArriveSound, AddClientSound, ReceiveSound, ReplySound, LockedSound, LookupSound,
     ReadLockSound, ScanSound, SendSound, StopReadingSound, RemoveClientSound, CloseSendSound,
     WriterSound, LoseSocketSound
     DEF ReaderStep
<1> QED  BY <1>1, <1>2, <1>3 DEF Next

-----------------------------------------------------------------------------
(* One handler at most forwards the hangup of a session. *)
LEMMA OnceCounts == ASSUME Once PROVE HungUpOnce
<1> SUFFICES ASSUME NEW s \in Sids
             PROVE  Cardinality({c \in Clients : Forwarding(c, s) /\ msg[c].type = "hangup"}) <= 1
  BY DEF HungUpOnce
<1> DEFINE S == {c \in Clients : Forwarding(c, s) /\ msg[c].type = "hangup"}
<1>1. CASE S = {}  BY <1>1, FS_EmptySet
<1>2. CASE S # {}
  <2>1. PICK c \in S : TRUE  BY <1>2
  <2>2. \A d \in S : d = c  BY <2>1 DEF Once, HangingUp, Forwarding
  <2>3. S = {c}  BY <2>1, <2>2
  <2> HIDE DEF S
  <2>4. Cardinality(S) = 1  BY <2>3, FS_Singleton
  <2> QED  BY <2>4 DEF S
<1> QED  BY <1>1, <1>2

(* No handler of any number of clients sends on a closed channel, and of   *)
(* all that hang up a session one forwards it.                             *)
THEOREM SharedAlwaysSound == Spec => []SharedSound
<1>1. Init => SignalingInv  BY SignalingAssumption, InitSound
<1>2. SignalingInv /\ [Next]_vars => SignalingInv'  BY SignalingAssumption, StepSound
<1>3. SignalingInv => SharedSound
  BY OnceCounts DEF SignalingInv, SharedSound, NoSendOnClosed
<1> QED  BY <1>1, <1>2, <1>3, PTL DEF Spec
=============================================================================
