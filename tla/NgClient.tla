------------------------------- MODULE NgClient -------------------------------
(***************************************************************************)
(* The client for RTPengine's control protocol (rtpengine-media/internal/  *)
(* ng/client.go; webrtc-gateway/internal/media has the same code).  Every  *)
(* Send registers a fresh cookie with a channel of one response, writes    *)
(* its datagram and waits; one reader goroutine looks the cookie of each   *)
(* response up and passes it to that channel; Close closes the socket and  *)
(* lets a goroutine close the channels it found registered.                *)
(*                                                                         *)
(* A request is the goroutine that sends it, and its cookie: cookies are   *)
(* 64 random bits.  A datagram is the request it carries or answers.       *)
(* UDP may delay, reorder and duplicate; a datagram that is lost is one    *)
(* that is never delivered.                                                *)
(***************************************************************************)
EXTENDS Naturals, Sequences

CONSTANTS
  Requests,    \* the Sends, each done once
  Nobody,      \* not a request
  MaxCopies    \* bound: responses that arrive once more

Errors == {"timeout", "closed", "failed"}

ASSUME NgAssumption ==
  /\ MaxCopies \in Nat
  /\ Nobody \notin Requests /\ "none" \notin Requests /\ Errors \cap Requests = {}

VARIABLES
  call,         \* where each Send is
  result,       \* what it returns: "none" yet, the request the response is to, or an error
  cookieStore,  \* the requests registered in c.cookieStore
  respCh,       \* the response in each channel, or Nobody
  chClosed,     \* the channels that are closed
  closed,       \* c.closed, and the socket is closed
  closeAll,     \* channels the goroutine of Close has still to close
  reader,       \* readLoop: "read", "lookup", "deliver" or "gone"
  datagram,     \* the response the reader is handling
  requests,     \* request datagrams under way
  responses,    \* response datagrams under way
  executed,     \* requests RTPengine has executed
  copies,       \* responses duplicated so far
  crash         \* a send on a closed channel has panicked

vars == <<call, result, cookieStore, respCh, chClosed, closed, closeAll, reader, datagram,
          requests, responses, executed, copies, crash>>

Init ==
  /\ call = [r \in Requests |-> "idle"] /\ result = [r \in Requests |-> "none"]
  /\ cookieStore = {} /\ respCh = [r \in Requests |-> Nobody] /\ chClosed = {}
  /\ closed = FALSE /\ closeAll = {}
  /\ reader = "read" /\ datagram = Nobody
  /\ requests = {} /\ responses = {} /\ executed = {} /\ copies = 0
  /\ crash = FALSE

-----------------------------------------------------------------------------
(* Send: the cookie is registered unless the client is closed. *)
Register(r) ==
  /\ call[r] = "idle"
  /\ IF closed
       THEN /\ result' = [result EXCEPT ![r] = "closed"]
            /\ call' = [call EXCEPT ![r] = "returned"]
            /\ UNCHANGED cookieStore
       ELSE /\ cookieStore' = cookieStore \cup {r}
            /\ call' = [call EXCEPT ![r] = "registered"]
            /\ UNCHANGED result
  /\ UNCHANGED <<respCh, chClosed, closed, closeAll, reader, datagram,
                 requests, responses, executed, copies, crash>>

(* The socket takes the datagram, or refuses it, as a closed one does. *)
Write(r) ==
  /\ call[r] = "registered"
  /\ \/ /\ ~closed
        /\ requests' = requests \cup {r}
        /\ call' = [call EXCEPT ![r] = "waiting"]
        /\ UNCHANGED result
     \/ /\ result' = [result EXCEPT ![r] = "failed"]
        /\ call' = [call EXCEPT ![r] = "leaving"]
        /\ UNCHANGED requests
  /\ UNCHANGED <<cookieStore, respCh, chClosed, closed, closeAll, reader, datagram,
                 responses, executed, copies, crash>>

(* The select: a response, the channel closed and empty, or the timer. *)
Wait(r) ==
  /\ call[r] = "waiting"
  /\ \/ /\ respCh[r] # Nobody
        /\ result' = [result EXCEPT ![r] = respCh[r]]
        /\ respCh' = [respCh EXCEPT ![r] = Nobody]
     \/ /\ respCh[r] = Nobody /\ r \in chClosed
        /\ result' = [result EXCEPT ![r] = "closed"]
        /\ UNCHANGED respCh
     \/ /\ result' = [result EXCEPT ![r] = "timeout"]
        /\ UNCHANGED respCh
  /\ call' = [call EXCEPT ![r] = "leaving"]
  /\ UNCHANGED <<cookieStore, chClosed, closed, closeAll, reader, datagram,
                 requests, responses, executed, copies, crash>>

(* The deferred delete. *)
LeaveRegistered(r) ==
  /\ call[r] = "leaving"
  /\ call' = [call EXCEPT ![r] = "returned"]
  /\ UNCHANGED <<cookieStore, result, respCh, chClosed, closed, closeAll, reader, datagram,
                 requests, responses, executed, copies, crash>>
Leave(r) ==
  /\ call[r] = "leaving"
  /\ cookieStore' = cookieStore \ {r}
  /\ call' = [call EXCEPT ![r] = "returned"]
  /\ UNCHANGED <<result, respCh, chClosed, closed, closeAll, reader, datagram,
                 requests, responses, executed, copies, crash>>

-----------------------------------------------------------------------------
(* readLoop: a datagram, or the error of the closed socket. *)
Read ==
  /\ reader = "read" /\ ~closed
  /\ \E d \in responses :
       /\ datagram' = d
       /\ \/ responses' = responses \ {d} /\ UNCHANGED copies
          \/ copies < MaxCopies /\ copies' = copies + 1 /\ UNCHANGED responses
  /\ reader' = "lookup"
  /\ UNCHANGED <<call, result, cookieStore, respCh, chClosed, closed, closeAll,
                 requests, executed, crash>>

ReadError ==
  /\ reader = "read" /\ closed
  /\ reader' = "gone"
  /\ UNCHANGED <<call, result, cookieStore, respCh, chClosed, closed, closeAll, datagram,
                 requests, responses, executed, copies, crash>>

(* handleResponse finds the channel under the lock ... *)
Lookup ==
  /\ reader = "lookup"
  /\ IF datagram \in cookieStore
       THEN reader' = "deliver" /\ UNCHANGED datagram
       ELSE reader' = "read" /\ datagram' = Nobody
  /\ UNCHANGED <<call, result, cookieStore, respCh, chClosed, closed, closeAll,
                 requests, responses, executed, copies, crash>>

(* ... and sends without it and without waiting; a full channel keeps what *)
(* it has.                                                                 *)
DeliverWaiting ==
  /\ reader = "deliver"
  /\ respCh[datagram] = Nobody
  /\ respCh' = [respCh EXCEPT ![datagram] = datagram]
  /\ reader' = "read" /\ datagram' = Nobody
  /\ UNCHANGED <<call, result, cookieStore, chClosed, closed, closeAll,
                 requests, responses, executed, copies, crash>>
DeliverToAny ==
  /\ reader = "deliver"
  /\ \E r \in cookieStore : respCh' = [respCh EXCEPT ![r] = datagram]
  /\ reader' = "read" /\ datagram' = Nobody
  /\ UNCHANGED <<call, result, cookieStore, chClosed, closed, closeAll,
                 requests, responses, executed, copies, crash>>
Deliver ==
  /\ reader = "deliver"
  /\ IF datagram \in chClosed
       THEN crash' = TRUE /\ UNCHANGED respCh
       ELSE /\ respCh' = [respCh EXCEPT ![datagram] = IF @ = Nobody THEN datagram ELSE @]
            /\ UNCHANGED crash
  /\ reader' = "read" /\ datagram' = Nobody
  /\ UNCHANGED <<call, result, cookieStore, chClosed, closed, closeAll,
                 requests, responses, executed, copies>>

-----------------------------------------------------------------------------
(* Close, and the goroutine it leaves behind. *)
Close ==
  /\ ~closed
  /\ closed' = TRUE
  /\ closeAll' = cookieStore
  /\ UNCHANGED <<call, result, cookieStore, respCh, chClosed, reader, datagram,
                 requests, responses, executed, copies, crash>>

CloseOne ==
  /\ \E r \in closeAll : chClosed' = chClosed \cup {r} /\ closeAll' = closeAll \ {r}
  /\ UNCHANGED <<call, result, cookieStore, respCh, closed, reader, datagram,
                 requests, responses, executed, copies, crash>>

(* RTPengine executes a request it receives and answers it. *)
Engine ==
  /\ \E r \in requests :
       /\ requests' = requests \ {r}
       /\ executed' = executed \cup {r}
       /\ responses' = responses \cup {r}
  /\ UNCHANGED <<call, result, cookieStore, respCh, chClosed, closed, closeAll, reader, datagram,
                 copies, crash>>

-----------------------------------------------------------------------------
Send(r) == Register(r) \/ Write(r) \/ Wait(r) \/ Leave(r)
ReadLoop == Read \/ ReadError \/ Lookup \/ Deliver

Next ==
  /\ ~crash
  /\ (\E r \in Requests : Send(r)) \/ ReadLoop \/ Close \/ CloseOne \/ Engine

(* Goroutines are scheduled and the timer of a Send runs out; whether a    *)
(* Send is started, a Close called or a datagram arrives is left open.     *)
Spec ==
  /\ Init /\ [][Next]_vars
  /\ \A r \in Requests : WF_vars(~crash /\ call[r] # "idle" /\ Send(r))
  /\ WF_vars(~crash /\ (ReadError \/ Lookup \/ Deliver))

-----------------------------------------------------------------------------
TypeOK ==
  /\ call \in [Requests -> {"idle", "registered", "waiting", "leaving", "returned"}]
  /\ result \in [Requests -> Requests \cup Errors \cup {"none"}]
  /\ cookieStore \subseteq Requests /\ chClosed \subseteq Requests /\ closeAll \subseteq Requests
  /\ respCh \in [Requests -> Requests \cup {Nobody}]
  /\ closed \in BOOLEAN /\ crash \in BOOLEAN
  /\ reader \in {"read", "lookup", "deliver", "gone"}
  /\ datagram \in Requests \cup {Nobody}
  /\ requests \subseteq Requests /\ responses \subseteq Requests /\ executed \subseteq Requests
  /\ copies \in 0 .. MaxCopies

(* Seen from its callers the client is a RequestReply: a Send gets the     *)
(* reply to its own request or an error, and one that has begun returns.   *)
Outcome(r) ==
  CASE result[r] = r -> "ok"
    [] result[r] \in Errors -> "failed"
    [] result[r] = "none" -> IF call[r] = "idle" THEN "none" ELSE "waiting"
    [] OTHER -> "another's reply"
Reply == INSTANCE RequestReply WITH outcome <- [r \in Requests |-> Outcome(r)]
ImplementsRequestReply == Reply!Safety

(* Once all Sends have returned no cookie is left: what arrives late finds *)
(* no channel, and the map does not grow with the requests that failed.    *)
CookiesOfSends ==
  cookieStore = {r \in Requests : call[r] \in {"registered", "waiting", "leaving"}}

(* Nothing hangs: every Send that has begun returns, also when no response *)
(* comes and when the client is closed under it; and the reader gets back  *)
(* to its socket from any response, a second one to a request or one that  *)
(* nobody waits for any more included, and ends once the client is closed. *)
SendsReturn == \A r \in Requests : call[r] # "idle" ~> call[r] = "returned" \/ crash
ReaderGoesOn ==
  /\ reader \in {"lookup", "deliver"} ~> reader \in {"read", "gone"} \/ crash
  /\ closed ~> reader = "gone" \/ crash
NothingHangs == SendsReturn /\ ReaderGoesOn

(* The client's own state: well typed, and no cookie outlives its Send.    *)
CookiesSound == TypeOK /\ CookiesOfSends
=============================================================================
