---------------------------- MODULE SipTranslator ----------------------------
(***************************************************************************)
(* The SIP side of the WebRTC gateway (internal/sip/translator.go): calls  *)
(* made by Invite, their INVITE transactions, Answer and Hangup.           *)
(*                                                                         *)
(* A call is one Invite: its session id, the session object, the goroutine *)
(* that sends the INVITE on a socket of its own, and the leg at the far    *)
(* end.  The goroutine keeps the object, the table may have lost it.       *)
(*                                                                         *)
(* The goroutines of Answer and Hangup send one datagram each, under a     *)
(* Call-ID of their own (GenerateCallID), so the far end finds no dialog   *)
(* for it: they have no effect on a leg and are left out, as is the        *)
(* datagram of Register.  SDP and header fields are left out.              *)
(***************************************************************************)
EXTENDS Naturals

CONSTANTS
  Calls,        \* session ids, one for each Invite
  Users,        \* user ids
  Credentials,  \* user name and password
  None          \* no client

ASSUME SipAssumption == None \notin Credentials

VARIABLES
  sessions,  \* t.sessions: the calls that are in the table
  state,     \* State of the session object
  clients,   \* t.clients: the credentials kept for each user
  invite,    \* the goroutine: "none", "sending", "waiting", "acking", "done"
  leg,       \* far end: "none", "ringing", "answered", "confirmed", "refused"
  replies,   \* responses on their way; reading may leave a copy behind
  answers    \* history: the calls Answer was called for

sipVars == <<sessions, state, clients, invite, leg, replies, answers>>

(* 180, 404, 503, ...: whatever is no 200, 486 or 480 is read and ignored. *)
Responses == {"200", "486", "480", "other"}

SipInit ==
  /\ sessions = {} /\ state = [c \in Calls |-> "none"]
  /\ clients = [u \in Users |-> None]
  /\ invite = [c \in Calls |-> "none"] /\ leg = [c \in Calls |-> "none"]
  /\ replies = [c \in Calls |-> {}] /\ answers = {}

-----------------------------------------------------------------------------
Invite(c) ==
  /\ state[c] = "none"
  /\ sessions' = sessions \cup {c}
  /\ state' = [state EXCEPT ![c] = "inviting"]
  /\ invite' = [invite EXCEPT ![c] = "sending"]
  /\ UNCHANGED <<clients, leg, replies, answers>>

(* The INVITE goes out, and may get lost; or the socket cannot be had.     *)
SendInvite(c) ==
  /\ invite[c] = "sending"
  /\ \/ invite' = [invite EXCEPT ![c] = "done"] /\ UNCHANGED leg
     \/ /\ invite' = [invite EXCEPT ![c] = "waiting"]
        /\ leg' \in {leg, [leg EXCEPT ![c] = "ringing"]}
  /\ UNCHANGED <<sessions, state, clients, replies, answers>>

Read(c, r, after) ==
  /\ invite[c] = "waiting" /\ r \in replies[c]
  /\ replies' \in {replies, [replies EXCEPT ![c] = @ \ {r}]}
  /\ invite' = [invite EXCEPT ![c] = after]

(* A 200 is entered in the session that the table has under the id of the  *)
(* call, if it still has one; it is acknowledged in any case.              *)
Read200Object(c) ==
  /\ Read(c, "200", "acking")
  /\ state' = [state EXCEPT ![c] = "answered"]
  /\ UNCHANGED <<sessions, clients, leg, answers>>
Read200Unmarked(c) ==
  /\ Read(c, "200", "acking")
  /\ UNCHANGED <<sessions, state, clients, leg, answers>>
Read200(c) ==
  /\ Read(c, "200", "acking")
  /\ state' = IF c \in sessions THEN [state EXCEPT ![c] = "answered"] ELSE state
  /\ UNCHANGED <<sessions, clients, leg, answers>>

SendAck(c) ==
  /\ invite[c] = "acking"
  /\ invite' = [invite EXCEPT ![c] = "done"]
  /\ leg' \in {leg, [leg EXCEPT ![c] = IF @ = "answered" THEN "confirmed" ELSE @]}
  /\ UNCHANGED <<sessions, state, clients, replies, answers>>

(* A refusal ends the goroutine and leaves the session as it is.           *)
ReadRefusal(c) ==
  /\ \E r \in {"486", "480"} : Read(c, r, "done")
  /\ UNCHANGED <<sessions, state, clients, leg, answers>>

ReadOther(c) ==
  /\ Read(c, "other", "waiting")
  /\ UNCHANGED <<sessions, state, clients, leg, answers>>

(* One deadline of 30 s for all reads, which no response puts off.         *)
ReadTimeout(c) ==
  /\ invite[c] = "waiting"
  /\ invite' = [invite EXCEPT ![c] = "done"]
  /\ UNCHANGED <<sessions, state, clients, leg, replies, answers>>

-----------------------------------------------------------------------------
Answer(c) ==
  /\ c \in sessions
  /\ state' = [state EXCEPT ![c] = "answered"]
  /\ answers' = answers \cup {c}
  /\ UNCHANGED <<sessions, clients, invite, leg, replies>>

Hangup(c) ==
  /\ c \in sessions
  /\ state' = [state EXCEPT ![c] = "terminated"]
  /\ sessions' = sessions \ {c}
  /\ UNCHANGED <<clients, invite, leg, replies, answers>>

(* The credentials of the first registration stay, whatever the server     *)
(* says to the REGISTER that goes out with the new ones.                   *)
Register(u, credentials) ==
  /\ clients' = [clients EXCEPT ![u] = IF @ = None THEN credentials ELSE @]
  /\ UNCHANGED <<sessions, state, invite, leg, replies, answers>>

(* The far end rings, is picked up or refuses; it says so again until it   *)
(* is acknowledged.                                                        *)
FarEnd(c) ==
  /\ \/ leg[c] = "ringing" /\ leg' \in {[leg EXCEPT ![c] = l] : l \in {"ringing", "answered", "refused"}}
     \/ leg[c] \in {"answered", "refused"} /\ UNCHANGED leg
  /\ \E r \in CASE leg'[c] = "answered" -> {"200"}
                [] leg'[c] = "refused" -> {"486", "480", "other"}
                [] OTHER -> {"other"} :
       replies' = [replies EXCEPT ![c] = @ \cup {r}]
  /\ UNCHANGED <<sessions, state, clients, invite, answers>>

SendSIPInvite(c) ==
  SendInvite(c) \/ Read200(c) \/ SendAck(c) \/ ReadRefusal(c) \/ ReadOther(c) \/ ReadTimeout(c)

SipNext ==
  \/ \E c \in Calls : Invite(c) \/ SendSIPInvite(c) \/ Answer(c) \/ Hangup(c) \/ FarEnd(c)
  \/ \E u \in Users, credentials \in Credentials : Register(u, credentials)

SipSpec == SipInit /\ [][SipNext]_sipVars

-----------------------------------------------------------------------------
(* Types; and the table holds the sessions that were not hung up.          *)
SipTypeOK ==
  /\ state \in [Calls -> {"none", "inviting", "answered", "terminated"}]
  /\ sessions = {c \in Calls : state[c] \in {"inviting", "answered"}}
  /\ clients \in [Users -> Credentials \cup {None}]
  /\ invite \in [Calls -> {"none", "sending", "waiting", "acking", "done"}]
  /\ leg \in [Calls -> {"none", "ringing", "answered", "confirmed", "refused"}]
  /\ replies \in [Calls -> SUBSET Responses] /\ answers \subseteq Calls

(* A call that was hung up stays hung up: no answer that comes later, from *)
(* the far end or the user, brings its session back or marks it answered.  *)
StaysHungUp ==
  [][\A c \in Calls : state[c] = "terminated" => state'[c] = "terminated" /\ c \notin sessions']_sipVars

(* The two sides agree on who is talking: a session is answered because    *)
(* its user answered it or the far end did, and a leg is set up only for a *)
(* session that is answered, unless it was hung up meanwhile.              *)
AnswersAgree ==
  /\ SipTypeOK
  /\ \A c \in Calls :
       /\ state[c] = "answered" => c \in answers \/ leg[c] \in {"answered", "confirmed"}
       /\ leg[c] = "confirmed" => state[c] \in {"answered", "terminated"}
=============================================================================
