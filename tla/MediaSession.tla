----------------------------- MODULE MediaSession -----------------------------
(***************************************************************************)
(* The media server of rtpengine-media: its HTTP handlers (cmd/main.go),   *)
(* the session manager (internal/session/manager.go) and the metrics       *)
(* collector (internal/metrics/collector.go).  A handler sends a request   *)
(* to RTPengine, then changes the manager's table, then the collector;     *)
(* between these steps other handlers, the cleanup and the goroutines it   *)
(* starts run.  The ng client between the manager and RTPengine is taken   *)
(* for what RequestReply promises, which NgClient implements.              *)
(*                                                                         *)
(* An operation is one run of Offer, Answer or Delete, or the delete of an *)
(* expired session; a session is named by the Offer that made it.          *)
(***************************************************************************)
EXTENDS Integers, FiniteSets

CONSTANTS
  Ops,        \* operations
  Calls,      \* call ids
  None        \* no session, no call

ASSUME MediaAssumption ==
  /\ None \notin Ops \cup Calls
  /\ IsFiniteSet(Ops)

VARIABLES
  outcome,    \* of the request of each operation, see RequestReply
  carriedOut, \* the operations RTPengine has executed
  verdict,    \* its reply: "none" yet, "ok" or "error"
  engine,     \* the calls RTPengine has a session for
  kind,       \* "offer", "answer", "delete" (a handler's), "expire" or "shutdown"
  onCall,     \* the call an operation is about
  step,       \* "idle", "engine", "manager", "metrics" or "done"
  sessions,   \* m.sessions: the session of each call, or None
  status,     \* session.Status
  due,        \* sessions whose ExpiresAt is past
  expiry,     \* cleanup's goroutine for a session: "none", "started" or "sent"
  metrics,    \* the calls in the collector's map
  active,     \* c.total.ActiveSessions
  closing,    \* m.Close: "no", "deleting" or "done"
  toDelete,   \* the sessions its loop has still to delete
  cleaner,    \* cleanupLoop: "running" or "gone"
  raced       \* history: calls with two operations under way at once

requestVars == <<outcome, carriedOut, verdict, engine>>
opVars == <<kind, onCall, step>>
managerVars == <<sessions, status, due, expiry>>
collectorVars == <<metrics, active>>
closeVars == <<closing, toDelete, cleaner>>
mediaVars == <<requestVars, opVars, managerVars, collectorVars, closeVars, raced>>

Ng == INSTANCE RequestReply WITH Requests <- Ops, executed <- carriedOut

MediaInit ==
  /\ Ng!Init /\ verdict = [o \in Ops |-> "none"] /\ engine = {}
  /\ kind = [o \in Ops |-> "none"] /\ onCall = [o \in Ops |-> None]
  /\ step = [o \in Ops |-> "idle"]
  /\ sessions = [c \in Calls |-> None] /\ status = [o \in Ops |-> "none"]
  /\ due = {} /\ expiry = [o \in Ops |-> "none"]
  /\ metrics = {} /\ active = 0
  /\ closing = "no" /\ toDelete = {} /\ cleaner = "running"
  /\ raced = {}

UnderWay(c) == {o \in Ops : onCall[o] = c /\ step[o] \in {"engine", "manager", "metrics"}}
Started(c) == {s \in Ops : onCall[s] = c /\ expiry[s] = "started"}
Load(c) == Cardinality(UnderWay(c)) + Cardinality(Started(c))
Handlers == {o \in Ops : kind[o] \in {"offer", "answer", "delete"}}
Stored == {c \in Calls : sessions[c] # None}
NoteRaces == raced' = raced \cup {c \in Calls : Load(c)' > 1}

-----------------------------------------------------------------------------
(* An operation goes to the ng client, which refuses once it is closed.    *)
Start(o, k, c) ==
  /\ step[o] = "idle"
  /\ kind' = [kind EXCEPT ![o] = k] /\ onCall' = [onCall EXCEPT ![o] = c]
  /\ IF closing = "done"
       THEN Ng!Refuse(o) /\ step' = [step EXCEPT ![o] = "done"]
       ELSE Ng!Issue(o) /\ step' = [step EXCEPT ![o] = "engine"]
  /\ UNCHANGED <<verdict, engine>>

(* A handler starts; the HTTP server takes no more once it shuts down. *)
Request(o, c) ==
  /\ closing = "no"
  /\ \E k \in {"offer", "answer", "delete"} : Start(o, k, c)
  /\ UNCHANGED <<managerVars, collectorVars, closeVars>>
  /\ NoteRaces

(* RTPengine makes a session for an offer it can use, has none for an      *)
(* answer without an offer, and forgets a call it is told to delete.       *)
Execute(o) ==
  /\ Ng!Execute(o)
  /\ \/ /\ kind[o] = "offer"
        /\ \/ engine' = engine \cup {onCall[o]} /\ verdict' = [verdict EXCEPT ![o] = "ok"]
           \/ verdict' = [verdict EXCEPT ![o] = "error"] /\ UNCHANGED engine
     \/ /\ kind[o] = "answer"
        /\ verdict' = [verdict EXCEPT ![o] = IF onCall[o] \in engine THEN "ok" ELSE "error"]
        /\ UNCHANGED engine
     \/ /\ kind[o] \in {"delete", "expire", "shutdown"}
        /\ verdict' = [verdict EXCEPT ![o] = IF onCall[o] \in engine THEN "ok" ELSE "error"]
        /\ engine' = engine \ {onCall[o]}
  /\ UNCHANGED <<opVars, managerVars, collectorVars, closeVars, raced>>

(* The ng client returns: with RTPengine's reply, or with an error.        *)
Finish(o) ==
  /\ step[o] = "engine"
  /\ Ng!Finish(o)
  /\ step' = [step EXCEPT ![o] =
       IF outcome'[o] = "ok" /\ kind[o] # "expire" THEN "manager" ELSE "done"]
  /\ UNCHANGED <<verdict, engine, kind, onCall, managerVars, collectorVars, closeVars, raced>>

-----------------------------------------------------------------------------
(* Offer: a new session takes the place of any the call had.               *)
StoreOffer(o) ==
  /\ step[o] = "manager" /\ kind[o] = "offer"
  /\ IF verdict[o] = "ok"
       THEN /\ sessions' = [sessions EXCEPT ![onCall[o]] = o]
            /\ status' = [status EXCEPT ![o] = "offered"]
            /\ step' = [step EXCEPT ![o] = "metrics"]
       ELSE /\ step' = [step EXCEPT ![o] = "done"]
            /\ UNCHANGED <<sessions, status>>
  /\ UNCHANGED <<requestVars, kind, onCall, due, expiry, collectorVars, closeVars, raced>>

(* Answer: the session the call has by now becomes active and lives on.    *)
StoreAnswer(o) ==
  /\ step[o] = "manager" /\ kind[o] = "answer"
  /\ IF verdict[o] = "ok" /\ onCall[o] \in Stored
       THEN /\ status' = [status EXCEPT ![sessions[onCall[o]]] = "active"]
            /\ due' = due \ {sessions[onCall[o]]}
       ELSE UNCHANGED <<status, due>>
  /\ step' = [step EXCEPT ![o] = "done"]
  /\ UNCHANGED <<requestVars, kind, onCall, sessions, expiry, collectorVars, closeVars, raced>>

(* Delete: whatever the reply said. *)
StoreDelete(o) ==
  /\ step[o] = "manager" /\ kind[o] \in {"delete", "shutdown"}
  /\ sessions' = [sessions EXCEPT ![onCall[o]] = None]
  /\ step' = [step EXCEPT ![o] = IF kind[o] = "delete" THEN "metrics" ELSE "done"]
  /\ UNCHANGED <<requestVars, kind, onCall, status, due, expiry, collectorVars, closeVars, raced>>

(* The handlers' last step: AddSession and RemoveSession. *)
Count(o) ==
  /\ step[o] = "metrics"
  /\ IF kind[o] = "offer"
       THEN metrics' = metrics \cup {onCall[o]} /\ active' = active + 1
       ELSE metrics' = metrics \ {onCall[o]} /\ active' = active - 1
  /\ step' = [step EXCEPT ![o] = "done"]
  /\ UNCHANGED <<requestVars, kind, onCall, managerVars, closeVars, raced>>

-----------------------------------------------------------------------------
(* Time passes; a session that is replaced or removed no longer counts.    *)
Expire(c) ==
  /\ c \in Stored /\ due' = due \cup {sessions[c]} /\ due' # due
  /\ UNCHANGED <<requestVars, opVars, sessions, status, expiry, collectorVars, closeVars, raced>>

(* cleanup, under the lock: every expired session leaves the table, and a  *)
(* goroutine is to tell RTPengine.                                         *)
CleanupSilent ==
  /\ cleaner = "running"
  /\ \E c \in Stored : sessions[c] \in due
  /\ sessions' = [c \in Calls |-> IF sessions[c] \in due THEN None ELSE sessions[c]]
  /\ UNCHANGED <<requestVars, opVars, status, due, expiry, collectorVars, closeVars, raced>>
Cleanup ==
  /\ cleaner = "running"
  /\ \E c \in Stored : sessions[c] \in due
  /\ sessions' = [c \in Calls |-> IF sessions[c] \in due THEN None ELSE sessions[c]]
  /\ expiry' = [s \in Ops |-> IF \E c \in Calls : sessions[c] = s /\ s \in due
                              THEN "started" ELSE expiry[s]]
  /\ UNCHANGED <<requestVars, opVars, status, due, collectorVars, closeVars>>
  /\ NoteRaces

DeleteExpired(o, s) ==
  /\ expiry[s] = "started"
  /\ Start(o, "expire", onCall[s])
  /\ expiry' = [expiry EXCEPT ![s] = "sent"]
  /\ UNCHANGED <<sessions, status, due, collectorVars, closeVars>>
  /\ NoteRaces

(* Close, once the HTTP server has waited for its handlers: the cleanup    *)
(* loop is told to end, the sessions there are are deleted one after the   *)
(* other, and the ng client is closed.                                     *)
BeginCloseActive ==
  /\ closing = "no"
  /\ \A o \in Handlers : step[o] = "done"
  /\ closing' = "deleting"
  /\ toDelete' = {s \in {sessions[c] : c \in Stored} : status[s] = "active"}
  /\ UNCHANGED <<requestVars, opVars, managerVars, collectorVars, cleaner, raced>>
BeginClose ==
  /\ closing = "no"
  /\ \A o \in Handlers : step[o] = "done"
  /\ closing' = "deleting" /\ toDelete' = {sessions[c] : c \in Stored}
  /\ UNCHANGED <<requestVars, opVars, managerVars, collectorVars, cleaner, raced>>

CloseDelete(o) ==
  /\ closing = "deleting"
  /\ \A p \in Ops : kind[p] = "shutdown" => step[p] = "done"
  /\ \E s \in toDelete : toDelete' = toDelete \ {s} /\ Start(o, "shutdown", onCall[s])
  /\ UNCHANGED <<managerVars, collectorVars, closing, cleaner>>
  /\ NoteRaces

CleanerEnds ==
  /\ closing = "deleting" /\ cleaner = "running"
  /\ cleaner' = "gone"
  /\ UNCHANGED <<requestVars, opVars, managerVars, collectorVars, closing, toDelete, raced>>

EndClose ==
  /\ closing = "deleting" /\ toDelete = {} /\ cleaner = "gone"
  /\ \A p \in Ops : kind[p] = "shutdown" => step[p] = "done"
  /\ closing' = "done"
  /\ UNCHANGED <<requestVars, opVars, managerVars, collectorVars, toDelete, cleaner, raced>>

-----------------------------------------------------------------------------
MediaNext ==
  \/ \E o \in Ops :
       \/ \E c \in Calls : Request(o, c)
       \/ Execute(o) \/ Finish(o)
       \/ StoreOffer(o) \/ StoreAnswer(o) \/ StoreDelete(o) \/ Count(o)
       \/ \E s \in Ops : DeleteExpired(o, s)
       \/ CloseDelete(o)
  \/ \E c \in Calls : Expire(c)
  \/ Cleanup \/ BeginClose \/ CleanerEnds \/ EndClose

MediaSpec == MediaInit /\ [][MediaNext]_mediaVars

-----------------------------------------------------------------------------
(* Types, and where each kind of operation can be. *)
MediaTypes ==
  /\ outcome \in [Ops -> {"none", "waiting", "ok", "failed"}] /\ carriedOut \subseteq Ops
  /\ verdict \in [Ops -> {"none", "ok", "error"}] /\ engine \subseteq Calls
  /\ kind \in [Ops -> {"none", "offer", "answer", "delete", "expire", "shutdown"}]
  /\ onCall \in [Ops -> Calls \cup {None}]
  /\ step \in [Ops -> {"idle", "engine", "manager", "metrics", "done"}]
  /\ sessions \in [Calls -> Ops \cup {None}] /\ status \in [Ops -> {"none", "offered", "active"}]
  /\ due \subseteq Ops /\ expiry \in [Ops -> {"none", "started", "sent"}]
  /\ metrics \subseteq Calls /\ active \in Int
  /\ closing \in {"no", "deleting", "done"} /\ toDelete \subseteq Ops
  /\ cleaner \in {"running", "gone"} /\ raced \subseteq Calls
  /\ \A o \in Ops :
       /\ step[o] = "idle" <=> kind[o] = "none" /\ onCall[o] = None
       /\ step[o] = "manager" => outcome[o] = "ok" /\ kind[o] # "expire"
       /\ step[o] = "metrics" => kind[o] \in {"offer", "delete"}

(* A session in the table is one RTPengine accepted, for the call it is    *)
(* filed under, and cleanup has not taken it out before.                   *)
TableIsSound ==
  \A c \in Stored :
    LET s == sessions[c]
    IN /\ kind[s] = "offer" /\ onCall[s] = c /\ verdict[s] = "ok"
       /\ status[s] # "none" /\ expiry[s] = "none"

(* A call whose operations came one at a time and all got their reply:     *)
(* once none is under way, the manager and RTPengine agree on whether the  *)
(* call has a session, and so does the collector if none of its sessions   *)
(* expired.                                                                *)
Failed == {onCall[o] : o \in {p \in Ops : outcome[p] = "failed"}}
Settled == {c \in Calls : c \notin raced \cup Failed /\ Load(c) = 0}
ViewsAgree ==
  \A c \in Settled :
    /\ c \in engine <=> c \in Stored
    /\ closing = "no" /\ (\A s \in Ops : onCall[s] = c => expiry[s] = "none")
         => (c \in metrics <=> c \in Stored)

(* "Delete all active sessions": after Close a session is left in the      *)
(* table only if RTPengine did not confirm its deletion, and RTPengine has *)
(* one left only if a request about it failed or raced, or the cleanup's   *)
(* goroutine, which Close does not wait for, has yet to ask.               *)
CloseDeletesAll ==
  closing = "done" => /\ Stored \subseteq Failed
                      /\ engine \subseteq Failed \cup raced \cup {c \in Calls : Load(c) > 0}

(* The manager, RTPengine and the collector agree: the table holds only    *)
(* sessions RTPengine accepted, and all three say the same of a call whose *)
(* operations did not overlap or fail.                                     *)
SessionsAgree == MediaTypes /\ TableIsSound /\ ViewsAgree
=============================================================================
