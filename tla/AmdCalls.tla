------------------------------- MODULE AmdCalls -------------------------------
(***************************************************************************)
(* amd-system: call sessions (internal/call/manager.go), the audio handler *)
(* of cmd/main.go with its calls to the classifier and the router          *)
(* (internal/router/service.go), and the metrics collector.                *)
(*                                                                         *)
(* An audio request records its chunk, asks the classifier over HTTP, and, *)
(* if it is the last one or the answer is confident, completes the session *)
(* and then routes it.  Each of these takes the manager's lock by itself,  *)
(* so requests of one session interleave between them.  Audio, phone       *)
(* numbers, confidences and times are left out: that a session is old      *)
(* enough to be removed is a choice.                                       *)
(***************************************************************************)
EXTENDS Naturals, FiniteSets

CONSTANTS
  AmdSessions,  \* session ids
  Requests,     \* audio requests
  Verdicts,     \* what the classifier answers
  MaxRetry,     \* bound: calls of RecordRetry
  NoSession     \* no session

ASSUME AmdAssumption == MaxRetry \in Nat /\ IsFiniteSet(AmdSessions)

VARIABLES
  session,     \* m.sessions
  request,     \* the audio requests: where each is, its session and the answer it got
  overlapped,  \* history: sessions completed while another request was to route them
  tally,       \* the collector: what GetStats told it, or NoSession between two rounds
  report       \* c.metrics

amdVars == <<session, request, overlapped, tally, report>>

Places == {"new", "classifying", "completing", "routing", "done"}
AmdSession == [chunks : Nat, result : Verdicts \cup {"unknown"}, completed : BOOLEAN,
               routedTo : {"", "agent_queue", "voicemail_drop", "fax_handler", "retry_queue"},
               retries : 0 .. MaxRetry]
ASSUME NoSessionAssumption == NoSession \notin AmdSession
Started == [chunks |-> 0, result |-> "unknown", completed |-> FALSE, routedTo |-> "", retries |-> 0]
Live == {s \in AmdSessions : session[s] # NoSession}
At(s, places) == {q \in Requests : request[q].session = s /\ request[q].at \in places}

AmdInit ==
  /\ session = [s \in AmdSessions |-> NoSession]
  /\ request = [q \in Requests |-> [at |-> "new", session |-> NoSession, verdict |-> "unknown"]]
  /\ overlapped = {}
  /\ tally = NoSession
  /\ report = [total |-> 0, active |-> 0, completed |-> 0, routed |-> 0]

-----------------------------------------------------------------------------
StartSession(s) ==
  /\ session[s] = NoSession
  /\ session' = [session EXCEPT ![s] = Started]
  /\ \A q \in Requests : request[q].session # s      \* ids are random and not used again
  /\ UNCHANGED <<request, overlapped, tally, report>>

(* audioChunkHandler, one step per call it makes.                          *)
RecordAudioChunk(q, s) ==
  /\ request[q].at = "new" /\ s \in Live
  /\ session' = [session EXCEPT ![s].chunks = @ + 1]
  /\ request' = [request EXCEPT ![q] = [at |-> "classifying", session |-> s, verdict |-> @.verdict]]
  /\ UNCHANGED <<overlapped, tally, report>>

(* The classifier answers, or fails within 10 s; the answer decides if the *)
(* request is final or confident.                                          *)
Classify(q, v) ==
  /\ request[q].at = "classifying"
  /\ \E next \in {"completing", "done"} :
       request' = [request EXCEPT ![q] = [at |-> next, session |-> @.session, verdict |-> v]]
  /\ UNCHANGED <<session, overlapped, tally, report>>

(* The handler ignores the error of a session that is gone.                *)
CompleteSession(q) ==
  LET s == request[q].session IN
  /\ request[q].at = "completing"
  /\ IF s \in Live
       THEN session' = [session EXCEPT ![s] = [@ EXCEPT !.result = request[q].verdict, !.completed = TRUE]]
       ELSE UNCHANGED session
  /\ request' = [request EXCEPT ![q].at = "routing"]
  /\ overlapped' = IF At(s, {"routing"}) = {} THEN overlapped ELSE overlapped \cup {s}
  /\ UNCHANGED <<tally, report>>

Destination(verdict) ==
  CASE verdict = "human" -> "agent_queue"
    [] verdict \in {"answering_machine", "beep"} -> "voicemail_drop"
    [] verdict = "fax" -> "fax_handler"
    [] verdict \in {"silence", "unknown"} -> "retry_queue"
    [] OTHER -> ""

RouteOnce(q) ==
  LET s == request[q].session IN
  /\ request[q].at = "routing"
  /\ IF s \in Live /\ session[s].routedTo = ""
       THEN session' = [session EXCEPT ![s].routedTo = Destination(request[q].verdict)]
       ELSE UNCHANGED session
  /\ request' = [request EXCEPT ![q].at = "done"]
  /\ UNCHANGED <<overlapped, tally, report>>
Route(q) ==
  LET s == request[q].session IN
  /\ request[q].at = "routing"
  /\ IF s \in Live
       THEN session' = [session EXCEPT ![s].routedTo = Destination(request[q].verdict)]
       ELSE UNCHANGED session
  /\ request' = [request EXCEPT ![q].at = "done"]
  /\ UNCHANGED <<overlapped, tally, report>>

(* A caller of the router's ShouldRetry that goes on to RecordRetry.       *)
ShouldRetry(s) == session[s].result \in {"unknown", "silence"} /\ session[s].retries < MaxRetry
RecordRetry(s) ==
  /\ s \in Live /\ ShouldRetry(s)
  /\ session' = [session EXCEPT ![s].retries = @ + 1]
  /\ UNCHANGED <<request, overlapped, tally, report>>

(* CleanupOldSessions: completed sessions only, those that are old enough. *)
CleanupOldSessions ==
  /\ \E old \in SUBSET {s \in Live : session[s].completed} :
       old # {} /\ session' = [s \in AmdSessions |-> IF s \in old THEN NoSession ELSE session[s]]
  /\ UNCHANGED <<request, overlapped, tally, report>>

(* collect counts the sessions, and then, under the lock again, goes over  *)
(* the routes.                                                             *)
GetStats ==
  /\ tally = NoSession
  /\ tally' = [total |-> Cardinality(Live),
               completed |-> Cardinality({s \in Live : session[s].completed})]
  /\ UNCHANGED <<session, request, overlapped, report>>
CollectCalls ==
  /\ tally # NoSession
  /\ report' = [total |-> tally.total, completed |-> tally.completed,
                active |-> tally.total - tally.completed,
                routed |-> Cardinality({s \in Live : session[s].routedTo # ""})]
  /\ tally' = NoSession
  /\ UNCHANGED <<session, request, overlapped>>

AmdNext ==
  \/ \E s \in AmdSessions : StartSession(s) \/ RecordRetry(s)
  \/ \E q \in Requests :
       \/ \E s \in AmdSessions : RecordAudioChunk(q, s)
       \/ \E v \in Verdicts : Classify(q, v)
       \/ CompleteSession(q) \/ Route(q)
  \/ CleanupOldSessions
  \/ GetStats \/ CollectCalls

AmdSpec == AmdInit /\ [][AmdNext]_amdVars

-----------------------------------------------------------------------------
AmdTypeOK ==
  /\ session \in [AmdSessions -> AmdSession \cup {NoSession}]
  /\ request \in [Requests -> [at : Places, session : AmdSessions \cup {NoSession},
                               verdict : Verdicts \cup {"unknown"}]]
  /\ overlapped \subseteq AmdSessions
  /\ report.total = report.active + report.completed

(* A call ends up where its result says.  A completed session that no      *)
(* request is about to route is routed by the result it holds, also after  *)
(* a second result replaced the first, provided that no two requests were  *)
(* between completing and routing it at once: then the result may be one's *)
(* and the route the other's.  A session is not routed before it completes.*)
RoutesMatch ==
  /\ AmdTypeOK
  /\ \A s \in Live \ overlapped :
       /\ session[s].completed /\ At(s, {"routing"}) = {} =>
            session[s].routedTo = Destination(session[s].result)
       /\ session[s].routedTo # "" => session[s].completed
=============================================================================
