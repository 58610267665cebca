----------------------------- MODULE KamailioRpc -----------------------------
(***************************************************************************)
(* kamailio-router (rpc): the dispatcher and health handlers over one      *)
(* shared KamailioClient and the dispatcher table in PostgreSQL.           *)
(*                                                                         *)
(* An operation changes the table and then tells Kamailio.  k.conn has no  *)
(* lock: every read of it is a step, so handlers dial at once, write on    *)
(* each other's connections and read each other's responses.  The handler  *)
(* that found k.conn nil closes whatever k.conn is when it returns, and    *)
(* nobody sets it to nil again.  There is no deadline.                     *)
(*                                                                         *)
(* Kamailio carries out what it is sent; the text of its answers, which    *)
(* add and remove ignore, is left out, and so are the carrier and route    *)
(* handlers, a statement each on tables that Kamailio reads by itself.     *)
(***************************************************************************)
EXTENDS Naturals

CONSTANTS
  Destinations,
  Operations,   \* requests to the API: each does one operation
  MaxConn       \* bound: connections dialled; 0 is the nil connection

ASSUME KamailioAssumption == MaxConn \in Nat

VARIABLES
  op,          \* the requests
  table,       \* destinations in the dispatcher table
  dispatcher,  \* destinations Kamailio's dispatcher module has
  conn,        \* k.conn
  line,        \* connections: their state and the responses to be read
  failed,      \* history: destinations an operation reported an error for, or never answered
  crossed      \* history: destinations two operations changed at once, or one
               \* whose command was lost while another operation was under way

kamailioVars == <<op, table, dispatcher, conn, line, failed, crossed>>

Kinds == {"add", "remove", "reload", "check"}
OpPlaces == {"new", "asking", "dialling", "writing", "reading", "awaiting", "done"}
Busy(o) == op[o].at \notin {"new", "done"}
Edits(o, d) == op[o].kind \in {"add", "remove"} /\ op[o].dest = d
Conns == 1 .. MaxConn

KamailioInit ==
  /\ op = [o \in Operations |-> [at |-> "new", kind |-> "check", dest |-> "", opener |-> FALSE, on |-> 0]]
  /\ table \in SUBSET Destinations /\ dispatcher = table    \* Kamailio loads the table when it starts
  /\ conn = 0 /\ line = [c \in Conns |-> [is |-> "unused", replies |-> 0]]
  /\ failed = {} /\ crossed = {}

Goto(o, at) == op' = [op EXCEPT ![o].at = at]
(* The handler answers 500, or that the destination is unhealthy;          *)
(* SendCommand's deferred Close has run.                                   *)
Deferred(o) == IF op[o].opener /\ conn # 0 THEN [line EXCEPT ![conn].is = "closed"] ELSE line
Fail(o) ==
  /\ Goto(o, "done")
  /\ line' = Deferred(o)
  /\ failed' = IF op[o].kind \in {"add", "remove"} THEN failed \cup {op[o].dest} ELSE failed

-----------------------------------------------------------------------------
Crossing(o, k, d) ==
  IF k \in {"add", "remove"} /\ \E p \in Operations : Busy(p) /\ Edits(p, d) THEN {d} ELSE {}

Asks(o, k, d) ==
  op' = [op EXCEPT ![o] = [at |-> "asking", kind |-> k, dest |-> d, opener |-> FALSE, on |-> 0]]
(* A change of the table, then Kamailio; the statement may fail, and then  *)
(* Kamailio is not asked.                                                  *)
Changes(o, k, d, changed) ==
  /\ op[o].at = "new"
  /\ \/ Asks(o, k, d) /\ table' = changed /\ UNCHANGED failed
     \/ Goto(o, "done") /\ failed' = failed \cup {d} /\ UNCHANGED table
  /\ crossed' = crossed \cup Crossing(o, k, d)
  /\ UNCHANGED <<dispatcher, conn, line>>
AddDestination(o, d) == Changes(o, "add", d, table \cup {d})
RemoveDestination(o, d) == Changes(o, "remove", d, table \ {d})

(* A reload, and a health check, whose answer goes into a table of its own.*)
ReloadDispatcher(o) ==
  /\ op[o].at = "new" /\ \E d \in Destinations : Asks(o, "reload", d)
  /\ UNCHANGED <<table, dispatcher, conn, line, failed, crossed>>
PerformHealthCheck(o, d) ==
  /\ op[o].at = "new" /\ Asks(o, "check", d)
  /\ UNCHANGED <<table, dispatcher, conn, line, failed, crossed>>

(* SendCommand: the nil check.                                             *)
Check(o) ==
  /\ op[o].at = "asking"
  /\ Goto(o, IF conn = 0 THEN "dialling" ELSE "writing")
  /\ UNCHANGED <<table, dispatcher, conn, line, failed, crossed>>

Connect(o) ==
  /\ op[o].at = "dialling"
  /\ \E c \in Conns :
       /\ line[c].is = "unused" /\ \A b \in Conns : b < c => line[b].is # "unused"
       /\ conn' = c
       /\ line' = [line EXCEPT ![c].is = "open"]
  /\ op' = [op EXCEPT ![o].at = "writing", ![o].opener = TRUE]
  /\ UNCHANGED <<table, dispatcher, failed, crossed>>
ConnectFails(o) ==
  /\ op[o].at = "dialling" /\ Fail(o)
  /\ UNCHANGED <<table, dispatcher, conn, crossed>>

Executed(o) ==
  CASE op[o].kind = "add" -> dispatcher \cup {op[o].dest}
    [] op[o].kind = "remove" -> dispatcher \ {op[o].dest}
    [] op[o].kind = "reload" -> table
    [] OTHER -> dispatcher

(* The command is written to the connection k.conn is by now: it is closed *)
(* or broken, or Kamailio carries it out and answers, or it gets lost with *)
(* the connection.  If it is lost, another's response may still be there   *)
(* for its handler to read.                                                *)
Write(o) ==
  /\ op[o].at = "writing" /\ line[conn].is = "open"
  /\ Goto(o, "reading")
  /\ \/ /\ dispatcher' = Executed(o)
        /\ line' = [line EXCEPT ![conn].replies = @ + 1]
        /\ UNCHANGED crossed
     \/ /\ line' = [line EXCEPT ![conn].is = "broken"]
        /\ crossed' = IF \E p \in Operations \ {o} : Busy(p) THEN crossed \cup {op[o].dest} ELSE crossed
        /\ UNCHANGED dispatcher
  /\ UNCHANGED <<table, conn, failed>>
WriteFailsUnseen(o) ==
  /\ op[o].at = "writing" /\ line[conn].is # "open" /\ Goto(o, "done")
  /\ line' = Deferred(o)
  /\ UNCHANGED <<table, dispatcher, conn, failed, crossed>>
WriteFails(o) ==
  /\ op[o].at = "writing" /\ line[conn].is # "open" /\ Fail(o)
  /\ UNCHANGED <<table, dispatcher, conn, crossed>>

(* The reader is made for the connection k.conn is now, and buffers: what  *)
(* it takes beyond its line nobody else sees.                              *)
StartReading(o) ==
  /\ op[o].at = "reading"
  /\ op' = [op EXCEPT ![o].at = "awaiting", ![o].on = conn]
  /\ UNCHANGED <<table, dispatcher, conn, line, failed, crossed>>
ReadResponse(o) ==
  LET c == op[o].on IN
  /\ op[o].at = "awaiting" /\ line[c].is # "closed" /\ line[c].replies > 0
  /\ \E left \in 0 .. line[c].replies - 1 :
       LET taken == [line EXCEPT ![c].replies = left] IN
       line' = IF op[o].opener THEN [taken EXCEPT ![conn].is = "closed"] ELSE taken
  /\ Goto(o, "done")
  /\ UNCHANGED <<table, dispatcher, conn, failed, crossed>>
ReadFails(o) ==
  LET c == op[o].on IN
  /\ op[o].at = "awaiting"
  /\ \/ line[c].is = "closed"
     \/ line[c].is = "broken" /\ line[c].replies = 0
  /\ Fail(o)
  /\ UNCHANGED <<table, dispatcher, conn, crossed>>

(* The process restarts: what was under way is never answered.             *)
Restart ==
  /\ conn # 0
  /\ op' = [o \in Operations |-> [op[o] EXCEPT !.at = IF @ = "new" THEN "new" ELSE "done"]]
  /\ failed' = failed \cup {d \in Destinations : \E o \in Operations : Busy(o) /\ Edits(o, d)}
  /\ conn' = 0
  /\ line' = [c \in Conns |-> IF line[c].is = "open" THEN [line[c] EXCEPT !.is = "closed"] ELSE line[c]]
  /\ UNCHANGED <<table, dispatcher, crossed>>

KamailioNext ==
  \/ \E o \in Operations :
       \/ \E d \in Destinations :
            AddDestination(o, d) \/ RemoveDestination(o, d) \/ PerformHealthCheck(o, d)
       \/ ReloadDispatcher(o)
       \/ Check(o) \/ Connect(o) \/ ConnectFails(o) \/ Write(o) \/ WriteFails(o)
       \/ StartReading(o) \/ ReadResponse(o) \/ ReadFails(o)
  \/ Restart

KamailioSpec == KamailioInit /\ [][KamailioNext]_kamailioVars

-----------------------------------------------------------------------------
(* Types; and k.conn, once it is set, is a connection that was dialled.    *)
KamailioTypeOK ==
  /\ \A o \in Operations :
       /\ op[o].at \in OpPlaces /\ op[o].kind \in Kinds /\ op[o].opener \in BOOLEAN
       /\ op[o].at \in {"writing", "reading", "awaiting"} => conn # 0
       /\ op[o].at = "awaiting" => op[o].on \in Conns
  /\ table \subseteq Destinations /\ dispatcher \subseteq Destinations
  /\ conn \in 0 .. MaxConn /\ (conn # 0 => line[conn].is # "unused")
  /\ line \in [Conns -> [is : {"unused", "open", "broken", "closed"}, replies : Nat]]
  /\ failed \subseteq Destinations /\ crossed \subseteq Destinations

(* The table and Kamailio agree on a destination that nobody is changing,  *)
(* unless an operation on it ended in an error or not at all, or crossed   *)
(* another: whatever else the handlers do to each other's connection, a    *)
(* 200 means that Kamailio has done what the table says.                   *)
TablesAgree ==
  /\ KamailioTypeOK
  /\ \A d \in Destinations \ (failed \cup crossed) :
       (\A o \in Operations : Edits(o, d) => ~Busy(o)) => (d \in table <=> d \in dispatcher)
=============================================================================
