------------------------------ MODULE CallMetrics ------------------------------
(***************************************************************************)
(* esl-resilience: the call and connection figures of EnhancedMonitor      *)
(* (monitoring/call_tracking.go, connection_tracking.go and                *)
(* sla_monitoring.go).                                                     *)
(*                                                                         *)
(* The gauge of active calls moves before the internal counters do, and    *)
(* those move under a lock; the loop reads them in three goes: total and   *)
(* successful calls under the lock, the times under it again, failed calls *)
(* with no lock at all.  Rates are kept as the two numbers that are        *)
(* divided.  Labels, histograms, tenants and durations are left out; the   *)
(* time of the last connection, which every new call overwrites, is kept   *)
(* as what wrote it.                                                       *)
(***************************************************************************)
EXTENDS Integers, FiniteSets

CONSTANTS MonCalls, MaxChanges

ASSUME MonitorAssumption == MaxChanges \in Nat

VARIABLES
  phase,       \* of each call: what its caller has reported
  gauge,       \* callMetrics.activeCalls
  internal,    \* total, successful and failed calls
  link,        \* connectionStatus, and whether connectionHistory ends connected
  lastTime,    \* what wrote lastConnectionTime: nothing, a connection or a call
  uptimes,     \* spells of uptime added, and those that began with a call
  changes,     \* bound: connection events so far
  loop,        \* updateSLAMetrics: where it is and what it has read
  sla          \* the gauges it has set: pairs of a part and a whole

monitorVars == <<phase, gauge, internal, link, lastTime, uptimes, changes, loop, sla>>

Unset == [part |-> 0, whole |-> 0]
MonitorInit ==
  /\ phase = [c \in MonCalls |-> "none"]
  /\ gauge = 0 /\ internal = [total |-> 0, successful |-> 0, failed |-> 0]
  /\ link = FALSE /\ lastTime = "never" /\ uptimes = [all |-> 0, wrong |-> 0] /\ changes = 0
  /\ loop = [at |-> "waiting", total |-> 0, successful |-> 0]
  /\ sla = [success |-> Unset, error |-> Unset]

In(p) == {c \in MonCalls : phase[c] \in p}
Reports(c, from, to) == phase[c] = from /\ phase' = [phase EXCEPT ![c] = to]

-----------------------------------------------------------------------------
(* RecordCallStart: the gauge, then the total.                             *)
StartGauge(c) ==
  /\ Reports(c, "none", "starting")
  /\ gauge' = gauge + 1
  /\ UNCHANGED <<internal, link, lastTime, uptimes, changes, loop, sla>>
StartCount(c) ==
  /\ Reports(c, "starting", "active")
  /\ internal' = [internal EXCEPT !.total = @ + 1]
  /\ lastTime' = "call"
  /\ UNCHANGED <<gauge, link, uptimes, changes, loop, sla>>

(* RecordCallEnd: the gauge, then one of the two counts.                   *)
EndGauge(c) ==
  /\ Reports(c, "active", "ending")
  /\ gauge' = gauge - 1
  /\ UNCHANGED <<internal, link, lastTime, uptimes, changes, loop, sla>>
EndCountBoth(c, normal) ==
  /\ Reports(c, "ending", "over")
  /\ internal' = [internal EXCEPT !.successful = IF normal THEN @ + 1 ELSE @, !.failed = @ + 1]
  /\ UNCHANGED <<gauge, link, lastTime, uptimes, changes, loop, sla>>
EndCount(c, normal) ==
  /\ Reports(c, "ending", "over")
  /\ internal' = IF normal THEN [internal EXCEPT !.successful = @ + 1]
                 ELSE [internal EXCEPT !.failed = @ + 1]
  /\ UNCHANGED <<gauge, link, lastTime, uptimes, changes, loop, sla>>

(* RecordConnectionEvent.  A disconnect counts the time since lastTime, and *)
(* a second one counts it again.                                           *)
RecordConnectionEvent(connected) ==
  /\ changes < MaxChanges /\ changes' = changes + 1
  /\ link' = connected
  /\ IF connected THEN lastTime' = "connection" /\ UNCHANGED uptimes
     ELSE /\ uptimes' = IF lastTime = "never" THEN uptimes
                        ELSE [all |-> uptimes.all + 1,
                              wrong |-> IF lastTime = "call" \/ ~link THEN uptimes.wrong + 1 ELSE uptimes.wrong]
          /\ UNCHANGED lastTime
  /\ UNCHANGED <<phase, gauge, internal, loop, sla>>

-----------------------------------------------------------------------------
(* updateSLAMetrics, on the ticker.                                        *)
ReadCalls ==
  /\ loop.at = "waiting"
  /\ loop' = [at |-> "read", total |-> internal.total, successful |-> internal.successful]
  /\ sla' = IF internal.total > 0
            THEN [sla EXCEPT !.success = [part |-> internal.successful, whole |-> internal.total]] ELSE sla
  /\ UNCHANGED <<phase, gauge, internal, link, lastTime, uptimes, changes>>
ReadFailed ==
  /\ loop.at = "read"
  /\ loop' = [loop EXCEPT !.at = "waiting"]
  /\ sla' = IF loop.total > 0
            THEN [sla EXCEPT !.error = [part |-> internal.failed, whole |-> loop.total]] ELSE sla
  /\ UNCHANGED <<phase, gauge, internal, link, lastTime, uptimes, changes>>

MonitorNext ==
  \/ \E c \in MonCalls :
       StartGauge(c) \/ StartCount(c) \/ EndGauge(c) \/ \E normal \in BOOLEAN : EndCount(c, normal)
  \/ \E connected \in BOOLEAN : RecordConnectionEvent(connected)
  \/ ReadCalls \/ ReadFailed

MonitorSpec == MonitorInit /\ [][MonitorNext]_monitorVars

-----------------------------------------------------------------------------
MonitorTypeOK ==
  /\ phase \in [MonCalls -> {"none", "starting", "active", "ending", "over"}]
  /\ gauge \in Nat /\ internal \in [total : Nat, successful : Nat, failed : Nat]
  /\ link \in BOOLEAN /\ lastTime \in {"never", "connection", "call"}
  /\ uptimes \in [all : Nat, wrong : Nat] /\ changes \in 0 .. MaxChanges
  /\ loop \in [at : {"waiting", "read"}, total : Nat, successful : Nat]
  /\ sla \in [success : [part : Nat, whole : Nat], error : [part : Nat, whole : Nat]]

(* The figures add up: a call is active, over with one outcome, or on its  *)
(* way between the gauge and the counters; the success rate is of a moment *)
(* and never above one, while the error rate may be, by calls that began   *)
(* and failed between its two readings; and a spell of uptime is a         *)
(* connection's own unless calls or repeated disconnects meddled.          *)
FiguresAgree ==
  /\ MonitorTypeOK
  /\ internal.total = internal.successful + internal.failed
                    + gauge + Cardinality(In({"ending"})) - Cardinality(In({"starting"}))
  /\ sla.success.part <= sla.success.whole
  /\ loop.at = "read" => loop.successful <= loop.total /\ loop.total <= internal.total
  /\ sla.error.part <= internal.total
  /\ uptimes.wrong > 0 => internal.total > 0 \/ changes > 1
=============================================================================
