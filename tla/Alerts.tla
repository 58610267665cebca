--------------------------------- MODULE Alerts ---------------------------------
(***************************************************************************)
(* esl-resilience: the alert manager (monitoring/alert_manager.go).        *)
(*                                                                         *)
(* EvaluateAlerts copies the rules that are enabled and takes them one by  *)
(* one: it reads the metric, asks under the lock how long the condition    *)
(* has been true, and raises the alert under the lock once more; rounds    *)
(* may overlap and rules come and go meanwhile.  The time a condition      *)
(* became true is kept by rule: it goes when the rule fires, but neither   *)
(* when the condition ends nor when the rule is removed.                   *)
(*                                                                         *)
(* Time is counted in ticks, up to Duration.  A rule has a metric, which   *)
(* is above its threshold or not; a metric of an unknown name, as all the  *)
(* default rules have, is one that is never above.                         *)
(***************************************************************************)
EXTENDS Naturals, FiniteSets, Sequences

CONSTANTS
  Rules,       \* names of rules
  Evaluators,  \* rounds of EvaluateAlerts that may overlap
  Duration,    \* of every rule, in ticks
  MaxAlerts    \* bound: alerts raised

ASSUME AlertsAssumption == Rules # {} /\ Duration \in Nat \ {0} /\ MaxAlerts \in Nat

VARIABLES
  rules,       \* am.rules: those present
  above,       \* rules whose metric is above the threshold now
  started,     \* am.conditionStartTime: ticks since, up to Duration, or Never
  round,       \* each evaluator: the rules left, and the one it is at
  alerts,      \* am.alerts: rule and status of each alert, in the order of their ids
  sinceFired,  \* history: ticks since the last time the rule was found to fire
  firings,     \* history: how often a rule was found to fire
  hasty        \* history: rules that fired sooner than Duration after the last time

alertsVars == <<rules, above, started, round, alerts, sinceFired, firings, hasty>>

Never == Duration + 1
Ended == [at |-> "idle", left |-> {}, rule |-> CHOOSE r \in Rules : TRUE]
AlertIds == DOMAIN alerts

AlertsInit ==
  /\ rules = {} /\ above = {} /\ started = [r \in Rules |-> Never]
  /\ round = [e \in Evaluators |-> Ended]
  /\ alerts = <<>>
  /\ sinceFired = [r \in Rules |-> Never] /\ firings = [r \in Rules |-> 0] /\ hasty = {}

-----------------------------------------------------------------------------
AddRule(r) ==
  /\ r \notin rules /\ rules' = rules \cup {r}
  /\ UNCHANGED <<above, started, round, alerts, sinceFired, firings, hasty>>
RemoveRule(r) ==
  /\ r \in rules /\ rules' = rules \ {r}
  /\ UNCHANGED <<above, started, round, alerts, sinceFired, firings, hasty>>
Measure(r) ==
  /\ above' = (above \cup {r}) \ (above \cap {r})
  /\ UNCHANGED <<rules, started, round, alerts, sinceFired, firings, hasty>>
Passed(n) == IF n >= Duration THEN n ELSE n + 1
TimePasses ==
  /\ started' = [r \in Rules |-> Passed(started[r])]
  /\ sinceFired' = [r \in Rules |-> Passed(sinceFired[r])]
  /\ UNCHANGED <<rules, above, round, alerts, firings, hasty>>

-----------------------------------------------------------------------------
EvaluateAlerts(e) ==
  /\ round[e].at = "idle" /\ rules # {}
  /\ round' = [round EXCEPT ![e] = [@ EXCEPT !.at = "between", !.left = rules]]
  /\ UNCHANGED <<rules, above, started, alerts, sinceFired, firings, hasty>>

(* The metric of the next rule, read before the lock is taken.             *)
ShouldTrigger(e, r) ==
  LET left == round[e].left \ {r} IN
  /\ round[e].at = "between" /\ r \in round[e].left
  /\ round' = [round EXCEPT ![e] =
       [at |-> IF r \in above THEN "timing" ELSE IF left = {} THEN "idle" ELSE "between",
        left |-> left, rule |-> r]]
  /\ UNCHANGED <<rules, above, started, alerts, sinceFired, firings, hasty>>

Proceed(e, at) == round' = [round EXCEPT ![e].at =
  IF at = "between" /\ round[e].left = {} THEN "idle" ELSE at]
NotedAgain(r) == [started EXCEPT ![r] = IF @ = Never THEN 0 ELSE Duration]
Noted(r) == [started EXCEPT ![r] = IF @ = Never THEN 0 ELSE @]
(* Not long enough, the first time included.                               *)
CheckDuration(e) ==
  LET r == round[e].rule IN
  /\ round[e].at = "timing" /\ started[r] # Duration
  /\ started' = Noted(r)
  /\ Proceed(e, "between")
  /\ UNCHANGED <<rules, above, alerts, sinceFired, firings, hasty>>
Fire(e) ==
  LET r == round[e].rule IN
  /\ round[e].at = "timing" /\ started[r] = Duration
  /\ started' = [started EXCEPT ![r] = Never]
  /\ hasty' = IF sinceFired[r] < Duration THEN hasty \cup {r} ELSE hasty
  /\ sinceFired' = [sinceFired EXCEPT ![r] = 0]
  /\ firings' = [firings EXCEPT ![r] = @ + 1]
  /\ Proceed(e, "raising")
  /\ UNCHANGED <<rules, above, alerts>>

(* The alert is stored; the handlers that are told then are left out.      *)
TriggerAlert(e) ==
  /\ round[e].at = "raising" /\ Len(alerts) < MaxAlerts
  /\ alerts' = Append(alerts, [rule |-> round[e].rule, status |-> "firing"])
  /\ Proceed(e, "between")
  /\ UNCHANGED <<rules, above, started, sinceFired, firings, hasty>>

(* AcknowledgeAlert and ResolveAlert, whatever the status was.             *)
SetAlert(i, s) ==
  /\ alerts' = [alerts EXCEPT ![i].status = s]
  /\ UNCHANGED <<rules, above, started, round, sinceFired, firings, hasty>>

AlertsNext ==
  \/ \E r \in Rules : AddRule(r) \/ RemoveRule(r) \/ Measure(r)
  \/ TimePasses
  \/ \E e \in Evaluators :
       \/ EvaluateAlerts(e) \/ CheckDuration(e) \/ Fire(e) \/ TriggerAlert(e)
       \/ \E r \in Rules : ShouldTrigger(e, r)
  \/ \E i \in AlertIds, s \in {"acknowledged", "resolved"} : SetAlert(i, s)

AlertsSpec == AlertsInit /\ [][AlertsNext]_alertsVars

-----------------------------------------------------------------------------
AlertsTypeOK ==
  /\ rules \subseteq Rules /\ above \subseteq Rules /\ hasty \subseteq Rules
  /\ started \in [Rules -> 0 .. Never] /\ sinceFired \in [Rules -> 0 .. Never]
  /\ round \in [Evaluators -> [at : {"idle", "between", "timing", "raising"},
                               left : SUBSET Rules, rule : Rules]]
  /\ alerts \in Seq([rule : Rules, status : {"firing", "acknowledged", "resolved"}])
  /\ firings \in [Rules -> Nat]

(* A rule fires at most once in its duration, however many rounds overlap  *)
(* and whether it was removed and added in between; and every firing is    *)
(* one alert, which stays whatever becomes of the rule.                    *)
AlertsSpaced ==
  /\ AlertsTypeOK
  /\ hasty = {}
  /\ \A r \in Rules : started[r] # Never => started[r] <= sinceFired[r]
  /\ \A r \in Rules :
       firings[r] = Cardinality({i \in AlertIds : alerts[i].rule = r})
                  + Cardinality({e \in Evaluators : round[e].at = "raising" /\ round[e].rule = r})
=============================================================================
