------------------------------ MODULE HealthChecks ------------------------------
(***************************************************************************)
(* esl-resilience: the health checker (monitoring/health_checker.go and    *)
(* health_checks.go) and the circuit breaker it asks (circuit_breaker.go). *)
(*                                                                         *)
(* The checker's lock is a sync.RWMutex: a writer that waits keeps new     *)
(* readers out.  GetStats holds it for reading and asks GetCheckNames,     *)
(* which reads it again: with a writer in between both wait for ever.      *)
(*                                                                         *)
(* The breaker has a lock of its own.  GetCircuitBreakerState lets go of   *)
(* it before it makes a breaker whose time is up half-open, and does not   *)
(* look again.  The checks of the connection, of memory and of the         *)
(* database have no state here and are left out (the last one panics: it   *)
(* takes an int for an int64).                                             *)
(***************************************************************************)
EXTENDS Naturals, FiniteSets

CONSTANTS
  Probes,     \* calls into the monitor: health reports, statistics, changes of checks
  Threshold   \* circuitBreakerThreshold

ASSUME HealthAssumption == Threshold \in Nat \ {0}

VARIABLES
  breaker,    \* circuitBreakerState and circuitBreakerFailures
  timedOut,   \* circuitBreakerTimeout has passed since it opened
  probe,      \* each call: what it is and where
  checks,     \* names in hc.checks
  overtaken,  \* history: the breaker changed between a getter's two locks
  odd         \* history: some report gave a state and a count that do not go together

healthVars == <<breaker, timedOut, probe, checks, overtaken, odd>>

AllChecks == {"circuit_breaker", "extra"}
States == {"closed", "open", "half-open"}

HealthInit ==
  /\ breaker = [state |-> "closed", failures |-> 0] /\ timedOut = FALSE
  /\ probe = [p \in Probes |-> [does |-> "nothing", at |-> "idle", saw |-> "closed"]]
  /\ checks = {"circuit_breaker"}
  /\ overtaken = FALSE
  /\ odd = FALSE

Readers == {p \in Probes : probe[p].at \in {"reading", "setting", "asked"}}
Waiting == {p \in Probes : probe[p].at = "waiting to write"}
Between == {p \in Probes : probe[p].at = "setting"}
At(p, does, at) == probe[p].does = does /\ probe[p].at = at
Go(p, at) == probe' = [probe EXCEPT ![p].at = at]

-----------------------------------------------------------------------------
RecordCircuitBreakerFailure ==
  LET n == breaker.failures + 1 IN
  /\ n <= Threshold + 1                 \* bound: failures counted
  /\ breaker' = [state |-> IF n >= Threshold THEN "open" ELSE breaker.state, failures |-> n]
  /\ timedOut' = IF n >= Threshold THEN FALSE ELSE timedOut
  /\ overtaken' = (overtaken \/ Between # {})
  /\ UNCHANGED <<probe, checks, odd>>
SuccessKeepingCount ==
  /\ breaker' = [breaker EXCEPT !.state = "closed"]
  /\ overtaken' = (overtaken \/ Between # {})
  /\ UNCHANGED <<timedOut, probe, checks, odd>>
RecordCircuitBreakerSuccess ==
  /\ breaker' = [state |-> "closed", failures |-> 0]
  /\ overtaken' = (overtaken \/ Between # {})
  /\ UNCHANGED <<timedOut, probe, checks, odd>>
TimeOut ==
  /\ breaker.state = "open" /\ timedOut' = TRUE
  /\ UNCHANGED <<breaker, probe, checks, overtaken, odd>>

-----------------------------------------------------------------------------
(* CheckAll and GetStats take the checker's lock for reading if no writer  *)
(* has it or waits for it.                                                 *)
StartReading(p, does) ==
  /\ probe[p].at = "idle" /\ Waiting = {}
  /\ does = "check" => "circuit_breaker" \in checks
  /\ probe' = [probe EXCEPT ![p].does = does, ![p].at = "reading"]
  /\ UNCHANGED <<breaker, timedOut, checks, overtaken, odd>>
StartWriting(p, does) ==
  /\ probe[p].at = "idle"
  /\ probe' = [probe EXCEPT ![p].does = does, ![p].at = "waiting to write"]
  /\ UNCHANGED <<breaker, timedOut, checks, overtaken, odd>>

(* AddCheck and RemoveCheck.                                               *)
WriteChecks(p) ==
  /\ probe[p].at = "waiting to write" /\ Readers = {}
  /\ checks' = IF probe[p].does = "add" THEN checks \cup {"extra"} ELSE checks \ {"extra"}
  /\ Go(p, "idle")
  /\ UNCHANGED <<breaker, timedOut, overtaken, odd>>

(* GetStats: the second lock, in GetCheckNames.                            *)
GetCheckNames(p) ==
  /\ At(p, "stats", "reading") /\ Waiting = {}
  /\ Go(p, "idle")
  /\ UNCHANGED <<breaker, timedOut, checks, overtaken, odd>>

(* CheckAll, in the breaker's check: GetCircuitBreakerState under the read *)
(* lock; an open breaker whose time is up is set half-open with a lock of  *)
(* its own.                                                                *)
GetState(p) ==
  /\ At(p, "check", "reading")
  /\ LET late == breaker.state = "open" /\ timedOut IN
     probe' = [probe EXCEPT ![p].at = IF late THEN "setting" ELSE "asked", ![p].saw = breaker.state]
  /\ UNCHANGED <<breaker, timedOut, checks, overtaken, odd>>
SetHalfOpen(p) ==
  /\ At(p, "check", "setting")
  /\ breaker' = [breaker EXCEPT !.state = "half-open"]
  /\ probe' = [probe EXCEPT ![p].at = "asked", ![p].saw = "half-open"]
  /\ UNCHANGED <<timedOut, checks, overtaken, odd>>
(* What the state says of the count.                                       *)
Consistent(s, n) == IF s = "closed" THEN n < Threshold ELSE n >= Threshold
(* The failures are read with the lock taken once more; the report is made *)
(* of the two, and the checker's lock goes.                                *)
ReportAgain(p) ==
  /\ At(p, "check", "asked")
  /\ Go(p, IF breaker.state = probe[p].saw THEN "idle" ELSE "reading")
  /\ UNCHANGED <<breaker, timedOut, checks, overtaken, odd>>
Report(p) ==
  /\ At(p, "check", "asked")
  /\ odd' = (odd \/ (/\ ~overtaken /\ breaker.state = probe[p].saw
                     /\ ~Consistent(probe[p].saw, breaker.failures)))
  /\ Go(p, "idle")
  /\ UNCHANGED <<breaker, timedOut, checks, overtaken>>

HealthNext ==
  \/ RecordCircuitBreakerFailure \/ RecordCircuitBreakerSuccess \/ TimeOut
  \/ \E p \in Probes :
       \/ StartReading(p, "check") \/ StartReading(p, "stats")
       \/ StartWriting(p, "add") \/ StartWriting(p, "remove") \/ WriteChecks(p)
       \/ GetCheckNames(p) \/ GetState(p) \/ SetHalfOpen(p) \/ Report(p)

(* A call under way goes on as far as the locks let it.                    *)
Proceeds(p) ==
  WriteChecks(p) \/ GetCheckNames(p) \/ GetState(p) \/ SetHalfOpen(p) \/ Report(p)
HealthSpec == HealthInit /\ [][HealthNext]_healthVars /\ \A p \in Probes : WF_healthVars(Proceeds(p))

-----------------------------------------------------------------------------
HealthTypeOK ==
  /\ breaker \in [state : States, failures : 0 .. Threshold + 1]
  /\ timedOut \in BOOLEAN /\ overtaken \in BOOLEAN /\ odd \in BOOLEAN
  /\ probe \in [Probes -> [does : {"nothing", "check", "stats", "add", "remove"},
                 at : {"idle", "reading", "setting", "asked", "waiting to write"}, saw : States]]
  /\ checks \subseteq AllChecks

(* The state and the count say the same unless the breaker changed while a *)
(* getter was between its locks; so does a report, unless the breaker      *)
(* had changed between its readings.                                       *)
BreakerAgrees ==
  /\ HealthTypeOK
  /\ ~overtaken => Consistent(breaker.state, breaker.failures)
  /\ ~odd

(* Every call of the health checker returns, unless a change of checks     *)
(* came while GetStats was between its two locks: then both, and every     *)
(* later call, wait for good.                                              *)
Jammed == Waiting # {} /\ \E p \in Probes : At(p, "stats", "reading")
HealthCallsEnd == \A p \in Probes : probe[p].at # "idle" ~> (probe[p].at = "idle" \/ Jammed)
=============================================================================
