--------------------------- MODULE MCEslServices ---------------------------
(***************************************************************************)
(* The parts of esl-resilience beside its connection, in one run: each has *)
(* state of its own, and in each behaviour one of them takes the steps, so *)
(* that the states of the run are those of each part, side by side.        *)
(*                                                                         *)
(* The assumption compares Stored and Cuts, which say what processBatch    *)
(* leaves, with its loop, one event at a time.                             *)
(***************************************************************************)
EXTENDS CallRecords, Tenants, TenantRecords, RequestGate, Alerts, CallMetrics,
        HealthChecks, BufferUse

ASSUME StoredIsLoop ==
  \A n \in 0 .. MaxSize, k \in 1 .. BatchCap :
    LET s == [i \in 1 .. n |-> i]
        b == [i \in 1 .. k |-> n + i]
    IN k <= MaxSize => processBatch(s, b) = [events |-> Stored(s, b), dropped |-> Cuts(s, b)]

VARIABLE active     \* the part that takes steps: the parts share nothing

vars == <<active, callRecordsVars, tenantsVars, tenantRecordsVars, gateVars, alertsVars,
          monitorVars, healthVars, bufVars>>

Init ==
  /\ active \in {"records", "tenants", "rows", "gate", "alerts", "metrics", "health",
                "buffer"}
  /\ CallRecordsInit /\ TenantsInit /\ TenantRecordsInit /\ GateInit
  /\ AlertsInit /\ MonitorInit /\ HealthInit /\ BufInit
  /\ active = "records" \/ complete            \* one start of the parts
  /\ active = "gate" \/ limiter = "redis"      \* that take no steps

Next ==
  /\ UNCHANGED active
  /\ \/ active = "records" /\ CallRecordsNext
        /\ UNCHANGED <<tenantsVars, tenantRecordsVars, gateVars, alertsVars, monitorVars,
                       healthVars, bufVars>>
     \/ active = "tenants" /\ TenantsNext
        /\ UNCHANGED <<callRecordsVars, tenantRecordsVars, gateVars, alertsVars,
                       monitorVars, healthVars, bufVars>>
     \/ active = "rows" /\ TenantRecordsNext
        /\ UNCHANGED <<callRecordsVars, tenantsVars, gateVars, alertsVars, monitorVars,
                       healthVars, bufVars>>
     \/ active = "gate" /\ GateNext
        /\ UNCHANGED <<callRecordsVars, tenantsVars, tenantRecordsVars, alertsVars,
                       monitorVars, healthVars, bufVars>>
     \/ active = "alerts" /\ AlertsNext
        /\ UNCHANGED <<callRecordsVars, tenantsVars, tenantRecordsVars, gateVars,
                       monitorVars, healthVars, bufVars>>
     \/ active = "metrics" /\ MonitorNext
        /\ UNCHANGED <<callRecordsVars, tenantsVars, tenantRecordsVars, gateVars,
                       alertsVars, healthVars, bufVars>>
     \/ active = "health" /\ HealthNext
        /\ UNCHANGED <<callRecordsVars, tenantsVars, tenantRecordsVars, gateVars,
                       alertsVars, monitorVars, bufVars>>
     \/ active = "buffer" /\ BufNext
        /\ UNCHANGED <<callRecordsVars, tenantsVars, tenantRecordsVars, gateVars,
                       alertsVars, monitorVars, healthVars>>

(* The parts that do not take the steps have none of these enabled. *)
Spec ==
  /\ Init /\ [][Next]_vars
  /\ \A p \in Probes : WF_healthVars(Proceeds(p))
  /\ WF_bufVars(Alive /\ Receive /\ UNCHANGED <<offered, taken>>)
  /\ WF_bufVars(Alive /\ StoreBatch /\ UNCHANGED <<offered, taken>>)
=============================================================================
