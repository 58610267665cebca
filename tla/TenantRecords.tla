----------------------------- MODULE TenantRecords -----------------------------
(***************************************************************************)
(* esl-resilience: the call records of many tenants in one database        *)
(* (cdr/tenant_repository.go), with the tables tenants (tenant/repository) *)
(* and, of the manager, each tenant's status.                              *)
(*                                                                         *)
(* A call asks the manager whether the tenant is active and then executes  *)
(* one statement; the tenant may change or leave in between.  The manager  *)
(* and the table tenants are not kept in step by anything.  A record is    *)
(* its channel's, unique among all tenants: creating it again hands it to  *)
(* the tenant that does.  A note (one key here) belongs to the tenant that *)
(* made it first, whoever changes its value.  Creating a record anew       *)
(* clears its times.                                                       *)
(***************************************************************************)
EXTENDS FiniteSets

CONSTANTS RowTenants, RowChannels, Workers, NoCall

VARIABLES
  status,     \* m.tenants: each tenant's status, or "none"
  rows,       \* tenants with a row in the table tenants
  records,    \* tenant_cdr: the row of each channel, or NoCall
  notes,      \* tenant_call_metadata: the row for each record, or NoCall
  job,        \* what each worker is in the middle of: validated, not executed
  shown,      \* history: what GetMetadata returned, as pairs of the reader and the writer
  creators,   \* history: tenants that created the record of a channel
  writers,    \* history: tenants whose updates changed it
  noters      \* history: tenants that added its note

tables == <<rows, records, notes>>
tenantRecordsVars == <<status, tables, job, shown, creators, writers, noters>>

Record == [tenant : RowTenants, ended : BOOLEAN]
Note == [tenant : RowTenants, by : RowTenants]
ASSUME NoCallAssumption == NoCall \notin Record \cup Note

Ops == {"CreateTenantCDR", "UpdateTenantCDR", "AddTenantMetadata", "GetMetadata"}
Free == [op |-> "none"]
NewRecord(t) == [tenant |-> t, ended |-> FALSE]

TenantRecordsInit ==
  /\ status = [t \in RowTenants |-> "none"]
  /\ rows = {} /\ records = [c \in RowChannels |-> NoCall] /\ notes = records
  /\ job = [w \in Workers |-> Free]
  /\ shown = {}
  /\ creators = [c \in RowChannels |-> {}] /\ writers = creators /\ noters = creators

-----------------------------------------------------------------------------
(* The manager: made active, suspended and back, deleted for good.         *)
SetStatus(t, s) ==
  /\ status[t] # "deleted" /\ status[t] # s /\ (status[t] = "none" => s = "active")
  /\ status' = [status EXCEPT ![t] = s]
  /\ UNCHANGED <<tables, job, shown, creators, writers, noters>>

(* The table: a row is made once; it goes only if no record or note refers *)
(* to it.                                                                  *)
StoreTenant(t) ==
  /\ t \notin rows
  /\ rows' = rows \cup {t}
  /\ UNCHANGED <<status, records, notes, job, shown, creators, writers, noters>>
RemoveTenant(t) ==
  /\ t \in rows
  /\ \A c \in RowChannels :
       /\ records[c] # NoCall => records[c].tenant # t
       /\ notes[c] # NoCall => notes[c].tenant # t
  /\ rows' = rows \ {t}
  /\ UNCHANGED <<status, records, notes, job, shown, creators, writers, noters>>

-----------------------------------------------------------------------------
(* ValidateTenantAccess, with which every operation begins.                *)
Validate(w, o, t, c) ==
  /\ job[w].op = "none" /\ status[t] = "active"
  /\ job' = [job EXCEPT ![w] = [op |-> o, tenant |-> t, channel |-> c]]
  /\ UNCHANGED <<status, tables, shown, creators, writers, noters>>

(* The statement does nothing: it failed, or a reference it makes is to no *)
(* row.                                                                    *)
StatementFails(w) ==
  /\ job[w].op # "none"
  /\ job' = [job EXCEPT ![w] = Free]
  /\ UNCHANGED <<status, tables, shown, creators, writers, noters>>

Executes(w, o) == job[w].op = o /\ job' = [job EXCEPT ![w] = Free]

CreateTenantCDR(w) ==
  LET t == job[w].tenant
      c == job[w].channel
  IN /\ Executes(w, "CreateTenantCDR") /\ t \in rows
     /\ records' = [records EXCEPT ![c] = NewRecord(t)]
     /\ creators' = [creators EXCEPT ![c] = @ \cup {t}]
     /\ UNCHANGED <<status, rows, notes, shown, writers, noters>>

UpdateCDRAnyTenant(w) ==
  LET t == job[w].tenant
      c == job[w].channel
  IN /\ Executes(w, "UpdateTenantCDR") /\ records[c] # NoCall
     /\ records' = [records EXCEPT ![c] = [@ EXCEPT !.ended = TRUE]]
     /\ writers' = [writers EXCEPT ![c] = @ \cup {t}]
     /\ UNCHANGED <<status, rows, notes, shown, creators, noters>>
(* WHERE tenant_id and channel_uuid; no such row is no error.              *)
UpdateTenantCDR(w) ==
  LET t == job[w].tenant
      c == job[w].channel
  IN /\ Executes(w, "UpdateTenantCDR") /\ records[c] # NoCall /\ records[c].tenant = t
     /\ records' = [records EXCEPT ![c] = [@ EXCEPT !.ended = TRUE]]
     /\ writers' = [writers EXCEPT ![c] = @ \cup {t}]
     /\ UNCHANGED <<status, rows, notes, shown, creators, noters>>

(* The record need not be the tenant's.                                    *)
AddTenantMetadata(w) ==
  LET t == job[w].tenant
      c == job[w].channel
      note == IF notes[c] = NoCall THEN [tenant |-> t, by |-> t] ELSE [notes[c] EXCEPT !.by = t]
  IN /\ Executes(w, "AddTenantMetadata") /\ t \in rows /\ records[c] # NoCall
     /\ notes' = [notes EXCEPT ![c] = note]
     /\ noters' = [noters EXCEPT ![c] = @ \cup {t}]
     /\ UNCHANGED <<status, rows, records, shown, creators, writers>>

GetMetadata(w) ==
  LET t == job[w].tenant
      c == job[w].channel
  IN /\ Executes(w, "GetMetadata") /\ notes[c] # NoCall /\ notes[c].tenant = t
     /\ shown' = shown \cup {<<c, t, notes[c].by>>}
     /\ UNCHANGED <<status, tables, creators, writers, noters>>

TenantRecordsNext ==
  \/ \E t \in RowTenants :
       \/ \E s \in {"active", "suspended", "deleted"} : SetStatus(t, s)
       \/ StoreTenant(t) \/ RemoveTenant(t)
  \/ \E w \in Workers :
       \/ \E o \in Ops, t \in RowTenants, c \in RowChannels : Validate(w, o, t, c)
       \/ StatementFails(w) \/ CreateTenantCDR(w) \/ UpdateTenantCDR(w) \/ AddTenantMetadata(w) \/ GetMetadata(w)

TenantRecordsSpec == TenantRecordsInit /\ [][TenantRecordsNext]_tenantRecordsVars

-----------------------------------------------------------------------------
TenantRecordsTypeOK ==
  /\ status \in [RowTenants -> {"none", "active", "suspended", "deleted"}]
  /\ rows \subseteq RowTenants
  /\ records \in [RowChannels -> Record \cup {NoCall}]
  /\ notes \in [RowChannels -> Note \cup {NoCall}]
  /\ job \in [Workers -> [op : Ops, tenant : RowTenants, channel : RowChannels] \cup {Free}]
  /\ shown \subseteq RowChannels \X RowTenants \X RowTenants

(* Tenants are kept apart, as far as they are: a record is one of its      *)
(* creators' and only they have changed it; a note is read by the tenant   *)
(* that made it, as one that added it left it; so with one creator and one *)
(* noter nothing of another tenant is seen or changed.  Every record and   *)
(* note has a tenant in the table.                                         *)
TenantsApart ==
  /\ TenantRecordsTypeOK
  /\ \A c \in RowChannels :
       /\ records[c] # NoCall => records[c].tenant \in creators[c] \cap rows
       /\ writers[c] \subseteq creators[c]
       /\ notes[c] # NoCall => /\ records[c] # NoCall
                              /\ notes[c].tenant \in noters[c] \cap rows
                              /\ notes[c].by \in noters[c]
  /\ \A s \in shown : {s[2], s[3]} \subseteq noters[s[1]]
=============================================================================
