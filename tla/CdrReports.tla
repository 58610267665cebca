------------------------------- MODULE CdrReports -------------------------------
(***************************************************************************)
(* multi-tenant-cdr: report templates (reports/templates.go) and reports   *)
(* made from them (reports/generator.go), over the two tables of           *)
(* sql/schema.sql.  A report's row refers to its template, so a template   *)
(* with a report cannot be deleted.                                        *)
(*                                                                         *)
(* A report is made in statements of their own: the template is read, a    *)
(* row "generating" inserted, the file made, and the row updated, whose    *)
(* failure nobody is told of.  Any statement may fail, and the process may *)
(* end between two of them (CrashReports); nothing picks such a row up.    *)
(*                                                                         *)
(* A template is its type; of an update only what becomes of the statement *)
(* is kept.  The schema's columns allow NULL where the scans do not, in    *)
(* templates made elsewhere; CreateTemplate fills them all.                *)
(***************************************************************************)
EXTENDS Naturals, FiniteSets

CONSTANTS
  Templates,     \* ids
  Reports,       \* ids: one for each GenerateReport
  RepTenants,
  NoTemplate

VARIABLES
  templates,     \* report_templates: by id, its tenant and type, or NoTemplate
  reportRows,    \* generated_reports: by id, its tenant, template and status, or NoTemplate
  making,        \* each GenerateReport: where it is and what it has read
  told,          \* what GenerateReport returned: "completed", "failed" or "error"
  files,         \* reports whose file was written
  lost           \* history: reports whose last update failed, or never came

reportTables == <<templates, reportRows>>
reportVars == <<reportTables, making, told, files, lost>>

Types == {"cdr_summary", "billing", "quality"}
ReportKinds == Types \cup {"custom"}       \* a type the generator does not know
Columns == {"name", "description", "template_config", "schedule_config", "output_format"}
Template == [tenant : RepTenants, type : ReportKinds]
ReportRow == [tenant : RepTenants, template : Templates, status : {"generating", "completed", "failed"}]
ASSUME ReportsAssumption == NoTemplate \notin Template \cup ReportRow

Unstarted == [at |-> "idle", tenant |-> NoTemplate, template |-> NoTemplate, type |-> "none"]
Finished == [Unstarted EXCEPT !.at = "done"]
Ends(r) == making' = [making EXCEPT ![r] = Finished]

ReportsInit ==
  /\ templates = [t \in Templates |-> NoTemplate]
  /\ reportRows = [r \in Reports |-> NoTemplate]
  /\ making = [r \in Reports |-> Unstarted]
  /\ told = [r \in Reports |-> "nothing"]
  /\ files = {} /\ lost = {}

-----------------------------------------------------------------------------
CreateTemplate(t, tenant, type) ==
  /\ templates[t] = NoTemplate
  /\ templates' = [templates EXCEPT ![t] = [tenant |-> tenant, type |-> type]]
  /\ UNCHANGED <<reportRows, making, told, files, lost>>

(* One template of each type; one that fails is logged and left out.       *)
CreateDefaultTemplates(tenant, of) ==
  /\ \A type \in Types : templates[of[type]] = NoTemplate
  /\ Cardinality({of[type] : type \in Types}) = Cardinality(Types)
  /\ \E made \in SUBSET Types :
       templates' = [t \in Templates |->
         IF \E type \in made : of[type] = t
         THEN [tenant |-> tenant, type |-> CHOOSE type \in made : of[type] = t]
         ELSE templates[t]]
  /\ UNCHANGED <<reportRows, making, told, files, lost>>

GetTemplate(t) == templates[t]
ListTemplates(tenant, type) ==
  {t \in Templates : /\ templates[t] # NoTemplate /\ templates[t].tenant = tenant
                     /\ type \in {"", templates[t].type}}

(* The walk over the updates is in any order.  A key it does not know      *)
(* leaves a comma behind if a known one came before it, and the statement  *)
(* is wrong; so the same update may pass and fail.                         *)
UpdateTemplate(known, unknown) ==
  IF known = {} THEN {"nothing"}
  ELSE {"updated"} \cup (IF unknown # {} THEN {"error"} ELSE {})

(* The foreign key of generated_reports keeps a template that has reports. *)
Used(t) == \E r \in Reports : reportRows[r] # NoTemplate /\ reportRows[r].template = t
DeleteTemplate(t) ==
  /\ templates[t] # NoTemplate /\ ~Used(t)
  /\ templates' = [templates EXCEPT ![t] = NoTemplate]
  /\ UNCHANGED <<reportRows, making, told, files, lost>>

-----------------------------------------------------------------------------
(* GenerateReport: the tenant need not be the template's.                  *)
getTemplate(r, tenant, t) ==
  /\ making[r].at = "idle"
  /\ IF templates[t] = NoTemplate
     THEN /\ Ends(r) /\ told' = [told EXCEPT ![r] = "error"]
     ELSE /\ making' = [making EXCEPT ![r] =
               [at |-> "read", tenant |-> tenant, template |-> t, type |-> templates[t].type]]
          /\ UNCHANGED told
  /\ UNCHANGED <<reportTables, files, lost>>

(* It fails also when the template is gone.                                *)
insertReportRecord(r) ==
  /\ making[r].at = "read"
  /\ \/ /\ templates[making[r].template] # NoTemplate
        /\ reportRows' = [reportRows EXCEPT ![r] =
             [tenant |-> making[r].tenant, template |-> making[r].template, status |-> "generating"]]
        /\ making' = [making EXCEPT ![r].at = "inserted"]
        /\ UNCHANGED told
     \/ /\ Ends(r) /\ told' = [told EXCEPT ![r] = "error"]
        /\ UNCHANGED reportRows
  /\ UNCHANGED <<templates, files, lost>>

(* The file of a type: its figures may not come, or it cannot be written.  *)
Written(r, type) ==
  /\ making[r].at = "inserted" /\ making[r].type = type
  /\ \/ making' = [making EXCEPT ![r].at = "made"] /\ files' = files \cup {r}
     \/ making' = [making EXCEPT ![r].at = "not made"] /\ UNCHANGED files
  /\ UNCHANGED <<reportTables, told, lost>>
generateCDRSummary(r) == Written(r, "cdr_summary")
generateBillingReport(r) == Written(r, "billing")
generateQualityReport(r) == Written(r, "quality")
Unsupported(r) ==
  /\ making[r].at = "inserted" /\ making[r].type \notin Types
  /\ making' = [making EXCEPT ![r].at = "not made"]
  /\ UNCHANGED <<reportTables, told, files, lost>>

(* The caller is told what the row should say, also when its update fails. *)
Update(r, status, stored) ==
  /\ IF stored
     THEN reportRows' = [reportRows EXCEPT ![r].status = status] /\ UNCHANGED lost
     ELSE lost' = lost \cup {r} /\ UNCHANGED reportRows
  /\ told' = [told EXCEPT ![r] = status]
  /\ Ends(r)
  /\ UNCHANGED <<templates, files>>
updateReportRecord(r) == making[r].at = "made" /\ \E stored \in BOOLEAN : Update(r, "completed", stored)
StatusForAll(r) ==
  /\ making[r].at = "not made"
  /\ \E stored \in BOOLEAN : Update(r, "completed", stored)
updateReportStatus(r) ==
  /\ making[r].at = "not made"
  /\ \E stored \in BOOLEAN : Update(r, "failed", stored)

(* The process ends: no call under way goes on.                            *)
CrashReports ==
  /\ \E r \in Reports : making[r].at \notin {"idle", "done"}
  /\ lost' = lost \cup {r \in Reports : making[r].at \in {"inserted", "made", "not made"}}
  /\ making' = [r \in Reports |-> IF making[r].at = "idle" THEN Unstarted ELSE Finished]
  /\ UNCHANGED <<reportTables, told, files>>

ReportsNext ==
  \/ \E t \in Templates :
       \/ DeleteTemplate(t)
       \/ \E n \in RepTenants : \E k \in ReportKinds : CreateTemplate(t, n, k)
  \/ \E n \in RepTenants, of \in [Types -> Templates] : CreateDefaultTemplates(n, of)
  \/ \E r \in Reports :
       \/ \E n \in RepTenants, t \in Templates : getTemplate(r, n, t)
       \/ insertReportRecord(r) \/ generateCDRSummary(r) \/ generateBillingReport(r)
       \/ generateQualityReport(r) \/ Unsupported(r)
       \/ updateReportRecord(r) \/ updateReportStatus(r)
  \/ CrashReports

ReportsSpec == ReportsInit /\ [][ReportsNext]_reportVars

-----------------------------------------------------------------------------
ReportsTypeOK ==
  /\ templates \in [Templates -> Template \cup {NoTemplate}]
  /\ reportRows \in [Reports -> ReportRow \cup {NoTemplate}]
  /\ \A r \in Reports : making[r].at \in {"idle", "read", "inserted", "made", "not made", "done"}
  /\ told \in [Reports -> {"nothing", "completed", "failed", "error"}]
  /\ files \subseteq Reports /\ lost \subseteq Reports
  /\ \A n \in RepTenants, t \in Templates :
       t \in ListTemplates(n, "") => GetTemplate(t).tenant = n
  /\ UpdateTemplate({"name"}, {}) = {"updated"} /\ UpdateTemplate({}, Columns) = {"nothing"}

(* A row says "completed" only of a report whose file was written, and     *)
(* "failed" only of one that was not; when the call is over it says what   *)
(* the caller was told, and it stays "generating" for good if its last     *)
(* update was lost; and its template is still there.                       *)
ReportsTrue ==
  /\ ReportsTypeOK
  /\ \A r \in Reports : reportRows[r] # NoTemplate =>
       LET s == reportRows[r].status IN
       /\ s = "completed" => r \in files /\ told[r] = "completed"
       /\ s = "failed" => r \notin files /\ told[r] = "failed"
       /\ making[r].at = "done" => (s = "generating" <=> r \in lost)
       /\ templates[reportRows[r].template] # NoTemplate
  /\ \A r \in Reports : told[r] = "completed" => r \in files /\ reportRows[r] # NoTemplate
=============================================================================
