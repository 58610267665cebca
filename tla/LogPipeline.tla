------------------------------ MODULE LogPipeline ------------------------------
(***************************************************************************)
(* esl-resilience: the log aggregator (logging/aggregator.go), its error   *)
(* alerts (processor.go) and the analytics over it (analytics.go).         *)
(*                                                                         *)
(* An entry is logged, the oldest one dropped, the indexes changed and the *)
(* processors run under one lock, so entries pass the alert rules one at a *)
(* time.  Queries take the lock for reading; a health report takes it      *)
(* twice.  A window of alerts ends at the instant it is made: an entry of  *)
(* any later instant starts a new one.                                     *)
(*                                                                         *)
(* A message is the set of words the rules look for.  The clock is only    *)
(* whether an entry comes at the instant of the last one or later; filters *)
(* by time are left out.                                                   *)
(***************************************************************************)
EXTENDS Lists, SequencesExt

CONSTANTS
  LogTenants,
  LogRules,     \* each rule's condition and threshold
  Analysts,     \* callers of GetHealthStatus
  LogSize,      \* bufferSize
  MaxLogs       \* bound: entries logged

Levels == {"error", "info"}
Tags == {"slow"}
Unasked == "any"      \* a filter without a tenant or a level

(* The keys of tenants are UUIDs, those of levels and tags have a prefix.  *)
ASSUME LogAssumption ==
  /\ LogSize \in Nat \ {0} /\ MaxLogs \in Nat
  /\ LogTenants \cap (Levels \cup Tags \cup {Unasked}) = {}

VARIABLES
  entries,      \* la.entries
  index,        \* la.index: by key, entries
  logged,       \* entries so far
  windows,      \* eap.alertWindows: by rule, the entries matched; <<>> also if there is none
  raised,       \* the alerts of the last entry: rules and the entries they were raised for
  analyst,      \* each health report under way: the total it read, whether logs came since
  given         \* the last health report

logVars == <<entries, index, logged, windows, raised, analyst, given>>

Texts == {<<>>, <<"slow", "slow">>}     \* the tags of an entry, repeats included
LogEntry == [id : 1 .. MaxLogs, tenant : LogTenants, level : Levels, tags : Texts,
             failed : BOOLEAN]          \* whether the message names a failure
IndexKeys == LogTenants \cup Levels \cup Tags
KeysOf(e) == <<e.tenant, e.level>> \o e.tags

LogInit ==
  /\ entries = <<>> /\ index = [k \in IndexKeys |-> <<>>] /\ logged = 0
  /\ windows = [r \in LogRules |-> <<>>] /\ raised = {}
  /\ analyst = [a \in Analysts |-> [at |-> "idle", total |-> 0, since |-> 0]]
  /\ given = [total |-> 0, errors |-> 0, since |-> 0]

-----------------------------------------------------------------------------
(* An index holds an entry once for each time its key occurs in it; one of *)
(* them goes for each time the key occurs in the entry that is removed.    *)
Times(x, s) == Cardinality({i \in DOMAIN s : s[i] = x})
addToIndex(idx, e) ==
  [k \in IndexKeys |-> idx[k] \o [i \in 1 .. Times(k, KeysOf(e)) |-> e]]
removeEntryFromSlice(s, e) ==
  IF \E i \in DOMAIN s : s[i].id = e.id
    THEN RemoveAt(s, CHOOSE i \in DOMAIN s : s[i].id = e.id /\ \A j \in 1 .. i - 1 : s[j].id # e.id)
    ELSE s
RemovedTimes(n, s, e) ==
  LET left[i \in 0 .. n] == IF i = 0 THEN s ELSE removeEntryFromSlice(left[i - 1], e)
  IN left[n]
RemoveFromTenantAndLevel(idx, e) ==
  [k \in IndexKeys |-> RemovedTimes(Times(k, <<e.tenant, e.level>>), idx[k], e)]
removeFromIndex(idx, e) ==
  [k \in IndexKeys |-> RemovedTimes(Times(k, KeysOf(e)), idx[k], e)]

evaluateCondition(r, e) == r.condition = "specific_error" => e.failed
(* All matched entries are errors, so any tenant's rate is 100 %.          *)
evaluateAggregation(r, w) ==
  IF r.condition = "tenant_error_rate" THEN w # <<>> /\ r.threshold <= 100
  ELSE Len(w) >= r.threshold
(* The window, new if the last one ended before now, with e if it matches. *)
AlertWindow(r, e, later) ==
  LET w == IF later THEN <<>> ELSE windows[r]
  IN IF evaluateCondition(r, e) THEN Append(w, e) ELSE w

(* An entry: Log with addEntry, Process and triggerAlert.                  *)
addEntry(e, later) ==
  LET full == Len(entries) >= LogSize
      kept == IF full THEN removeFromIndex(index, Head(entries)) ELSE index
      new == [r \in LogRules |-> IF e.level = "error" THEN AlertWindow(r, e, later) ELSE windows[r]]
  IN /\ logged < MaxLogs /\ e.id = logged + 1 /\ (e.failed => e.level = "error")
     /\ logged' = e.id
     /\ entries' = Append(IF full THEN Tail(entries) ELSE entries, e)
     /\ index' = addToIndex(kept, e)
     /\ windows' = new
     /\ raised' = {<<r, new[r]>> : r \in {q \in LogRules : e.level = "error" /\ evaluateAggregation(q, new[q])}}
     /\ analyst' = [a \in Analysts |-> IF analyst[a].at = "idle" THEN analyst[a]
                                       ELSE [analyst[a] EXCEPT !.since = @ + 1]]
     /\ UNCHANGED given

Clear ==
  /\ entries # <<>>
  /\ entries' = <<>> /\ index' = [k \in IndexKeys |-> <<>>]
  /\ UNCHANGED <<logged, windows, raised, analyst, given>>

-----------------------------------------------------------------------------
(* Query: the first filter that is given picks the index; the tenant is    *)
(* not looked at again.                                                    *)
Filter == [tenant : LogTenants \cup {Unasked}, level : Levels \cup {Unasked}, tags : SUBSET Tags]
matchesFilter(e, f) == f.level \in {Unasked, e.level} /\ f.tags \subseteq ToSet(e.tags)
Matching(f) == {e \in LogEntry : matchesFilter(e, f)}
Query(f) ==
  LET candidates == IF f.tenant # Unasked THEN index[f.tenant]
                    ELSE IF f.level # Unasked THEN index[f.level] ELSE entries
  IN Only(candidates, Matching(f))
GetRecentLogs(n) == IF n = 0 \/ n >= Len(entries) THEN entries
                    ELSE SubSeq(entries, Len(entries) - n + 1, Len(entries))
Errors == [tenant |-> Unasked, level |-> "error", tags |-> {}]
(* What GetAnalytics and GetTenantSummary count.                           *)
LogFigures(f) == [total |-> Len(Query(f)),
               errors |-> Len(Only(Query(f), {e \in LogEntry : e.level = "error"}))]

(* GetHealthStatus: GetLogStats, then the errors, with the lock taken again.  *)
GetLogStats(a) ==
  /\ analyst[a].at = "idle"
  /\ analyst' = [analyst EXCEPT ![a] = [at |-> "counted", total |-> Len(entries), since |-> 0]]
  /\ UNCHANGED <<entries, index, logged, windows, raised, given>>
GetHealthStatus(a) ==
  /\ analyst[a].at = "counted"
  /\ given' = [total |-> analyst[a].total, errors |-> Len(Query(Errors)),
               since |-> analyst[a].since]
  /\ analyst' = [analyst EXCEPT ![a].at = "idle", ![a].total = 0, ![a].since = 0]
  /\ UNCHANGED <<entries, index, logged, windows, raised>>

LogNext ==
  \/ \E e \in LogEntry, later \in BOOLEAN : addEntry(e, later)
  \/ Clear
  \/ \E a \in Analysts : GetLogStats(a) \/ GetHealthStatus(a)

LogSpec == LogInit /\ [][LogNext]_logVars

-----------------------------------------------------------------------------
LogTypeOK ==
  /\ entries \in Seq(LogEntry) /\ Len(entries) <= LogSize
  /\ DOMAIN index = IndexKeys /\ \A k \in IndexKeys : index[k] \in Seq(LogEntry)
  /\ logged \in 0 .. MaxLogs
  /\ DOMAIN windows = LogRules /\ \A r \in LogRules : windows[r] \in Seq(LogEntry)
  /\ \A a \in Analysts : analyst[a].at \in {"idle", "counted"}

(* Whatever was dropped or cleared, a query answers from the index what a  *)
(* walk over all the entries would, in the order they were logged; so do   *)
(* the figures made of it; and the recent logs are the last ones.          *)
Walk(f) ==
  Only(entries, {e \in LogEntry : f.tenant \in {Unasked, e.tenant} /\ matchesFilter(e, f)})
QueriesExact ==
  /\ \A f \in Filter : Query(f) = Walk(f) /\ LogFigures(f).errors <= LogFigures(f).total
  /\ \A t \in Tags : ToSet(index[t]) = {e \in ToSet(entries) : t \in ToSet(e.tags)}
  /\ \A n \in 0 .. LogSize : IsSuffix(GetRecentLogs(n), entries)
(* A health report counts more errors than entries only by entries that    *)
(* were logged between its two readings.                                   *)
ReportsBounded == given.errors <= given.total + given.since
(* An alert is raised for errors of one window, as many as its threshold,  *)
(* and for none that its condition does not name.                          *)
AlertsEarned ==
  \A a \in raised : LET r == a[1]  w == a[2] IN
    /\ \A i \in DOMAIN w : w[i].level = "error" /\ evaluateCondition(r, w[i])
    /\ r.condition # "tenant_error_rate" => Len(w) >= r.threshold

LogsAgree == LogTypeOK /\ QueriesExact /\ ReportsBounded /\ AlertsEarned
=============================================================================
