------------------------------ MODULE DailyFigures ------------------------------
(***************************************************************************)
(* multi-tenant-cdr: the daily figures of a tenant, which a trigger of     *)
(* sql/schema.sql keeps and analytics/engine.go refreshes, and the         *)
(* engine's other answers.                                                 *)
(*                                                                         *)
(* Every statement names one tenant, so there is one tenant here.  The     *)
(* trigger adds to the row of the day in the inserting transaction.  A     *)
(* refresh counts in the snapshot its statement starts with, waits for the *)
(* transactions that hold the row, and then overwrites it.                 *)
(*                                                                         *)
(* The trigger that should create a month's partition fails (it adds an    *)
(* interval to a text), and the insertion with it: only days of the months *)
(* the schema lists get records.  The peak hour, which nothing sets, is    *)
(* NULL, and the engine skips a row it cannot scan.  Durations and costs   *)
(* are left out, and the cache, which is written but never answers.        *)
(***************************************************************************)
EXTENDS Naturals, FiniteSets

CONSTANTS
  Days, Today,
  Partitioned,    \* days of the months that have a partition
  CdrIds,
  Refreshers, Readers,
  NoFigures

ASSUME DaysAssumption == Today \in Days /\ Partitioned \subseteq Days

VARIABLES
  cdrRows,      \* cdr: the day and the hangup cause of each record, or NoFigures
  daily,        \* cdr_analytics_daily: the figures of each day, or NoFigures
  refresher,    \* each RefreshAnalytics: its day and what it counted, or idle
  overwritten,  \* history: days whose last refresh had counted before later records came
  reader,       \* each summary or trend under way: what it read, and records since
  summary       \* the last summary or trend

dailyTables == <<cdrRows, daily, refresher, overwritten>>
dailyVars == <<dailyTables, reader, summary>>

Causes == {"NORMAL_CLEARING", "USER_BUSY", "NULL"}
CdrRow == [day : Partitioned, cause : Causes]
Figures == [total : Nat, ok : Nat, bad : Nat, peak : {"NULL"}]
Counted == [day : Days, counted : Figures]
ASSUME NoFiguresAssumption == NoFigures \notin CdrRow \cup Figures \cup Counted
Recorded == {i \in CdrIds : cdrRows[i] # NoFigures}
Of(d) == {i \in Recorded : cdrRows[i].day = d}
Ok(is) == {i \in is : cdrRows[i].cause = "NORMAL_CLEARING"}
Bad(is) == {i \in is : cdrRows[i].cause = "USER_BUSY"}      \* NULL is neither = nor !=
CountOf(d) == [total |-> Cardinality(Of(d)), ok |-> Cardinality(Ok(Of(d))),
               bad |-> Cardinality(Bad(Of(d))), peak |-> "NULL"]
NotAsking == [asks |-> "nothing", first |-> 0, since |-> 0]

DailyInit ==
  /\ cdrRows = [i \in CdrIds |-> NoFigures] /\ daily = [d \in Days |-> NoFigures]
  /\ refresher = [r \in Refreshers |-> NoFigures]
  /\ overwritten = {}
  /\ reader = [q \in Readers |-> NotAsking]
  /\ summary = NoFigures

-----------------------------------------------------------------------------
(* A record comes in: update_daily_analytics, in the same transaction.     *)
AddedFailing(f, cause) ==
  [f EXCEPT !.total = @ + 1, !.ok = @ + (IF cause = "NORMAL_CLEARING" THEN 1 ELSE 0),
            !.bad = @ + (IF cause # "NORMAL_CLEARING" THEN 1 ELSE 0)]
Added(f, cause) ==
  [f EXCEPT !.total = @ + 1, !.ok = @ + (IF cause = "NORMAL_CLEARING" THEN 1 ELSE 0),
            !.bad = @ + (IF cause = "USER_BUSY" THEN 1 ELSE 0)]
InsertRecord(i, d, cause) ==
  LET none == [total |-> 0, ok |-> 0, bad |-> 0, peak |-> "NULL"]
      f == IF daily[d] = NoFigures THEN none ELSE daily[d]
  IN /\ cdrRows[i] = NoFigures
     /\ d \in Partitioned
     /\ cdrRows' = [cdrRows EXCEPT ![i] = [day |-> d, cause |-> cause]]
     /\ daily' = [daily EXCEPT ![d] = Added(f, cause)]
     /\ reader' = [q \in Readers |-> IF reader[q] = NotAsking THEN NotAsking
                                     ELSE [reader[q] EXCEPT !.since = @ + 1]]
     /\ UNCHANGED <<refresher, overwritten, summary>>

(* RefreshAnalytics: a day without records yields no row to store.         *)
RefreshCounts(r, d) ==
  /\ refresher[r] = NoFigures /\ Of(d) # {}
  /\ refresher' = [refresher EXCEPT ![r] = [day |-> d, counted |-> CountOf(d)]]
  /\ UNCHANGED <<cdrRows, daily, overwritten, reader, summary>>
RefreshStores(r) ==
  LET d == refresher[r].day  f == refresher[r].counted IN
  /\ refresher[r] # NoFigures
  /\ daily' = [daily EXCEPT ![d] = f]
  /\ overwritten' = IF f = CountOf(d) THEN overwritten \ {d} ELSE overwritten \cup {d}
  /\ refresher' = [refresher EXCEPT ![r] = NoFigures]
  /\ UNCHANGED <<cdrRows, reader, summary>>

-----------------------------------------------------------------------------
(* What the engine answers of the stored figures: of the days that have a  *)
(* peak hour, that is none; nothing fills the hourly table.                *)
GetDailyAnalytics == {d \in Days : daily[d] # NoFigures /\ daily[d].peak # "NULL"}

(* GetTenantSummary: all records are counted, then the cleared ones.       *)
SummaryTotal(q) ==
  /\ reader[q] = NotAsking
  /\ reader' = [reader EXCEPT ![q] =
       [asks |-> "summary", first |-> Cardinality(Recorded), since |-> 0]]
  /\ UNCHANGED <<dailyTables, summary>>
SummarySuccesses(q) ==
  /\ reader[q].asks = "summary"
  /\ summary' = [of |-> "summary", first |-> reader[q].first,
                 second |-> Cardinality(Ok(Recorded)), since |-> reader[q].since]
  /\ reader' = [reader EXCEPT ![q] = NotAsking]
  /\ UNCHANGED dailyTables

(* GetTrendAnalysis: the current period up to now, then the one before it. *)
TrendCurrent(q) ==
  /\ reader[q] = NotAsking
  /\ reader' = [reader EXCEPT ![q] =
       [asks |-> "trend", first |-> Cardinality(Of(Today)), since |-> 0]]
  /\ UNCHANGED <<dailyTables, summary>>
TrendPrevious(q) ==
  /\ reader[q].asks = "trend"
  /\ summary' = [of |-> "trend", first |-> reader[q].first,
                 second |-> Cardinality(Recorded \ Of(Today)), since |-> reader[q].since]
  /\ reader' = [reader EXCEPT ![q] = NotAsking]
  /\ UNCHANGED dailyTables
(* A period that follows an empty one has no growth.                       *)
TrendDirection(current, previous) ==
  IF previous = 0 THEN "stable"
  ELSE IF 100 * current > 105 * previous THEN "up"
  ELSE IF 100 * current < 95 * previous THEN "down" ELSE "stable"

DailyNext ==
  \/ \E i \in CdrIds, d \in Days, c \in Causes : InsertRecord(i, d, c)
  \/ \E r \in Refreshers : RefreshStores(r) \/ \E d \in Days : RefreshCounts(r, d)
  \/ \E q \in Readers :
       SummaryTotal(q) \/ SummarySuccesses(q) \/ TrendCurrent(q) \/ TrendPrevious(q)

DailySpec == DailyInit /\ [][DailyNext]_dailyVars

-----------------------------------------------------------------------------
(* Types; and the daily answer stays empty.                                *)
DailyTypeOK ==
  /\ cdrRows \in [CdrIds -> CdrRow \cup {NoFigures}]
  /\ daily \in [Days -> Figures \cup {NoFigures}]
  /\ refresher \in [Refreshers -> Counted \cup {NoFigures}]
  /\ overwritten \subseteq Days
  /\ reader \in [Readers -> [asks : {"nothing", "summary", "trend"}, first : Nat, since : Nat]]
  /\ GetDailyAnalytics = {}
  /\ summary = NoFigures \/ TrendDirection(summary.first, summary.second) \in {"up", "down", "stable"}

(* The figures of a day are those of its records, trigger and refresh      *)
(* together, unless records came between the count of the last refresh and *)
(* its storing: then, and until the next one, they are too low.            *)
TotalsAgree ==
  /\ \A d \in Days \ overwritten :
       IF Of(d) = {} THEN daily[d] = NoFigures ELSE daily[d] = CountOf(d)
  /\ \A d \in Days : daily[d] # NoFigures =>
       /\ daily[d].ok + daily[d].bad <= daily[d].total
       /\ daily[d].total <= Cardinality(Of(d))
(* A summary has more successes than calls only by records that came while *)
(* it was made.                                                            *)
SummarySound ==
  summary # NoFigures /\ summary.of = "summary" => summary.second <= summary.first + summary.since

FiguresMatch == DailyTypeOK /\ TotalsAgree /\ SummarySound
=============================================================================
