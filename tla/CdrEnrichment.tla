------------------------------ MODULE CdrEnrichment ------------------------------
(***************************************************************************)
(* multi-tenant-cdr: the enrichment of a call record                       *)
(* (enrichment/pipeline.go), with the countries (geo.go), the carriers     *)
(* (carrier.go) and the fraud rules (fraud.go) it takes it from.           *)
(*                                                                         *)
(* An enrichment reads the record, works out the rest and stores it in one *)
(* statement, which of a row that exists replaces some columns only.  The  *)
(* record may change between two enrichments and while one is under way.   *)
(*                                                                         *)
(* A number is its country, "" for none that is known, and whether its     *)
(* text names a premium carrier; no country code begins another, so the    *)
(* order of the map does not matter.  Durations are one of each range the  *)
(* code tells apart.  Scores are in hundredths: the sums of floats that    *)
(* make exactly 0.7 on paper and more in memory are listed.                *)
(***************************************************************************)
EXTENDS Naturals, FiniteSets

CONSTANTS
  CallNumbers,   \* pairs of a caller's and a callee's number
  Enrichers,     \* calls of EnrichCDR
  MaxVersions,   \* bound: how often the record changes
  NoCdr

ASSUME EnrichmentAssumption == MaxVersions \in Nat

VARIABLES
  record,        \* the base record, or NoCdr
  versions,      \* history: what the record was, the present one included
  enricher,      \* each call: the record it read, or NoCdr
  enriched       \* the row of enriched_cdrs, or NoCdr

enrichmentVars == <<record, versions, enricher, enriched>>

Durations == {0, 3, 60, 400, 2000, 4000}       \* seconds
CallStatuses == {"completed", "failed"}
BaseCDR == [caller : {n[1] : n \in CallNumbers}, callee : {n[2] : n \in CallNumbers},
            offHours : BOOLEAN, duration : Durations, status : CallStatuses]
ASSUME NoCdrAssumption == NoCdr \notin BaseCDR

EnrichmentInit ==
  /\ record = NoCdr /\ versions = {}
  /\ enricher = [e \in Enrichers |-> NoCdr]
  /\ enriched = NoCdr

-----------------------------------------------------------------------------
Resolve(number) == number.country
Lookup(number) == [name |-> IF number.premium THEN "named" ELSE number.country, premium |-> number.premium]

International(c) == Resolve(c.caller) # "" /\ Resolve(c.callee) # "" /\ Resolve(c.caller) # Resolve(c.callee)
Premium(c) == Lookup(c.caller).premium \/ Lookup(c.callee).premium

categorizeCall(c) ==
  IF International(c) THEN "international"
  ELSE IF Premium(c) THEN "premium"
  ELSE IF c.duration > 300 THEN "long_duration"
  ELSE IF c.status = "failed" THEN "failed" ELSE "standard"

Rules == {"High Duration", "International Pattern", "Premium Rate", "Failed Pattern",
          "Off-Hours", "Short Duration"}
Score(rule, c) ==
  CASE rule = "High Duration" -> IF c.duration > 3600 THEN 30 ELSE IF c.duration > 1800 THEN 15 ELSE 0
    [] rule = "International Pattern" ->
         IF ~International(c) THEN 0 ELSE IF Resolve(c.callee) \in {"RU", "KP", "IR"} THEN 40 ELSE 10
    [] rule = "Premium Rate" -> IF Premium(c) THEN 20 ELSE 0
    [] rule = "Failed Pattern" -> IF c.status = "failed" THEN 15 ELSE 0
    [] rule = "Off-Hours" -> IF c.offHours THEN 10 ELSE 0
    [] rule = "Short Duration" -> IF c.duration > 0 /\ c.duration < 5 THEN 20 ELSE 0
Indicators(c) == {rule \in Rules : Score(rule, c) > 0}
Total(c) ==
  Score("High Duration", c) + Score("International Pattern", c) + Score("Premium Rate", c)
  + Score("Failed Pattern", c) + Score("Off-Hours", c) + Score("Short Duration", c)
Analyze(c) == IF Total(c) > 100 THEN 100 ELSE Total(c)

(* Added in the order of the rules, these sums of 0.7 come out above it.   *)
RoundedUp ==
  {{"International Pattern", "Premium Rate", "Off-Hours"},
   {"High Duration", "International Pattern", "Premium Rate", "Off-Hours"},
   {"High Duration", "International Pattern", "Failed Pattern"}}
HighRisk(c) == Analyze(c) > 70 \/ (Analyze(c) = 70 /\ Indicators(c) \in RoundedUp)

(* What EnrichCDR makes of a record: the columns that an update of the row *)
(* replaces, and those it keeps.                                           *)
Replaced(c) == [callerCountry |-> Resolve(c.caller), calleeCountry |-> Resolve(c.callee),
                category |-> categorizeCall(c), score |-> Analyze(c), highRisk |-> HighRisk(c)]
Kept(c) == [indicators |-> Indicators(c), international |-> International(c), premium |-> Premium(c),
            carriers |-> {Lookup(c.caller).name, Lookup(c.callee).name}]

-----------------------------------------------------------------------------
(* The record is written, and changes when the call ends or is corrected;  *)
(* its numbers and its start do not.                                       *)
WriteRecord(c) ==
  /\ Cardinality(versions) < MaxVersions
  /\ record # NoCdr => /\ c.caller = record.caller /\ c.callee = record.callee
                       /\ c.offHours = record.offHours
  /\ record' = c /\ versions' = versions \cup {c}
  /\ UNCHANGED <<enricher, enriched>>

(* EnrichCDR, and BatchEnrich one record after the other.                  *)
getBaseCDR(e) ==
  /\ enricher[e] = NoCdr /\ record # NoCdr
  /\ enricher' = [enricher EXCEPT ![e] = record]
  /\ UNCHANGED <<record, versions, enriched>>
StoreWithoutRisk(e) ==
  /\ enricher[e] # NoCdr
  /\ \/ enriched' = [now |-> IF enriched = NoCdr THEN Replaced(enricher[e])
                             ELSE [Replaced(enricher[e]) EXCEPT !.highRisk = enriched.now.highRisk],
                     first |-> IF enriched = NoCdr THEN Kept(enricher[e]) ELSE enriched.first]
     \/ UNCHANGED enriched
  /\ enricher' = [enricher EXCEPT ![e] = NoCdr]
  /\ UNCHANGED <<record, versions>>
(* The row is stored, or it fails, which is only logged.                   *)
storeEnrichedCDR(e) ==
  /\ enricher[e] # NoCdr
  /\ \/ enriched' = [now |-> Replaced(enricher[e]),
                     first |-> IF enriched = NoCdr THEN Kept(enricher[e]) ELSE enriched.first]
     \/ UNCHANGED enriched
  /\ enricher' = [enricher EXCEPT ![e] = NoCdr]
  /\ UNCHANGED <<record, versions>>

EnrichmentNext ==
  \/ \E c \in BaseCDR : <<c.caller, c.callee>> \in CallNumbers /\ WriteRecord(c)
  \/ \E e \in Enrichers : getBaseCDR(e) \/ storeEnrichedCDR(e)

EnrichmentSpec == EnrichmentInit /\ [][EnrichmentNext]_enrichmentVars

-----------------------------------------------------------------------------
EnrichmentTypeOK ==
  /\ record \in BaseCDR \cup {NoCdr} /\ versions \subseteq BaseCDR
  /\ \A e \in Enrichers : enricher[e] \in versions \cup {NoCdr}
  /\ enriched # NoCdr => enriched.now.score \in 0 .. 100

(* A row says of the call what one reading of the record gives, but for    *)
(* the columns an update keeps, which are of an earlier reading: of these  *)
(* only the indicators can differ from what the later one would give.      *)
RowOfReadings ==
  enriched # NoCdr => \E c, b \in versions :
    /\ enriched.now = Replaced(c) /\ enriched.first = Kept(b)
    /\ enriched.first.international = International(c) /\ enriched.first.premium = Premium(c)
(* A call of high risk is international or of a premium carrier, it was no *)
(* mere slip of the score, and no international call is filed otherwise.   *)
RiskNamed ==
  enriched # NoCdr =>
    /\ enriched.now.highRisk => enriched.now.score >= 70 /\ (enriched.first.international \/ enriched.first.premium)
    /\ enriched.first.international <=> enriched.now.category = "international"
    /\ enriched.now.score > 70 => enriched.now.highRisk

RowsSound == EnrichmentTypeOK /\ RowOfReadings /\ RiskNamed
=============================================================================
