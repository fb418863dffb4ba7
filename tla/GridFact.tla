------------------------------ MODULE GridFact ------------------------------
(***************************************************************************)
(* The incremental fact dbt/models/marts/fct_grid_hourly.sql against the   *)
(* raw tables it is built from.                                            *)
(*                                                                         *)
(* Ingestion changes the hours after its own watermarks, minus a lookback; *)
(* a build writes again the hours after an edge it finds in the fact       *)
(* itself, minus another lookback.  What one of them changes and the other *)
(* does not look at stays wrong for good, with every test green.           *)
(*                                                                         *)
(* A version number stands for all rows of a table, authority and hour.    *)
(***************************************************************************)
EXTENDS Integers, FiniteSets

CONSTANTS
  BAs,             \* the balancing authorities that may ever be configured
  MaxHour,         \* bound: the last hour
  MaxVersion,      \* bound: how often an hour is published and restated
  MaxRows,         \* bound: how many rows are published and restated in all
  None,            \* no watermark stored
  IngestLookback,  \* incremental.lookback_hours of config/pipeline.yml
  FactLookback,    \* late_arrival_lookback_hours of dbt_project.yml
  Cap,             \* fuel_heal_max_days, in hours
  FuelLate         \* TRUE: an authority may be built before any fuel report

Hours  == 0..MaxHour
Tables == {"region", "fuel"}
Cells  == Tables \X BAs \X Hours \X (1..MaxVersion)
NoRow  == <<0, 0>>

ASSUME GridFactAssumption ==
  /\ MaxHour \in Nat /\ MaxVersion \in Nat \ {0} /\ MaxRows \in Nat /\ None \notin Int
  /\ IngestLookback \in Nat /\ FactLookback \in Nat /\ Cap \in Nat
  /\ IngestLookback < FactLookback
  /\ FuelLate \in BOOLEAN

VARIABLES
  raw,     \* raw[t][b][h]: the version in the raw table, 0 for none
  mark,    \* mark[t][b]: the ingestion watermark
  fact,    \* fact[b][h]: <<metrics, fuel>> of the row, NoRow for none
  tracked, \* the authorities in config and seed
  todo,    \* the pairs the ingestion under way has not loaded yet
  pc,      \* "idle", "ingest", "replay", "ready", "replayed" or "built"
  owed     \* history: the authorities that a replay left in need of a full refresh

vars == <<raw, mark, fact, tracked, todo, pc, owed>>

Larger(a, b)  == IF a >= b THEN a ELSE b
Smaller(a, b) == IF a <= b THEN a ELSE b
Last(S)       == CHOOSE h \in S : \A g \in S : g <= h

Held(t, b) == {h \in Hours : raw[t][b][h] # 0}

-----------------------------------------------------------------------------
(* Ingestion, as module Ingest shows it. *)

\* The hours a run asks for: everything, or from the lookback on.
Asked(t, b) == IF mark[t][b] = None THEN Hours
               ELSE {h \in Hours : h >= mark[t][b] - IngestLookback}

\* How many rows have been published and restated so far.
Published == Cardinality({c \in Cells : c[4] <= raw[c[1]][c[2]][c[3]]})

\* New or restated rows for the hours of S.
Upsert(t, b, S) ==
  /\ \A h \in S : raw[t][b][h] < MaxVersion
  /\ Published + Cardinality(S) <= MaxRows
  /\ raw' = [raw EXCEPT ![t][b] = [h \in Hours |-> IF h \in S THEN @[h] + 1 ELSE @[h]]]

Mark(t, b) ==
  LET rows == {h \in Asked(t, b) : raw'[t][b][h] # 0} IN
  mark' = [mark EXCEPT ![t][b] = IF rows = {} THEN @ ELSE Last(rows)]

StartIngest ==
  /\ pc \in {"idle", "built"}
  /\ todo' = Tables \X tracked
  /\ pc' = IF todo' = {} THEN "ready" ELSE "ingest"
  /\ UNCHANGED <<raw, mark, fact, tracked, owed>>

\* The route loop is the outer one: all metrics, then all fuel.
InTurn(t, b) == <<t, b>> \in todo /\ (t = "fuel" => todo \subseteq {"fuel"} \X BAs)

\* Does an authority get metrics into the warehouse without any fuel report?
FuelMissing(b) == Held("region", b) # {} /\ Held("region", b) \cap {h \in Hours : raw'["fuel"][b][h] # 0} = {}

LoadPair(t, b) ==
  /\ pc = "ingest" /\ InTurn(t, b)
  /\ \E S \in SUBSET Asked(t, b) : Upsert(t, b, S) /\ Mark(t, b)
  /\ t = "fuel" => FuelLate \/ ~FuelMissing(b)
  /\ todo' = todo \ {<<t, b>>}
  /\ pc' = IF todo' = {} THEN "ready" ELSE "ingest"
  /\ UNCHANGED <<fact, tracked, owed>>

\* The run dies inside a pair, the rows committed, the watermark or not.
FailIngest(t, b) ==
  /\ pc = "ingest" /\ InTurn(t, b)
  /\ \E S \in SUBSET Asked(t, b) : Upsert(t, b, S)
  /\ Mark(t, b) \/ UNCHANGED mark
  /\ todo' = {}
  /\ pc' = "idle"
  /\ UNCHANGED <<fact, tracked, owed>>

\* make replay: fetch history again from a date through now, whatever the
\* watermarks say, if there are any.
StartReplay ==
  /\ pc \in {"idle", "built"}
  /\ todo' = Tables \X tracked
  /\ pc' = IF todo' = {} THEN "replayed" ELSE "replay"
  /\ owed' = owed \union tracked
  /\ UNCHANGED <<raw, mark, fact, tracked>>

\* Any hour may be new or restated; no watermark moves.
ReplayPair(t, b) ==
  /\ pc = "replay" /\ InTurn(t, b)
  /\ \E S \in SUBSET Hours : Upsert(t, b, S)
  /\ t = "fuel" => FuelLate \/ ~FuelMissing(b)
  /\ todo' = todo \ {<<t, b>>}
  /\ pc' = IF todo' = {} THEN "replayed" ELSE "replay"
  /\ UNCHANGED <<mark, fact, tracked, owed>>

\* The replay dies inside a pair: raw is repaired in part, the full refresh does
\* not run, and any command may be next.
FailReplay(t, b) ==
  /\ pc = "replay" /\ InTurn(t, b)
  /\ \E S \in SUBSET Hours : Upsert(t, b, S)
  /\ todo' = {}
  /\ pc' = "idle"
  /\ UNCHANGED <<mark, fact, tracked, owed>>

\* A line in config/pipeline.yml and in the seed.
AddBA(b) ==
  /\ pc \in {"idle", "built"} /\ b \notin tracked
  /\ tracked' = tracked \union {b}
  /\ pc' = "idle"
  /\ UNCHANGED <<raw, mark, fact, todo, owed>>

-----------------------------------------------------------------------------
(* The fact. *)

\* Mistake: a fuel report without metrics makes a row as well.
RowOfEither(b, h) == <<raw["region"][b][h], raw["fuel"][b][h]>>

\* The row the model's select gives for an hour: metrics left join fuel.
Row(b, h) == IF raw["region"][b][h] = 0 THEN NoRow
             ELSE <<raw["region"][b][h], raw["fuel"][b][h]>>

DemandEdge(b) == Last({h \in Hours : fact[b][h] # NoRow})

\* max(period_utc) filter (where is_fuel_reported), coalesced.
FuelEdge(b) ==
  LET reported == {h \in Hours : fact[b][h][2] # 0} IN
  IF reported = {} THEN DemandEdge(b) ELSE Last(reported)

HasRows(b) == \E h \in Hours : fact[b][h] # NoRow

\* Mistake: the window starts from the demand edge alone.
FromDemandEdge(b) == IF HasRows(b) THEN DemandEdge(b) - FactLookback ELSE -1

\* Mistake: the lookback is forgotten where the cap applies.
FromCapAlone(b) ==
  IF ~HasRows(b) THEN -1
  ELSE Larger(Smaller(DemandEdge(b), FuelEdge(b)) - FactLookback, DemandEdge(b) - Cap)

\* ba_watermarks: reprocess_from, or 1900 for an authority without rows.
ReprocessFrom(b) ==
  IF ~HasRows(b) THEN -1
  ELSE Larger(Smaller(DemandEdge(b), FuelEdge(b)), DemandEdge(b) - Cap) - FactLookback

\* delete+insert of the rows after ReprocessFrom.
BuildIncremental ==
  /\ pc = "ready"
  /\ fact' = [b \in BAs |-> [h \in Hours |->
                IF b \in tracked /\ h > ReprocessFrom(b) THEN Row(b, h) ELSE fact[b][h]]]
  /\ pc' = "built"
  /\ UNCHANGED <<raw, mark, tracked, todo, owed>>

\* Is the hour so far past the watermark that the next ingestion, which starts
\* from the watermark, may change hours that a build from this edge leaves out?
Beyond(t, b, h) == mark[t][b] = None \/ h - FactLookback >= mark[t][b] - IngestLookback

\* A full refresh takes rows so far past their watermark into the fact.
Outruns(b) ==
  \E h \in Hours :
    \/ Row(b, h) # NoRow /\ Beyond("region", b, h)
    \/ Row(b, h)[2] # 0 /\ Beyond("fuel", b, h)

BuildFull ==
  /\ pc \in {"ready", "replayed"}
  /\ fact' = [b \in BAs |-> [h \in Hours |-> IF b \in tracked THEN Row(b, h) ELSE NoRow]]
  /\ owed' = {b \in tracked : Outruns(b)}
  /\ pc' = "built"
  /\ UNCHANGED <<raw, mark, tracked, todo>>

\* dbt fails before the fact: nothing is built.
FailBuild ==
  /\ pc \in {"ready", "replayed"}
  /\ pc' = "idle"
  /\ UNCHANGED <<raw, mark, fact, tracked, todo, owed>>

-----------------------------------------------------------------------------
Init ==
  /\ raw = [t \in Tables |-> [b \in BAs |-> [h \in Hours |-> 0]]]
  /\ mark = [t \in Tables |-> [b \in BAs |-> None]]
  /\ fact = [b \in BAs |-> [h \in Hours |-> NoRow]]
  /\ tracked \in SUBSET BAs
  /\ todo = {}
  /\ pc = "idle"
  /\ owed = {}

Next ==
  \/ StartIngest \/ StartReplay \/ BuildIncremental \/ BuildFull \/ FailBuild
  \/ \E t \in Tables, b \in BAs :
       LoadPair(t, b) \/ FailIngest(t, b) \/ ReplayPair(t, b) \/ FailReplay(t, b)
  \/ \E b \in BAs : AddBA(b)

Spec == Init /\ [][Next]_vars

-----------------------------------------------------------------------------
TypeOK ==
  /\ raw \in [Tables -> [BAs -> [Hours -> 0..MaxVersion]]]
  /\ mark \in [Tables -> [BAs -> Hours \union {None}]]
  /\ fact \in [BAs -> [Hours -> {NoRow} \union (1..MaxVersion) \X (0..MaxVersion)]]
  /\ tracked \subseteq BAs
  /\ todo \subseteq Tables \X tracked
  /\ pc \in {"idle", "ingest", "replay", "ready", "replayed", "built"}
  /\ owed \subseteq tracked

\* After every build the fact is what a full rebuild would give, except for fuel
\* that came more than the cap behind its authority's demand: the one case the
\* comments of fct_grid_hourly.sql and assert_fct_fuel_is_current.sql leave to a
\* full refresh.  Metrics are never behind.  An authority is left out only from a
\* replay to the full refresh that completes it, and after one that took rows
\* into the fact that lie beyond the reach of its watermarks.
StaleIsBeyondTheCap ==
  pc = "built" => \A b \in tracked \ owed, h \in Hours :
    fact[b][h] # Row(b, h) =>
      /\ fact[b][h][1] = raw["region"][b][h]
      /\ h <= DemandEdge(b) - Cap - FactLookback

\* After every build the fact has exactly the hours the raw metrics have
\* (dbt/tests/assert_fct_reconciles_with_source.sql).
ReconcilesWithSource ==
  pc = "built" => \A b \in tracked, h \in Hours :
    fact[b][h] # NoRow <=> raw["region"][b][h] # 0
=============================================================================
