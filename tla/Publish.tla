------------------------------ MODULE Publish -------------------------------
(***************************************************************************)
(* The nightly workflow with scripts/export_to_cloud.py: ingest, build and *)
(* publish, night after night, any of them failing.                        *)
(*                                                                         *)
(* A publish sends the days of a fixed window below the newest date, and   *)
(* the older days whose raw rows were ingested in the last 48 hours.  What *)
(* BigQuery shows is right only if those two and the nights that failed    *)
(* fit together.                                                           *)
(*                                                                         *)
(* A day's data is named by the night that ingested it last; 0 is no data. *)
(***************************************************************************)
EXTENDS Integers, FiniteSets

CONSTANTS
  MaxDay,        \* bound: the last day
  MaxNight,      \* bound: the last night
  WindowDays,    \* EXPORT_LOOKBACK_DAYS
  TouchedNights, \* TOUCHED_SINCE_HOURS, in nights
  MaxTouched     \* MAX_TOUCHED_PARTITIONS

Days   == 1..MaxDay
Nights == 0..MaxNight

ASSUME PublishAssumption ==
  /\ MaxDay \in Nat /\ MaxNight \in Nat
  /\ WindowDays \in Nat \ {0} /\ TouchedNights = 2 /\ MaxTouched \in Nat

VARIABLES
  night,   \* how many nightly runs have begun
  pc,      \* "idle", "ingest", "build", "plan", "send" or "whole"
  full,    \* does this night rebuild and publish everything?
  raw,     \* raw[d]: _ingested_at of the newest raw row of day d
  fact,    \* fact[d]: which of that fct_grid_hourly and the marts show
  bq,      \* bq[d]: what the fact's partition d in BigQuery shows
  daily,   \* daily[d]: what the other marts in BigQuery show of day d
  queue,   \* the partitions still to be sent
  missed   \* history: nights in a row without a successful publish, at most 2

vars == <<night, pc, full, raw, fact, bq, daily, queue, missed>>

Present == {d \in Days : fact[d] # 0}
MaxDate == CHOOSE d \in Present : \A e \in Present : e <= d

\* Mistake: one day too few in the window.
WindowOneShort == {d \in Days : MaxDate - (WindowDays - 1) < d /\ d <= MaxDate}

Window == {d \in Days : MaxDate - (WindowDays - 1) <= d /\ d <= MaxDate}

\* Mistake: only tonight's rows count as touched.
TouchedTonight == {d \in Present : d < MaxDate - (WindowDays - 1) /\ raw[d] = night}

\* touched_partitions.
Touched == {d \in Present : d < MaxDate - (WindowDays - 1) /\ raw[d] > night - TouchedNights}

-----------------------------------------------------------------------------
\* The schedule, or a dispatch with publish_mode=full or dbt_full_refresh.
StartNight(f) ==
  /\ pc = "idle" /\ night < MaxNight
  /\ night' = night + 1
  /\ full' = f
  /\ pc' = "ingest"
  /\ UNCHANGED <<raw, fact, bq, daily, queue, missed>>

\* Mistake: rows are stamped in a local time that is ahead of UTC.
IngestLocalTime(S) ==
  /\ pc = "ingest"
  /\ raw' = [d \in Days |-> IF d \in S THEN night + 1 ELSE raw[d]]
  /\ pc' = "build"
  /\ UNCHANGED <<night, full, fact, bq, daily, queue, missed>>

\* Rows of any days: the newest, restated ones, an authority's backlog.
Ingest(S) ==
  /\ pc = "ingest"
  /\ raw' = [d \in Days |-> IF d \in S THEN night ELSE raw[d]]
  /\ pc' = "build"
  /\ UNCHANGED <<night, full, fact, bq, daily, queue, missed>>

\* dbt build; module GridFact shows that the fact takes over what changed.
Build ==
  /\ pc = "build"
  /\ fact' = raw
  /\ pc' = "plan"
  /\ UNCHANGED <<night, full, raw, bq, daily, queue, missed>>

\* Which partitions to send, or the whole table; an empty fact is skipped.
Plan ==
  /\ pc = "plan"
  /\ \/ /\ Present = {}
        /\ queue' = {} /\ pc' = "send"
     \/ /\ Present # {} /\ (full \/ Cardinality(Touched) > MaxTouched)
        /\ queue' = {} /\ pc' = "whole"
     \/ /\ Present # {} /\ ~full /\ Cardinality(Touched) <= MaxTouched
        /\ queue' = Touched \union Window /\ pc' = "send"
  /\ UNCHANGED <<night, full, raw, fact, bq, daily, missed>>

\* One bq load --replace for the whole fact.
SendWhole ==
  /\ pc = "whole"
  /\ bq' = fact
  /\ pc' = "send"
  /\ UNCHANGED <<night, full, raw, fact, daily, queue, missed>>

\* One partition, in the order of the dates; a day without rows is skipped.
SendDay ==
  /\ pc = "send"
  /\ \E d \in queue :
       /\ \A e \in queue : d <= e
       /\ bq' = IF fact[d] = 0 THEN bq ELSE [bq EXCEPT ![d] = fact[d]]
       /\ queue' = queue \ {d}
  /\ UNCHANGED <<night, pc, full, raw, fact, daily, missed>>

\* The other marts are small and replaced whole; then the publish is done.
SendMarts ==
  /\ pc = "send" /\ queue = {}
  /\ daily' = fact
  /\ missed' = IF missed = 2 /\ ~full THEN 2 ELSE 0
  /\ pc' = "idle"
  /\ UNCHANGED <<night, full, raw, fact, bq, queue>>

\* Any step fails for good, or the workflow times out: an ingestion that loaded
\* some of its rows, a build whose tests fail after the fact was written, a
\* publish that sent some of its days, or one that is switched off.
Fail(S) ==
  /\ pc # "idle"
  /\ raw' = IF pc = "ingest" THEN [d \in Days |-> IF d \in S THEN night ELSE raw[d]] ELSE raw
  /\ missed' = IF missed = 2 THEN 2 ELSE missed + 1
  /\ queue' = {}
  /\ pc' = "idle"
  /\ fact' \in IF pc = "build" THEN {fact, raw} ELSE {fact}
  /\ UNCHANGED <<night, full, bq, daily>>

Init ==
  /\ night = 0 /\ pc = "idle" /\ full = FALSE
  /\ raw = [d \in Days |-> 0] /\ fact = raw /\ bq = raw /\ daily = raw
  /\ queue = {} /\ missed = 0

Next ==
  \/ \E f \in BOOLEAN : StartNight(f)
  \/ \E S \in SUBSET Days : Ingest(S) \/ Fail(S)
  \/ Build \/ Plan \/ SendWhole \/ SendDay \/ SendMarts

Spec == Init /\ [][Next]_vars

-----------------------------------------------------------------------------
TypeOK ==
  /\ night \in Nights
  /\ pc \in {"idle", "ingest", "build", "plan", "send", "whole"}
  /\ full \in BOOLEAN
  /\ raw \in [Days -> Nights] /\ fact \in [Days -> Nights]
  /\ bq \in [Days -> Nights] /\ daily \in [Days -> Nights]
  /\ queue \subseteq Days
  /\ missed \in 0..2

\* A night that publishes leaves BigQuery with exactly what the marts hold, also
\* after one night that failed anywhere.  After two in a row it takes a full
\* publish (README: "one missed night heals on its own").
OneMissedNightHeals ==
  pc = "idle" /\ missed = 0 => bq = fact /\ daily = fact
=============================================================================
