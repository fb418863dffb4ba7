-------------------------- MODULE FuelExpectations --------------------------
(***************************************************************************)
(* The fuel groups an authority is expected to report                      *)
(* (int_fuel_mix_by_category.sql) and the flags of absent groups that the  *)
(* incremental fact keeps from the night it wrote the hour.                *)
(*                                                                         *)
(* Expectations are learned from whole months and reach backwards: an hour *)
(* that was in order when it was written is flagged today because of what  *)
(* came after it, or no longer flagged because a group was retired.        *)
(***************************************************************************)
EXTENDS Integers, FiniteSets

CONSTANTS
  GroupOf,      \* GroupOf[code]: the fuel group of a code (fuel_types.csv)
  Vre,          \* the groups a seed may declare: solar and wind
  Reports,      \* the sets of codes an hour's report may hold; {} is no report
  MonthHours,   \* how many hours a month has
  MaxHour,      \* bound: the last hour
  Floor,        \* the 100 hours that earn a group its expectation
  Lookback,     \* the hours that every incremental build writes again
  MaxRestated,  \* bound: reports that come late or change
  Retirements,  \* the <<group, month>> rows the retirement seed may get
  Never         \* not retired

Codes  == DOMAIN GroupOf
Groups == {GroupOf[c] : c \in Codes}
Hours  == 1..MaxHour
Month(h) == (h - 1) \div MonthHours
Months == {Month(h) : h \in Hours}

ASSUME FuelExpectationsAssumption ==
  /\ MonthHours \in Nat \ {0} /\ MaxHour \in Nat \ {0}
  /\ Floor \in Nat \ {0} /\ Lookback \in Nat /\ MaxRestated \in Nat
  /\ Vre \subseteq Groups /\ Reports \subseteq SUBSET Codes
  /\ Retirements \subseteq Groups \X Months
  /\ Never \notin Int

VARIABLES
  clock,     \* the newest hour that has metrics
  report,    \* report[h]: the codes of the rows of hour h
  declared,  \* the groups the seed declares for the authority
  retired,   \* retired[g]: retired_month of group g
  edge,      \* the newest hour of the fact
  flagged,   \* flagged[h]: the groups whose absence the fact's row records
  current,   \* history: was the last step a build?
  restated   \* how many reports came late or changed

vars == <<clock, report, declared, retired, edge, flagged, current, restated>>

-----------------------------------------------------------------------------
(* The model's CTEs. *)

Present(h) == {GroupOf[c] : c \in report[h]}

\* Mistake: rows are counted, so two codes of one group count twice.
RowsIn(g, m) ==
  Cardinality({x \in Hours \X Codes :
                 Month(x[1]) = m /\ x[2] \in report[x[1]] /\ GroupOf[x[2]] = g})

\* month_groups, over the distinct hours of present_groups.
HoursIn(g, m) == Cardinality({h \in Hours : Month(h) = m /\ g \in Present(h)})

WarehouseMonths == {Month(h) : h \in {k \in Hours : report[k] # {}}}

\* Mistake: what was not reported last month is not expected this month.
SeenLastMonth(g, m) == \E n \in {m - 1, m} \cap Months : HoursIn(g, n) >= Floor

\* group_first_seen: from the first month with enough hours on.
SeenBy(g, m) == \E n \in Months : n <= m /\ HoursIn(g, n) >= Floor

InContract(g, m) == retired[g] = Never \/ m < retired[g]

\* Mistake: expectations are learned only, whatever the seed declares.
ExpectedIfSeen ==
  {e \in WarehouseMonths \X Groups : SeenBy(e[2], e[1]) /\ InContract(e[2], e[1])}

\* expected_groups, a table of months and groups.
Expected ==
  {e \in WarehouseMonths \X Groups :
     (e[2] \in Vre \cap declared \/ SeenBy(e[2], e[1])) /\ InContract(e[2], e[1])}

\* Mistake: a code is missed, though its group reported under another one.
AbsentCodes(expected, h) ==
  IF report[h] = {} THEN {}
  ELSE {c \in Codes \ report[h] : <<Month(h), GroupOf[c]>> \in expected}

\* absent_per_hour; an hour without a report has no row to flag.
Absent(expected, h) ==
  IF report[h] = {} THEN {} ELSE {g \in Groups \ Present(h) : <<Month(h), g>> \in expected}

-----------------------------------------------------------------------------
\* A new hour, with its report or before it.
Arrive(codes) ==
  /\ clock < MaxHour
  /\ clock' = clock + 1
  /\ report' = [report EXCEPT ![clock + 1] = codes]
  /\ current' = FALSE
  /\ UNCHANGED <<declared, retired, edge, flagged, restated>>

\* Rows that come late, for an hour that every next build writes; none is ever
\* deleted.  Fuel that comes later still is the subject of GridFact.
Restate(h, codes) ==
  /\ restated < MaxRestated
  /\ h <= clock /\ h > edge - Lookback
  /\ ~(codes \subseteq report[h])
  /\ report' = [report EXCEPT ![h] = @ \union codes]
  /\ restated' = restated + 1
  /\ current' = FALSE
  /\ UNCHANGED <<clock, declared, retired, edge, flagged>>

\* A row in fuel_group_retirements.csv.
Retire(g, m) ==
  /\ <<g, m>> \in Retirements /\ retired[g] = Never
  /\ retired' = [retired EXCEPT ![g] = m]
  /\ current' = FALSE
  /\ UNCHANGED <<clock, report, declared, edge, flagged, restated>>

\* Mistake: only the new hours are written.
WrittenOnce(h) == h <= clock /\ h > edge

\* What every incremental build writes again, whatever fuel the fact holds: where
\* its fuel lags behind, the code reaches back further, up to fuel_heal_max_days.
Written(h) == h <= clock /\ h > edge - Lookback

\* The fact's delete+insert of the hours behind its edge.
Build ==
  /\ LET expected == Expected IN
       flagged' = [h \in Hours |-> IF Written(h) THEN Absent(expected, h) ELSE flagged[h]]
  /\ edge' = clock
  /\ current' = TRUE
  /\ UNCHANGED <<clock, report, declared, retired, restated>>

BuildFull ==
  /\ LET expected == Expected IN
       flagged' = [h \in Hours |-> IF h <= clock THEN Absent(expected, h) ELSE {}]
  /\ edge' = clock
  /\ current' = TRUE
  /\ UNCHANGED <<clock, report, declared, retired, restated>>

Init ==
  /\ clock = 0
  /\ report = [h \in Hours |-> {}]
  /\ declared \in SUBSET Vre
  /\ retired = [g \in Groups |-> Never]
  /\ edge = 0
  /\ flagged = [h \in Hours |-> {}]
  /\ current = FALSE
  /\ restated = 0

Next ==
  \/ \E codes \in Reports : Arrive(codes) \/ \E h \in Hours : Restate(h, codes)
  \/ \E g \in Groups, m \in Months : Retire(g, m)
  \/ Build \/ BuildFull

Spec == Init /\ [][Next]_vars

-----------------------------------------------------------------------------
TypeOK ==
  /\ clock \in 0..MaxHour /\ edge \in 0..clock
  /\ report \in [Hours -> SUBSET Codes]
  /\ declared \subseteq Vre
  /\ retired \in [Groups -> Months \union {Never}]
  /\ flagged \in [Hours -> SUBSET Groups]
  /\ current \in BOOLEAN
  /\ restated \in 0..MaxRestated
  /\ \A h \in Hours : flagged[h] # {} => h <= edge

FirstSeen(g) == {m \in Months : HoursIn(g, m) >= Floor /\ \A n \in Months : n < m => HoursIn(g, n) < Floor}

\* After a build a row's flags are out of date only where a full refresh is what
\* the project asks for: in the month in which the group was first seen, or from
\* the month it was retired (assert_fct_fuel_is_current.sql: "seed edits, or a BA
\* starting to report a new fuel group").
StaleFlagsAreExplained ==
  current => LET expected == Expected IN \A h \in 1..clock : LET now == Absent(expected, h) IN
    \A g \in (flagged[h] \union now) \ (flagged[h] \cap now) :
      \/ retired[g] # Never /\ Month(h) >= retired[g]
      \/ FirstSeen(g) = {Month(h)} /\ g \in now /\ h <= edge - Lookback

\* The flags of a declared solar or wind group are never out of date, and no gap
\* of it goes unflagged, from the authority's first hour on (the model's head:
\* the declaration "catches a whole month of missing solar").
DeclaredIsNeverStale ==
  current => \A h \in 1..clock, g \in declared :
    report[h] # {} /\ retired[g] = Never => (g \in flagged[h] <=> g \notin Present(h))

\* An outage is not learned as normal: what is expected of a month stays expected
\* of it and of every later month, whatever is reported or not, built, or retired
\* of the other groups, until its own retirement (expected_groups: "stays
\* expected in EVERY subsequent month").
Persists ==
  LET after == Expected' IN
  \A e \in Expected : retired'[e[2]] = retired[e[2]] =>
    \A n \in WarehouseMonths' : n >= e[1] /\ InContract(e[2], n) => <<n, e[2]>> \in after
OutageIsNotLearned == [][Persists]_vars

\* A short appearance flags nothing: an absence the fact records, on whatever
\* night it did, of a group that is not declared, has behind it a month, not after
\* the hour's own, in which the group reported in Floor distinct hours
\* (month_groups' floor: MISO's 24 hours of oil "invalidated MISO's fuel mix for
\* every later hour").
FlagsHaveEvidence ==
  \A h \in Hours : \A g \in flagged[h] \ declared :
    \E m \in 0..Month(h) :
      Cardinality({k \in Hours : Month(k) = m /\ \E c \in report[k] : GroupOf[c] = g}) >= Floor
=============================================================================
