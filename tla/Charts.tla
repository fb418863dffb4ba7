------------------------------- MODULE Charts -------------------------------
(***************************************************************************)
(* scripts/make_charts.py on marts that a dbt build writes one after the   *)
(* other, any of them failing: what the two published charts show.         *)
(*                                                                         *)
(* Ingestion, builds and charts take turns, because DuckDB locks the file. *)
(* A build stops at the first model whose tests fail, and the models after *)
(* it stay as they are.  A chart process may fail or be killed anywhere.    *)
(***************************************************************************)
EXTENDS Marts

CONSTANTS
  Odd,         \* what one hour may hold when the warehouse is first built
  Restated,    \* what an hour may turn into later
  WindowDays,  \* the 90 days of the share chart
  MaxChanges,  \* bound: hours that change after the start
  MaxDraws,    \* bound: how often the charts are drawn
  None         \* no file

ASSUME ChartsAssumption ==
  /\ Odd \subseteq Hour /\ Restated \subseteq Hour /\ WindowDays \in Nat \ {0}
  /\ MaxChanges \in Nat /\ MaxDraws \in Nat

VARIABLES
  raw,      \* raw[s]: what the raw tables hold of slot s
  fact, daily, profile,   \* the tables of the three models
  next,     \* the model a build under way writes next, or "none"
  whole,    \* history: has the last build written all three?
  changes,  \* how often raw has changed
  pc,       \* "idle", "duck", "share", "first" or "second"
  draws,    \* how often the charts were drawn
  tmp,      \* tmp[c]: the rendered file of chart c that is not in place yet
  shown,    \* shown[c]: the published chart
  torn      \* history: did the last run end between its two renames?

warehouse == <<raw, fact, daily, profile, next, whole, changes>>
charts    == <<pc, draws, tmp, shown, torn>>
vars      == <<raw, fact, daily, profile, next, whole, changes, pc, draws, tmp, shown, torn>>

Least(S)    == CHOOSE d \in S : \A e \in S : d <= e
Greatest(S) == CHOOSE d \in S : \A e \in S : d >= e

-----------------------------------------------------------------------------
(* The warehouse. *)

\* An hour arrives or is restated.
Change(s, o) ==
  /\ pc = "idle" /\ next = "none" /\ changes < MaxChanges
  /\ raw' = [raw EXCEPT ![s] = o]
  /\ changes' = changes + 1
  /\ UNCHANGED <<fact, daily, profile, next, whole, charts>>

\* The fact takes over the hours from some day on, all of them when it is new
\* or refreshed in full.
BuildFact(from) ==
  /\ pc = "idle" /\ next = "none"
  /\ (\A s \in Slots : ~HasRow(fact[s])) => from = Least(Days)
  /\ fact' = [s \in Slots |-> IF s[1] >= from THEN raw[s] ELSE fact[s]]
  /\ next' = "daily" /\ whole' = FALSE
  /\ UNCHANGED <<raw, daily, profile, changes, charts>>

BuildDaily ==
  /\ next = "daily"
  /\ daily' = Daily(fact)
  /\ next' = "profile"
  /\ UNCHANGED <<raw, fact, profile, whole, changes, charts>>

BuildProfile ==
  /\ next = "profile"
  /\ profile' = Profile(fact, daily)
  /\ next' = "none" /\ whole' = TRUE
  /\ UNCHANGED <<raw, fact, daily, changes, charts>>

\* A test at severity error, or a crash: the models downstream are skipped.
FailBuild ==
  /\ next # "none"
  /\ next' = "none"
  /\ UNCHANGED <<raw, fact, daily, profile, whole, changes, charts>>

-----------------------------------------------------------------------------
(* The charts. *)

LatestMonth == Greatest({Month[row[1][1]] : row \in profile})
Latest      == {row \in profile : Month[row[1][1]] = LatestMonth}
Averaged(rows) == {row[1][1] : row \in rows}

\* max(n_days) over the local hours.
NDays == Greatest({Cardinality(Averaged({row \in Latest : LocalHour(row[1]) = h}))
                     : h \in {LocalHour(row[1]) : row \in Latest}})

\* Mistake: the range of the days complete for demand alone.
RangeOfDemandDays == {r.day : r \in {q \in daily : q.complete /\ Month[q.day] = LatestMonth}}

\* The days whose range labels a month that is not full.
LabelRange == {d \in ProfileDays(daily) : Month[d] = LatestMonth}

\* pick_profile_window: "June 2026 average", or "Jun 1-20, average of n days".
Label == IF NDays >= DaysIn[LatestMonth]
           THEN [full |-> TRUE, from |-> 0, to |-> 0, n |-> NDays]
           ELSE [full |-> FALSE, from |-> Least(LabelRange), to |-> Greatest(LabelRange), n |-> NDays]

\* The mart is empty, or the label's query finds no day.
NoDuck == \/ profile = {}
          \/ profile # {} /\ NDays < DaysIn[LatestMonth] /\ LabelRange = {}

ShareDays ==
  {r \in daily : /\ r.complete /\ r.mix
                 /\ r.day > Greatest({q.day : q \in daily}) - WindowDays}

StartDraw ==
  /\ pc = "idle" /\ next = "none" /\ draws < MaxDraws
  /\ draws' = draws + 1
  /\ pc' = "duck"
  /\ UNCHANGED <<warehouse, tmp, shown, torn>>

\* SystemExit, an empty range or a DuckDB error: unlink what was rendered.
Refuse ==
  /\ \/ pc = "duck" /\ NoDuck
     \/ pc = "share" /\ ShareDays = {}
  /\ tmp' = [duck |-> None, share |-> None]
  /\ pc' = "idle"
  /\ UNCHANGED <<warehouse, draws, shown, torn>>

\* Mistake: each chart goes straight to its place.
DuckInPlace ==
  /\ pc = "duck" /\ ~NoDuck
  /\ shown' = [shown EXCEPT !.duck = [rows |-> Latest, label |-> Label, whole |-> whole, draw |-> draws]]
  /\ tmp' = [tmp EXCEPT !.duck = shown'.duck]
  /\ pc' = "share"
  /\ UNCHANGED <<warehouse, draws, torn>>

\* Rendered to a file of its own; nothing published changes yet.
DuckCurve ==
  /\ pc = "duck" /\ ~NoDuck
  /\ tmp' = [tmp EXCEPT !.duck = [rows |-> Latest, label |-> Label, whole |-> whole, draw |-> draws]]
  /\ pc' = "share"
  /\ UNCHANGED <<warehouse, draws, shown, torn>>

\* Mistake: without a day to show the script goes on.
ShareOrNothing ==
  /\ pc = "share"
  /\ tmp' = IF ShareDays = {} THEN tmp
            ELSE [tmp EXCEPT !.share = [rows |-> ShareDays, draw |-> draws]]
  /\ pc' = "first"
  /\ UNCHANGED <<warehouse, draws, shown, torn>>

\* The complete days of the last 90, rendered likewise.
RenewableShare ==
  /\ pc = "share" /\ ShareDays # {}
  /\ tmp' = [tmp EXCEPT !.share = [rows |-> ShareDays, draw |-> draws]]
  /\ pc' = "first"
  /\ UNCHANGED <<warehouse, draws, shown, torn>>

\* os.replace, one chart after the other.
ReplaceFirst ==
  /\ pc = "first"
  /\ shown' = [shown EXCEPT !.duck = tmp.duck]
  /\ tmp' = [tmp EXCEPT !.duck = None]
  /\ pc' = "second"
  /\ UNCHANGED <<warehouse, draws, torn>>

ReplaceSecond ==
  /\ pc = "second"
  /\ shown' = [shown EXCEPT !.share = tmp.share]
  /\ tmp' = [tmp EXCEPT !.share = None]
  /\ torn' = FALSE
  /\ pc' = "idle"
  /\ UNCHANGED <<warehouse, draws>>

\* An error anywhere, the rename's own included, or Ctrl-C: the handler unlinks
\* what was rendered, and cannot take back a rename.
Interrupt ==
  /\ pc # "idle"
  /\ tmp' = [duck |-> None, share |-> None]
  /\ torn' = (torn \/ pc = "second")
  /\ pc' = "idle"
  /\ UNCHANGED <<warehouse, draws, shown>>

\* SIGKILL: no handler runs, what was rendered stays.
Kill ==
  /\ pc # "idle"
  /\ torn' = (torn \/ pc = "second")
  /\ pc' = "idle"
  /\ UNCHANGED <<warehouse, draws, tmp, shown>>

-----------------------------------------------------------------------------
Init ==
  /\ \E s \in Slots, o \in Odd : raw = [t \in Slots |-> IF t = s THEN o ELSE Good]
  /\ fact = [s \in Slots |-> Silent]
  /\ daily = {} /\ profile = {}
  /\ next = "none" /\ whole = FALSE
  /\ changes = 0 /\ draws = 0
  /\ pc = "idle"
  /\ tmp = [duck |-> None, share |-> None]
  /\ shown = tmp
  /\ torn = FALSE

Next ==
  \/ \E s \in Slots, o \in Restated : Change(s, o)
  \/ \E d \in Days : BuildFact(d)
  \/ BuildDaily \/ BuildProfile \/ FailBuild
  \/ StartDraw \/ DuckCurve \/ RenewableShare \/ Refuse
  \/ ReplaceFirst \/ ReplaceSecond \/ Interrupt \/ Kill

Spec == Init /\ [][Next]_vars

\* No hour has a demand and a generation that are absurd alike: together they
\* satisfy the identity, and no flag of the code can tell.
NoTwins == \A o \in Odd \union Restated : ~(o["D"] = "absurd" /\ o["NG"] = "absurd")

-----------------------------------------------------------------------------
Duck  == shown.duck
Share == shown.share

TypeOK ==
  /\ raw \in [Slots -> Hour] /\ fact \in [Slots -> Hour]
  /\ {r.day : r \in daily} \subseteq Days /\ Averaged(profile) \subseteq Days
  /\ next \in {"none", "daily", "profile"} /\ whole \in BOOLEAN
  /\ changes \in 0..MaxChanges /\ draws \in 0..MaxDraws
  /\ pc \in {"idle", "duck", "share", "first", "second"}
  /\ torn \in BOOLEAN
  /\ pc = "first" => tmp.duck # None /\ tmp.share # None

\* The duck curve shows no hour whose demand is missing, flagged or at odds with
\* generation and interchange, nor one whose solar value is missing or absurd:
\* none of the hours the generator plants reaches it (fct_grid_hourly.sql,
\* "Missing is not zero").
DuckIsSound ==
  Duck # None => \A row \in Duck.rows :
    /\ \A s \in Metrics : row[2][s] = "ok"
    /\ row[2]["SUN"] = "ok"

\* Every local hour of the duck curve averages the same days, each of them once
\* (mart_hourly_profile.sql: "every series averages over the same days").
SameDays ==
  Duck # None => \A h \in 0..(Standard - 1) :
    LET at == {row \in Duck.rows : LocalHour(row[1]) = h} IN
    /\ Averaged(at) = Averaged(Duck.rows)
    /\ Cardinality(at) = Cardinality(Averaged(at))

\* A point of the share chart stands for a whole day, every fuel value there and
\* in order, on an hour whose demand is sound (mart_grid_daily.sql: an
\* "incomplete denominator ... silently inflates renewable share").
SharesAreWhole ==
  Share # None => \A r \in Share.rows :
    /\ {row[1] : row \in r.hours} = {s \in Slots : s[1] = r.day}
    /\ \A row \in r.hours : row[2] = Good

\* The label of the duck curve names the days it averages: a month only when all
\* its days are there, else their first and last and how many they are, unless
\* the build before it failed (pick_profile_window, "an honest label").
LabelNamesItsDays ==
  Duck # None /\ Duck.whole =>
    LET days == Averaged(Duck.rows)
        month == Month[Least(days)] IN
    /\ Duck.label.n = Cardinality(days)
    /\ IF Duck.label.full THEN Cardinality(days) = DaysIn[month]
       ELSE Duck.label.from = Least(days) /\ Duck.label.to = Greatest(days)

\* The two published charts come from one run of the script, except after an error
\* or a kill between the renames (main: "if either fails, no published chart
\* changes").
PairBelongsTogether ==
  pc # "second" /\ ~torn =>
    \/ Duck = None /\ Share = None
    \/ Duck # None /\ Share # None /\ Duck.draw = Share.draw
=============================================================================
