-------------------------------- MODULE Marts --------------------------------
(***************************************************************************)
(* What the dbt models make of one authority's hours: the validity flags   *)
(* of fct_grid_hourly, the complete days of mart_grid_daily and the days   *)
(* that mart_hourly_profile averages.                                      *)
(*                                                                         *)
(* An hour is what its rows look like: a value is in order, null,          *)
(* negative, absurd (400 GWh), beyond the ceiling of 500,000 MWh, or the   *)
(* row is absent.  The authority is expected to report solar and coal; NEW *)
(* is a fuel code the seed does not know.                                  *)
(***************************************************************************)
EXTENDS Integers, FiniteSets

CONSTANTS
  Clock,     \* Clock[d]: the local hours of day d, one per hour; 25 when it falls back
  Standard,  \* how many hours an ordinary day has
  Month,     \* Month[d]: the calendar month of day d
  DaysIn     \* DaysIn[m]: how many days month m has

Days    == DOMAIN Clock
Slots   == {s \in Days \X (1..(Standard + 1)) : s[2] \in DOMAIN Clock[s[1]]}
Metrics == {"D", "NG", "TI"}
Fuels   == {"SUN", "COL", "NEW"}
Values  == {"ok", "null", "none", "negative", "absurd", "huge"}
Hour    == [Metrics \union Fuels -> Values]

ASSUME MartsAssumption ==
  /\ Standard \in Nat \ {0}
  /\ Days \subseteq Nat /\ IsFiniteSet(Days)
  /\ \A d \in Days : DOMAIN Clock[d] \in {1..(Standard - 1), 1..Standard, 1..(Standard + 1)}
  /\ \A d \in Days : Month[d] \in Nat /\ DaysIn[Month[d]] \in Nat

\* An ordinary day has every local hour once, and no month more days than it has.
ASSUME CalendarAssumption ==
  /\ \A d \in Days : DOMAIN Clock[d] = 1..Standard =>
       /\ \A i \in 1..Standard : Clock[d][i] \in 0..(Standard - 1)
       /\ \A h \in 0..(Standard - 1) :
            \E i \in 1..Standard : \A j \in 1..Standard : Clock[d][j] = h <=> j = i
  /\ \A d \in Days : Cardinality({e \in Days : Month[e] = Month[d]}) <= DaysIn[Month[d]]

-----------------------------------------------------------------------------
(* The hours the fixture generator plants, and two that its nulls give. *)

Good     == [s \in Metrics \union Fuels |-> IF s = "NEW" THEN "none" ELSE "ok"]
Silent   == [s \in Metrics \union Fuels |-> "none"]
NoDemand == [Good EXCEPT !["D"] = "none"]
Glitches ==
  { [Good EXCEPT !["D"] = "negative"],                    \* GLITCH_NEG_DEMAND
    [Good EXCEPT !["SUN"] = "none", !["COL"] = "none"],   \* GLITCH_NO_FUEL
    [Good EXCEPT !["SUN"] = "none"],                      \* GLITCH_NO_SOLAR
    NoDemand,                                             \* GLITCH_NO_DEMAND
    [Good EXCEPT !["SUN"] = "huge"],                      \* GLITCH_FUEL_OUTLIER
    [Good EXCEPT !["D"] = "absurd", !["NG"] = "none"] }   \* GLITCH_UNVERIFIABLE
Nulls == {[Good EXCEPT !["SUN"] = "null"], [Good EXCEPT !["COL"] = "null"]}

-----------------------------------------------------------------------------
(* One hour: the staging flags, the pivot and the fact. *)

Missing(v) == v \in {"null", "none"}

HasRow(o)   == \E s \in Metrics : o[s] # "none"
Negative(o) == o["D"] = "negative" \/ o["NG"] = "negative"
Outlier(o)  == \E s \in Metrics : o[s] = "huge"

\* demand = net generation - interchange, within the band: a value that is off
\* breaks it, unless another one is off with it.
Evaluable(o)  == \A s \in Metrics : ~Missing(o[s])
ResidualOK(o) == o["D"] = o["NG"] /\ o["TI"] = "ok"

\* Mistake: what cannot be checked is trusted.
TrustedUnlessChecked(o) == Evaluable(o) => ResidualOK(o)

IdentityValid(o) == Evaluable(o) /\ ResidualOK(o)

FuelReported(o) == \E f \in Fuels : o[f] # "none"
VreAbsent(o)    == FuelReported(o) /\ o["SUN"] = "none"
GroupAbsent(o)  == FuelReported(o) /\ \E f \in {"SUN", "COL"} : o[f] = "none"
FuelOutlier(o)  == \E f \in Fuels : o[f] = "huge"

\* More than three times the hour's own net generation.
Implausible(o) ==
  /\ ~Missing(o["NG"]) /\ o["NG"] # "absurd"
  /\ \E f \in Fuels : o[f] \in {"absurd", "huge"}

\* Mistake: a solar row that is not there counts as no solar.
NetLoadUnlessNull(o) ==
  /\ IdentityValid(o) /\ FuelReported(o)
  /\ o["SUN"] \notin {"null", "negative"}
  /\ ~FuelOutlier(o) /\ ~Implausible(o)

NetLoadValid(o) ==
  /\ IdentityValid(o) /\ FuelReported(o)
  /\ ~VreAbsent(o) /\ o["SUN"] \notin {"null", "negative"}
  /\ ~FuelOutlier(o) /\ ~Implausible(o)

\* Mistake: valid for net load is taken for valid for shares.
MixLikeNetLoad(o) == NetLoadValid(o)

FuelMixValid(o) ==
  /\ FuelReported(o)
  /\ \A f \in Fuels : o[f] \notin {"null", "negative"}
  /\ ~FuelOutlier(o) /\ ~GroupAbsent(o) /\ ~Implausible(o)
  /\ o["NEW"] = "none"

-----------------------------------------------------------------------------
(* The marts, from a fact that maps every slot to its hour. *)

\* The hours a daily row sums over.
Clean(f, d) ==
  {s \in Slots : s[1] = d /\ ~Negative(f[s]) /\ ~Outlier(f[s]) /\ IdentityValid(f[s])}

\* mart_grid_daily: one row for each day with a clean hour.  hours_expected is
\* counted between two local midnights.
DailyRow(f, d) ==
  LET clean == Clean(f, d)
      all(S) == Cardinality(S) = Cardinality(DOMAIN Clock[d]) IN
  [day      |-> d,
   hours    |-> {<<s, f[s]>> : s \in clean},
   complete |-> all(clean),
   netload  |-> all({s \in clean : NetLoadValid(f[s])}),
   mix      |-> all({s \in clean : FuelMixValid(f[s])}),
   standard |-> Cardinality(DOMAIN Clock[d]) = Standard]

Daily(f) == {DailyRow(f, d) : d \in {e \in Days : Clean(f, e) # {}}}

\* Mistake: a day of 23 or 25 hours is averaged like any other.
ProfileDaysOfAnyLength(daily) == {r.day : r \in {q \in daily : q.complete /\ q.netload}}

\* complete_days of mart_hourly_profile.
ProfileDays(daily) ==
  {r.day : r \in {q \in daily : q.complete /\ q.netload /\ q.standard}}

\* The rows that are averaged, by month and local hour.
Profile(f, daily) ==
  {<<s, f[s]>> : s \in {t \in Slots : /\ t[1] \in ProfileDays(daily)
                                       /\ ~Negative(f[t]) /\ ~Outlier(f[t])}}

LocalHour(s) == Clock[s[1]][s[2]]
=============================================================================
