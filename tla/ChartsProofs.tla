----------------------------- MODULE ChartsProofs -----------------------------
(***************************************************************************)
(* Theorems about module Charts, for any calendar, any clock changes, any  *)
(* hours and any order of builds, charts, errors and kills.                *)
(*                                                                         *)
(* The argument: a day is complete when as many of its hours are clean as  *)
(* it has, and then all of them are; what a table holds was sound when it  *)
(* was written, whatever has happened to the tables before it since.       *)
(***************************************************************************)
EXTENDS Charts, FunctionTheorems, FiniteSetTheorems, SetLemmas, TLAPS

LEMMA ConstantsTyped ==
  /\ Standard \in Nat \ {0} /\ Days \subseteq Nat /\ IsFiniteSet(Days)
  /\ \A d \in Days : Month[d] \in Nat /\ DaysIn[Month[d]] \in Nat
  /\ Odd \subseteq Hour /\ Restated \subseteq Hour /\ WindowDays \in Nat \ {0}
  /\ MaxChanges \in Nat /\ MaxDraws \in Nat
BY MartsAssumption, ChartsAssumption DEF MartsAssumption, ChartsAssumption

LEMMA DayHours ==
  ASSUME NEW d \in Days
  PROVE  /\ IsFiniteSet(DOMAIN Clock[d]) /\ DOMAIN Clock[d] \subseteq 1..(Standard + 1)
         /\ Cardinality(DOMAIN Clock[d]) = Standard => DOMAIN Clock[d] = 1..Standard
<1>1. DOMAIN Clock[d] \in {1..(Standard - 1), 1..Standard, 1..(Standard + 1)}
  BY MartsAssumption DEF MartsAssumption
<1>3. Standard \in Nat /\ Standard >= 1
  BY ConstantsTyped
<1>0. 1 \in Int /\ Standard - 1 \in Int /\ Standard \in Int /\ Standard + 1 \in Int
  BY <1>3
<1>a. /\ IsFiniteSet(1..(Standard - 1))
      /\ Cardinality(1..(Standard - 1)) = IF 1 > Standard - 1 THEN 0 ELSE (Standard - 1) - 1 + 1
  BY <1>0, FS_Interval
<1>b. IsFiniteSet(1..Standard)
  BY <1>0, FS_Interval
<1>c. /\ IsFiniteSet(1..(Standard + 1))
      /\ Cardinality(1..(Standard + 1)) = IF 1 > Standard + 1 THEN 0 ELSE (Standard + 1) - 1 + 1
  BY <1>0, FS_Interval
<1>2. /\ IsFiniteSet(1..(Standard - 1)) /\ Cardinality(1..(Standard - 1)) = Standard - 1
      /\ IsFiniteSet(1..Standard) /\ IsFiniteSet(1..(Standard + 1))
      /\ Cardinality(1..(Standard + 1)) = Standard + 1
  BY <1>3, <1>a, <1>b, <1>c
<1>4. CASE DOMAIN Clock[d] = 1..(Standard - 1)
  BY <1>2, <1>3, <1>4
<1>5. CASE DOMAIN Clock[d] = 1..Standard
  BY <1>2, <1>3, <1>5
<1>6. CASE DOMAIN Clock[d] = 1..(Standard + 1)
  BY <1>2, <1>3, <1>6
<1> QED BY <1>1, <1>4, <1>5, <1>6

SlotsOf(d) == {s \in Slots : s[1] = d}

LEMMA SlotsTyped ==
  /\ \A s \in Slots : s[1] \in Days /\ s[2] \in DOMAIN Clock[s[1]] /\ s = <<s[1], s[2]>>
  /\ \A d \in Days : \A i \in DOMAIN Clock[d] : <<d, i>> \in Slots
<1>1. \A s \in Slots : s[1] \in Days /\ s[2] \in DOMAIN Clock[s[1]] /\ s = <<s[1], s[2]>>
  BY DEF Slots
<1>2. \A d \in Days : \A i \in DOMAIN Clock[d] : <<d, i>> \in Slots
  BY DayHours DEF Slots
<1> QED BY <1>1, <1>2

\* A day has one slot for each of its hours.
LEMMA DaySlots ==
  ASSUME NEW d \in Days
  PROVE  IsFiniteSet(SlotsOf(d)) /\ Cardinality(SlotsOf(d)) = Cardinality(DOMAIN Clock[d])
<1> DEFINE f == [i \in DOMAIN Clock[d] |-> <<d, i>>]
<1>1. f \in [DOMAIN Clock[d] -> SlotsOf(d)]
  BY SlotsTyped DEF SlotsOf
<1>2. \A i, j \in DOMAIN Clock[d] : f[i] = f[j] => i = j
  OBVIOUS
<1>3. \A s \in SlotsOf(d) : \E i \in DOMAIN Clock[d] : f[i] = s
  BY SlotsTyped DEF SlotsOf
<1>4. f \in Bijection(DOMAIN Clock[d], SlotsOf(d))
  BY <1>1, <1>2, <1>3 DEF Bijection, Injection, Surjection, IsInjective
<1> QED BY <1>4, DayHours, FS_Bijection DEF ExistsBijection

\* As many of its hours as the day has are all of them.
LEMMA AllOfDay ==
  ASSUME NEW d \in Days, NEW T \in SUBSET SlotsOf(d), Cardinality(T) = Cardinality(DOMAIN Clock[d])
  PROVE  T = SlotsOf(d)
BY DaySlots, FS_Subset

-----------------------------------------------------------------------------
(* One hour: what passes the checks is in order.                             *)

Planted == Odd \union Restated \union {Good, Silent}

LEMMA PlantedTyped == Planted \subseteq Hour
<1>1. Good \in Hour /\ Silent \in Hour
  BY DEF Good, Silent, Hour, Values
<1> QED BY <1>1, ConstantsTyped DEF Planted

LEMMA CleanIsSound ==
  ASSUME NoTwins, NEW o \in Planted, ~Negative(o), ~Outlier(o), IdentityValid(o)
  PROVE  \A s \in Metrics : o[s] = "ok"
<1>1. o \in Hour
  BY PlantedTyped
<1>2. o["D"] \in Values /\ o["NG"] \in Values
  BY <1>1 DEF Hour, Metrics
<1>3. ~(o["D"] = "absurd" /\ o["NG"] = "absurd")
  <2>1. CASE o \in {Good, Silent}
    BY <2>1 DEF Good, Silent, Metrics, Fuels
  <2> QED BY <2>1 DEF NoTwins, Planted
<1>4. o["D"] = o["NG"] /\ o["TI"] = "ok" /\ o["D"] \notin {"null", "none"}
  BY DEF IdentityValid, ResidualOK, Evaluable, Missing, Metrics
<1>5. o["D"] # "negative" /\ o["D"] # "huge"
  BY DEF Negative, Outlier, Metrics
<1> QED BY <1>2, <1>3, <1>4, <1>5 DEF Values, Metrics

LEMMA NetLoadIsSound ==
  ASSUME NEW o \in Planted, o["NG"] = "ok", NetLoadValid(o)
  PROVE  o["SUN"] = "ok"
<1>1. o["SUN"] \in Values
  BY PlantedTyped DEF Hour, Fuels
<1>2. o["SUN"] \notin {"none", "null", "negative", "huge"}
  BY DEF NetLoadValid, VreAbsent, FuelOutlier, Fuels
<1>3. o["SUN"] # "absurd"
  BY DEF NetLoadValid, Implausible, Missing, Fuels
<1> QED BY <1>1, <1>2, <1>3 DEF Values

LEMMA MixIsGood ==
  ASSUME NEW o \in Planted, \A s \in Metrics : o[s] = "ok", FuelMixValid(o)
  PROVE  o = Good
<1>1. o \in [Metrics \union Fuels -> Values]
  BY PlantedTyped DEF Hour
<1>2. \A f \in {"SUN", "COL"} : o[f] = "ok"
  <2> SUFFICES ASSUME NEW f \in {"SUN", "COL"} PROVE o[f] = "ok"
    OBVIOUS
  <2>1. o[f] \in Values /\ f \in Fuels
    BY <1>1 DEF Fuels
  <2>2. o[f] \notin {"none", "null", "negative", "huge"}
    BY <2>1 DEF FuelMixValid, GroupAbsent, FuelOutlier
  <2>3. o["NG"] = "ok"
    BY DEF Metrics
  <2>4. o[f] # "absurd"
    BY <2>1, <2>3 DEF FuelMixValid, Implausible, Missing
  <2> QED BY <2>1, <2>2, <2>4 DEF Values
<1>3. o["NEW"] = "none"
  BY DEF FuelMixValid
<1>4. \A s \in Metrics \union Fuels : o[s] = IF s = "NEW" THEN "none" ELSE "ok"
  BY <1>2, <1>3 DEF Metrics, Fuels
<1> QED BY <1>1, <1>4 DEF Good

-----------------------------------------------------------------------------
(* The marts. *)

\* A daily row that is complete stands for all hours of its day.
LEMMA DailyComplete ==
  ASSUME NEW f, NEW q \in Daily(f)
  PROVE  /\ q.day \in Days
         /\ q.complete => /\ Clean(f, q.day) = SlotsOf(q.day)
                          /\ q.hours = {<<s, f[s]>> : s \in SlotsOf(q.day)}
         /\ q.netload => \A s \in SlotsOf(q.day) : s \in Clean(f, q.day) /\ NetLoadValid(f[s])
         /\ q.mix => \A s \in SlotsOf(q.day) : s \in Clean(f, q.day) /\ FuelMixValid(f[s])
         /\ q.standard => DOMAIN Clock[q.day] = 1..Standard
<1>1. PICK d \in Days : q = DailyRow(f, d)
  BY DEF Daily
<1> DEFINE clean == Clean(f, d)
           net   == {s \in clean : NetLoadValid(f[s])}
           mix   == {s \in clean : FuelMixValid(f[s])}
           all(S) == Cardinality(S) = Cardinality(DOMAIN Clock[d])
<1>2. /\ q.day = d /\ q.hours = {<<s, f[s]>> : s \in clean}
      /\ q.complete = all(clean) /\ q.netload = all(net) /\ q.mix = all(mix)
      /\ q.standard = (Cardinality(DOMAIN Clock[d]) = Standard)
  BY <1>1 DEF DailyRow
<1>3. clean \in SUBSET SlotsOf(d) /\ net \in SUBSET SlotsOf(d) /\ mix \in SUBSET SlotsOf(d)
  BY DEF Clean, SlotsOf
<1>4. q.complete => clean = SlotsOf(d)
  BY <1>2, <1>3, AllOfDay
<1>5. q.netload => net = SlotsOf(d)
  BY <1>2, <1>3, AllOfDay
<1>6. q.mix => mix = SlotsOf(d)
  BY <1>2, <1>3, AllOfDay
<1>7. q.standard => DOMAIN Clock[d] = 1..Standard
  BY <1>2, DayHours
<1> QED BY <1>2, <1>4, <1>5, <1>6, <1>7

LEMMA DailyTyped == ASSUME NEW f PROVE {r.day : r \in Daily(f)} \subseteq Days
BY DailyComplete

\* The days the profile averages, from a daily mart of the same fact.
LEMMA ProfileDay ==
  ASSUME NEW f, NEW d \in ProfileDays(Daily(f))
  PROVE  /\ d \in Days /\ DOMAIN Clock[d] = 1..Standard
         /\ \A s \in SlotsOf(d) : /\ ~Negative(f[s]) /\ ~Outlier(f[s])
                                  /\ IdentityValid(f[s]) /\ NetLoadValid(f[s])
<1>1. PICK q \in Daily(f) : q.complete /\ q.netload /\ q.standard /\ d = q.day
  BY DEF ProfileDays
<1>2. \A s \in SlotsOf(d) : s \in Clean(f, d) /\ NetLoadValid(f[s])
  BY <1>1, DailyComplete
<1>3. d \in Days /\ DOMAIN Clock[d] = 1..Standard
  BY <1>1, DailyComplete
<1> QED BY <1>2, <1>3 DEF Clean

\* The profile's rows are all hours of the days it averages, as the fact has them.
LEMMA ProfileRows ==
  ASSUME NEW f, NEW row
  PROVE  row \in Profile(f, Daily(f)) <=>
           \E s \in Slots : s[1] \in ProfileDays(Daily(f)) /\ row = <<s, f[s]>>
<1>1. ASSUME NEW s \in Slots, s[1] \in ProfileDays(Daily(f)) PROVE ~Negative(f[s]) /\ ~Outlier(f[s])
  BY <1>1, ProfileDay DEF SlotsOf
<1> QED BY <1>1 DEF Profile

-----------------------------------------------------------------------------
(* The warehouse: types, and what each table was when it was written.        *)

WarehouseInv ==
  /\ raw \in [Slots -> Hour] /\ fact \in [Slots -> Hour]
  /\ \A s \in Slots : raw[s] \in Planted /\ fact[s] \in Planted
  /\ next \in {"none", "daily", "profile"} /\ whole \in BOOLEAN
  /\ changes \in 0..MaxChanges
  /\ {r.day : r \in daily} \subseteq Days /\ Averaged(profile) \subseteq Days
  /\ next = "profile" => daily = Daily(fact)

LEMMA WarehouseInit == Init => WarehouseInv
<1> SUFFICES ASSUME Init PROVE WarehouseInv
  OBVIOUS
<1>1. PICK t \in Slots, o \in Odd : raw = [s \in Slots |-> IF s = t THEN o ELSE Good]
  BY DEF Init
<1>2. o \in Planted /\ Good \in Planted /\ Silent \in Planted
  BY DEF Planted
<1>3. raw \in [Slots -> Hour] /\ \A s \in Slots : raw[s] \in Planted
  BY <1>1, <1>2, PlantedTyped
<1>4. fact \in [Slots -> Hour] /\ \A s \in Slots : fact[s] \in Planted
  BY <1>2, PlantedTyped DEF Init
<1>5. whole \in BOOLEAN
  <2>1. whole = FALSE
    BY DEF Init
  <2> QED BY <2>1, Zenon
<1>6. next = "none" /\ changes \in 0..MaxChanges /\ daily = {} /\ profile = {}
  BY ConstantsTyped DEF Init
<1> QED BY <1>3, <1>4, <1>5, <1>6 DEF WarehouseInv, Averaged

LEMMA WarehouseStep == WarehouseInv /\ [Next]_vars => WarehouseInv'
<1> SUFFICES ASSUME WarehouseInv, [Next]_vars PROVE WarehouseInv'
  OBVIOUS
<1>t. /\ raw \in [Slots -> Hour] /\ fact \in [Slots -> Hour]
      /\ \A s \in Slots : raw[s] \in Planted /\ fact[s] \in Planted
      /\ next \in {"none", "daily", "profile"} /\ whole \in BOOLEAN
      /\ changes \in 0..MaxChanges
      /\ {r.day : r \in daily} \subseteq Days /\ Averaged(profile) \subseteq Days
      /\ next = "profile" => daily = Daily(fact)
  BY DEF WarehouseInv
<1>1. ASSUME NEW s \in Slots, NEW o \in Restated, Change(s, o) PROVE WarehouseInv'
  <2>1. o \in Planted /\ o \in Hour
    BY ConstantsTyped DEF Planted
  <2>2. raw' \in [Slots -> Hour] /\ \A t \in Slots : raw'[t] \in Planted
    BY <1>t, <1>1, <2>1 DEF Change
  <2>3. changes' \in 0..MaxChanges
    BY <1>t, <1>1, ConstantsTyped DEF Change
  <2>4. UNCHANGED <<fact, daily, profile, next, whole>>
    BY <1>1 DEF Change
  <2> QED BY <1>t, <2>2, <2>3, <2>4 DEF WarehouseInv, Averaged
<1>2. ASSUME NEW d \in Days, BuildFact(d) PROVE WarehouseInv'
  <2>1. fact' = [s \in Slots |-> IF s[1] >= d THEN raw[s] ELSE fact[s]]
    BY <1>2 DEF BuildFact
  <2>2. fact' \in [Slots -> Hour] /\ \A s \in Slots : fact'[s] \in Planted
    BY <1>t, <2>1
  <2>3. next' = "daily" /\ whole' = FALSE /\ UNCHANGED <<raw, daily, profile, changes>>
    BY <1>2 DEF BuildFact
  <2>4. whole' \in BOOLEAN
    BY <2>3, Zenon
  <2> QED BY <1>t, <2>2, <2>3, <2>4 DEF WarehouseInv, Averaged
<1>3. CASE BuildDaily
  <2>1. daily' = Daily(fact) /\ next' = "profile" /\ UNCHANGED <<raw, fact, profile, whole, changes>>
    BY <1>3 DEF BuildDaily
  <2>2. {r.day : r \in daily'} \subseteq Days
    BY <2>1, DailyTyped
  <2>3. daily' = Daily(fact)'
    BY <2>1 DEF Daily, DailyRow, Clean
  <2> QED BY <1>t, <2>1, <2>2, <2>3 DEF WarehouseInv, Averaged
<1>4. CASE BuildProfile
  <2>1. profile' = Profile(fact, daily) /\ daily = Daily(fact) /\ next' = "none" /\ whole' = TRUE
        /\ UNCHANGED <<raw, fact, daily, changes>>
    BY <1>t, <1>4 DEF BuildProfile
  <2>2. Averaged(profile)' \subseteq Days
    <3>1. \A row \in profile' : row[1][1] \in Days
      BY <2>1, SlotsTyped DEF Profile
    <3> QED BY <3>1 DEF Averaged
  <2>3. whole' \in BOOLEAN
    BY <2>1, Zenon
  <2> QED BY <1>t, <2>1, <2>2, <2>3 DEF WarehouseInv
<1>5. CASE FailBuild
  BY <1>t, <1>5 DEF FailBuild, WarehouseInv, Averaged
<1>6. CASE UNCHANGED warehouse
  <2>1. UNCHANGED <<raw, fact, daily, profile, next, whole, changes>>
    BY <1>6 DEF warehouse
  <2>2. Daily(fact)' = Daily(fact)
    BY <2>1 DEF Daily, DailyRow, Clean
  <2> QED BY <1>t, <2>1, <2>2 DEF WarehouseInv, Averaged
<1> QED BY <1>1, <1>2, <1>3, <1>4, <1>5, <1>6
        DEF Next, vars, warehouse, StartDraw, DuckCurve, RenewableShare, Refuse,
            ReplaceFirst, ReplaceSecond, Interrupt, Kill

-----------------------------------------------------------------------------
(* The two files of a chart: a new one is drawn from the tables as they are, *)
(* and only a drawn one is ever published.                                   *)

Files ==
  /\ tmp = [duck |-> tmp.duck, share |-> tmp.share]
  /\ shown = [duck |-> shown.duck, share |-> shown.share]

DuckDrawn  == [rows |-> Latest, label |-> Label, whole |-> whole, draw |-> draws]
ShareDrawn == [rows |-> ShareDays, draw |-> draws]

LEMMA FilesInit ==
  Init => Files /\ tmp.duck = None /\ tmp.share = None /\ shown.duck = None /\ shown.share = None
BY DEF Init, Files

LEMMA FilesStep ==
  ASSUME Files, [Next]_vars
  PROVE  /\ Files'
         /\ \/ tmp'.duck \in {tmp.duck, None}
            \/ DuckCurve /\ tmp'.duck = DuckDrawn
         /\ \/ tmp'.share \in {tmp.share, None}
            \/ RenewableShare /\ tmp'.share = ShareDrawn
         /\ shown'.duck \in {shown.duck, tmp.duck}
         /\ shown'.share \in {shown.share, tmp.share}
<1>1. CASE UNCHANGED <<tmp, shown>>
  BY <1>1 DEF Files
<1>2. CASE DuckCurve
  <2>1. tmp' = [duck |-> DuckDrawn, share |-> tmp.share] /\ shown' = shown
    BY <1>2 DEF DuckCurve, DuckDrawn, Files
  <2> QED BY <1>2, <2>1 DEF Files
<1>3. CASE RenewableShare
  <2>1. tmp' = [duck |-> tmp.duck, share |-> ShareDrawn] /\ shown' = shown
    BY <1>3 DEF RenewableShare, ShareDrawn, Files
  <2> QED BY <1>3, <2>1 DEF Files
<1>4. CASE Refuse
  BY <1>4 DEF Refuse, Files
<1>7. CASE Interrupt
  BY <1>7 DEF Interrupt, Files
<1>5. CASE ReplaceFirst
  <2>1. tmp' = [duck |-> None, share |-> tmp.share]
    BY <1>5 DEF ReplaceFirst, Files
  <2>2. shown' = [duck |-> tmp.duck, share |-> shown.share]
    BY <1>5 DEF ReplaceFirst, Files
  <2> QED BY <2>1, <2>2 DEF Files
<1>6. CASE ReplaceSecond
  <2>1. tmp' = [duck |-> tmp.duck, share |-> None]
    BY <1>6 DEF ReplaceSecond, Files
  <2>2. shown' = [duck |-> shown.duck, share |-> tmp.share]
    BY <1>6 DEF ReplaceSecond, Files
  <2> QED BY <2>1, <2>2 DEF Files
<1> QED BY <1>1, <1>2, <1>3, <1>4, <1>5, <1>6, <1>7
        DEF Next, vars, charts, Change, BuildFact, BuildDaily, BuildProfile, FailBuild, StartDraw, Kill

\* The profile changes in one place.
LEMMA ProfileStep ==
  ASSUME WarehouseInv, [Next]_vars
  PROVE  profile' = profile \/ profile' = Profile(fact, Daily(fact))
BY DEF WarehouseInv, Next, vars, warehouse, charts, Change, BuildFact, BuildDaily, BuildProfile,
       FailBuild, StartDraw, DuckCurve, RenewableShare, Refuse, ReplaceFirst, ReplaceSecond, Interrupt, Kill

\* So does the daily mart.
LEMMA DailyStep ==
  ASSUME [Next]_vars
  PROVE  daily' = daily \/ daily' = Daily(fact)
BY DEF Next, vars, warehouse, charts, Change, BuildFact, BuildDaily, BuildProfile,
       FailBuild, StartDraw, DuckCurve, RenewableShare, Refuse, ReplaceFirst, ReplaceSecond, Interrupt, Kill

-----------------------------------------------------------------------------
(* No flagged hour reaches the duck curve. *)

SoundRow(row) == (\A s \in Metrics : row[2][s] = "ok") /\ row[2]["SUN"] = "ok"
SoundFile(c)  == c # None => \A row \in c.rows : SoundRow(row)
SoundInv ==
  /\ \A row \in profile : SoundRow(row)
  /\ SoundFile(tmp.duck) /\ SoundFile(shown.duck)

\* A profile of sound or planted hours averages sound ones only.
LEMMA ProfileIsSound ==
  ASSUME NoTwins, NEW f, \A s \in Slots : f[s] \in Planted, NEW row \in Profile(f, Daily(f))
  PROVE  SoundRow(row)
<1>1. PICK s \in Slots : s[1] \in ProfileDays(Daily(f)) /\ row = <<s, f[s]>>
  BY ProfileRows
<1>2. ~Negative(f[s]) /\ ~Outlier(f[s]) /\ IdentityValid(f[s]) /\ NetLoadValid(f[s])
  BY <1>1, ProfileDay DEF SlotsOf
<1>3. f[s] \in Planted
  OBVIOUS
<1>4. \A m \in Metrics : f[s][m] = "ok"
  BY <1>2, <1>3, CleanIsSound
<1>5. f[s]["SUN"] = "ok"
  BY <1>2, <1>3, <1>4, NetLoadIsSound DEF Metrics
<1> QED BY <1>1, <1>4, <1>5 DEF SoundRow

LEMMA SoundStep ==
  ASSUME NoTwins
  PROVE  WarehouseInv /\ Files /\ SoundInv /\ [Next]_vars => SoundInv'
<1> SUFFICES ASSUME WarehouseInv, Files, SoundInv, [Next]_vars PROVE SoundInv'
  OBVIOUS
<1>1. \A row \in profile' : SoundRow(row)
  BY ProfileStep, ProfileIsSound DEF SoundInv, WarehouseInv
<1>2. SoundFile(tmp'.duck)
  <2>1. CASE tmp'.duck \in {tmp.duck, None}
    BY <2>1 DEF SoundInv, SoundFile
  <2>2. CASE tmp'.duck = DuckDrawn
    <3>1. tmp'.duck.rows = Latest
      BY <2>2 DEF DuckDrawn
    <3> QED BY <3>1 DEF SoundInv, SoundFile, Latest
  <2> QED BY <2>1, <2>2, FilesStep
<1>3. SoundFile(shown'.duck)
  BY FilesStep DEF SoundInv
<1>4. SoundFile(tmp.duck)' /\ SoundFile(shown.duck)'
  BY <1>2, <1>3 DEF SoundFile
<1> QED BY <1>1, <1>4 DEF SoundInv

\* The duck curve shows no hour with a value missing, flagged or at odds with
\* the others, whatever the calendar, the planted hours and the order of builds
\* and charts, as long as no hour is off in demand and generation alike, which
\* no check of the pipeline could tell (fct_grid_hourly.sql, identity_valid).
THEOREM CurvesAreSound == ASSUME NoTwins PROVE Spec => []DuckIsSound
<1>1. Init => WarehouseInv /\ Files /\ SoundInv
  BY WarehouseInit, FilesInit DEF SoundInv, SoundFile, Init
<1>2. WarehouseInv /\ Files /\ SoundInv /\ [Next]_vars => (WarehouseInv /\ Files /\ SoundInv)'
  BY WarehouseStep, FilesStep, SoundStep
<1>3. SoundInv => DuckIsSound
  BY DEF SoundInv, SoundFile, SoundRow, DuckIsSound, Duck
<1> QED BY <1>1, <1>2, <1>3, PTL DEF Spec

-----------------------------------------------------------------------------
(* A point of the share chart is a whole day. *)

WholeDay(r) ==
  /\ {row[1] : row \in r.hours} = SlotsOf(r.day)
  /\ \A row \in r.hours : row[2] = Good
WholeFile(c) == c # None => \A r \in c.rows : WholeDay(r)
WholeInv ==
  /\ \A r \in daily : r.complete /\ r.mix => WholeDay(r)
  /\ WholeFile(tmp.share) /\ WholeFile(shown.share)

LEMMA DailyIsWhole ==
  ASSUME NoTwins, NEW f, \A s \in Slots : f[s] \in Planted, NEW r \in Daily(f), r.complete, r.mix
  PROVE  WholeDay(r)
<1>1. r.hours = {<<s, f[s]>> : s \in SlotsOf(r.day)}
  BY DailyComplete
<1>2. ASSUME NEW s \in SlotsOf(r.day) PROVE f[s] = Good
  <2>1. s \in Slots /\ f[s] \in Planted
    BY DEF SlotsOf
  <2>2. s \in Clean(f, r.day) /\ FuelMixValid(f[s])
    BY DailyComplete
  <2>3. ~Negative(f[s]) /\ ~Outlier(f[s]) /\ IdentityValid(f[s])
    BY <2>2 DEF Clean
  <2>4. \A m \in Metrics : f[s][m] = "ok"
    BY <2>1, <2>3, CleanIsSound
  <2> QED BY <2>1, <2>2, <2>4, MixIsGood
<1>3. {row[1] : row \in r.hours} = SlotsOf(r.day)
  <2>1. \A row \in r.hours : row[1] \in SlotsOf(r.day)
    BY <1>1
  <2>2. \A s \in SlotsOf(r.day) : <<s, f[s]>> \in r.hours /\ <<s, f[s]>>[1] = s
    BY <1>1
  <2> QED BY <2>1, <2>2
<1>4. \A row \in r.hours : row[2] = Good
  BY <1>1, <1>2
<1> QED BY <1>3, <1>4 DEF WholeDay

LEMMA WholeStep ==
  ASSUME NoTwins
  PROVE  WarehouseInv /\ Files /\ WholeInv /\ [Next]_vars => WholeInv'
<1> SUFFICES ASSUME WarehouseInv, Files, WholeInv, [Next]_vars PROVE WholeInv'
  OBVIOUS
<1>1. \A r \in daily' : r.complete /\ r.mix => WholeDay(r)
  BY DailyStep, DailyIsWhole DEF WholeInv, WarehouseInv
<1>2. WholeFile(tmp'.share)
  <2>1. CASE tmp'.share \in {tmp.share, None}
    BY <2>1 DEF WholeInv, WholeFile
  <2>2. CASE tmp'.share = ShareDrawn
    <3>1. tmp'.share.rows = ShareDays
      BY <2>2 DEF ShareDrawn
    <3> QED BY <3>1 DEF WholeInv, WholeFile, ShareDays
  <2> QED BY <2>1, <2>2, FilesStep
<1>3. WholeFile(shown'.share)
  BY FilesStep DEF WholeInv
<1>4. WholeFile(tmp.share)' /\ WholeFile(shown.share)'
  BY <1>2, <1>3 DEF WholeFile
<1> QED BY <1>1, <1>4 DEF WholeInv

\* A point of the share chart stands for all hours of its day, each with every
\* value there and in order; by the same argument and hypothesis as the curve's
\* (mart_grid_daily.sql, is_complete_day and fuel_mix_valid).
THEOREM PointsAreWholeDays == ASSUME NoTwins PROVE Spec => []SharesAreWhole
<1>1. Init => WarehouseInv /\ Files /\ WholeInv
  BY WarehouseInit, FilesInit DEF WholeInv, WholeFile, Init
<1>2. WarehouseInv /\ Files /\ WholeInv /\ [Next]_vars => (WarehouseInv /\ Files /\ WholeInv)'
  BY WarehouseStep, FilesStep, WholeStep
<1>3. WholeInv => SharesAreWhole
  BY DEF WholeInv, WholeFile, WholeDay, SharesAreWhole, Share, SlotsOf
<1> QED BY <1>1, <1>2, <1>3, PTL DEF Spec

-----------------------------------------------------------------------------
(* The two charts of one run, and the types. *)

\* The value for no file is no chart.
NoneApart ==
  /\ \A rows, label, built, draw :
       None # [rows |-> rows, label |-> label, whole |-> built, draw |-> draw]
  /\ \A rows, draw : None # [rows |-> rows, draw |-> draw]

Together(duck, share) ==
  \/ duck = None /\ share = None
  \/ duck # None /\ share # None /\ duck.draw = share.draw

PairInv ==
  /\ pc \in {"idle", "duck", "share", "first", "second"}
  /\ pc = "share" => tmp.duck # None /\ tmp.duck.draw = draws
  /\ pc = "first" => /\ tmp.duck # None /\ tmp.share # None
                     /\ tmp.duck.draw = draws /\ tmp.share.draw = draws
  /\ pc = "second" => /\ shown.duck # None /\ tmp.share # None
                      /\ shown.duck.draw = tmp.share.draw
  /\ pc # "second" /\ ~torn => Together(shown.duck, shown.share)
  /\ draws \in 0..MaxDraws /\ torn \in BOOLEAN

LEMMA PairInit == Init => PairInv
<1> SUFFICES ASSUME Init PROVE PairInv
  OBVIOUS
<1>1. pc = "idle" /\ draws \in 0..MaxDraws /\ Together(shown.duck, shown.share)
  BY ConstantsTyped, FilesInit DEF Init, Together
<1>2. torn \in BOOLEAN
  <2>1. torn = FALSE
    BY DEF Init
  <2> QED BY <2>1, Zenon
<1> QED BY <1>1, <1>2 DEF PairInv

LEMMA PairStep ==
  ASSUME NoneApart
  PROVE  Files /\ PairInv /\ [Next]_vars => PairInv'
<1> SUFFICES ASSUME Files, PairInv, [Next]_vars PROVE PairInv'
  OBVIOUS
<1>t. /\ pc \in {"idle", "duck", "share", "first", "second"}
      /\ pc = "share" => tmp.duck # None /\ tmp.duck.draw = draws
      /\ pc = "first" => /\ tmp.duck # None /\ tmp.share # None
                         /\ tmp.duck.draw = draws /\ tmp.share.draw = draws
      /\ pc = "second" => /\ shown.duck # None /\ tmp.share # None
                          /\ shown.duck.draw = tmp.share.draw
      /\ pc # "second" /\ ~torn => Together(shown.duck, shown.share)
      /\ draws \in 0..MaxDraws /\ torn \in BOOLEAN
  BY DEF PairInv
<1>1. CASE UNCHANGED charts
  BY <1>t, <1>1 DEF charts, PairInv, Together
<1>2. CASE StartDraw
  <2>1. /\ pc = "idle" /\ pc' = "duck" /\ draws' = draws + 1 /\ draws < MaxDraws
        /\ UNCHANGED <<tmp, shown, torn>>
    BY <1>2 DEF StartDraw
  <2>2. draws' \in 0..MaxDraws
    BY <1>t, <2>1, ConstantsTyped
  <2> QED BY <1>t, <2>1, <2>2 DEF PairInv, Together
<1>3. CASE DuckCurve
  <2>1. tmp' = [duck |-> DuckDrawn, share |-> tmp.share] /\ pc = "duck" /\ pc' = "share"
        /\ UNCHANGED <<draws, shown, torn>>
    BY <1>3 DEF DuckCurve, DuckDrawn, Files
  <2>2. DuckDrawn # None /\ DuckDrawn.draw = draws
    BY DEF DuckDrawn, NoneApart
  <2>3. tmp'.duck # None /\ tmp'.duck.draw = draws'
    BY <2>1, <2>2
  <2> QED BY <1>t, <2>1, <2>3 DEF PairInv, Together
<1>4. CASE RenewableShare
  <2>1. tmp' = [duck |-> tmp.duck, share |-> ShareDrawn] /\ pc = "share" /\ pc' = "first"
        /\ UNCHANGED <<draws, shown, torn>>
    BY <1>4 DEF RenewableShare, ShareDrawn, Files
  <2>2. ShareDrawn # None /\ ShareDrawn.draw = draws
    BY DEF ShareDrawn, NoneApart
  <2>3. tmp'.share # None /\ tmp'.share.draw = draws' /\ tmp'.duck = tmp.duck
    BY <2>1, <2>2
  <2> QED BY <1>t, <2>1, <2>3 DEF PairInv, Together
<1>5. CASE Refuse
  <2>1. pc \in {"duck", "share"} /\ pc' = "idle" /\ UNCHANGED <<draws, shown, torn>>
    BY <1>5 DEF Refuse
  <2> QED BY <1>t, <2>1 DEF PairInv, Together
<1>6. CASE ReplaceFirst
  <2>1. /\ tmp' = [duck |-> None, share |-> tmp.share]
        /\ shown' = [duck |-> tmp.duck, share |-> shown.share]
        /\ pc = "first" /\ pc' = "second" /\ UNCHANGED <<draws, torn>>
    BY <1>6 DEF ReplaceFirst, Files
  <2>2. shown'.duck = tmp.duck /\ tmp'.share = tmp.share
    BY <2>1
  <2> QED BY <1>t, <2>1, <2>2 DEF PairInv
<1>7. CASE ReplaceSecond
  <2>1. /\ shown' = [duck |-> shown.duck, share |-> tmp.share]
        /\ pc = "second" /\ pc' = "idle" /\ torn' = FALSE /\ UNCHANGED draws
    BY <1>7 DEF ReplaceSecond, Files
  <2>2. Together(shown'.duck, shown'.share)
    BY <1>t, <2>1 DEF Together
  <2>3. torn' \in BOOLEAN
    BY <2>1, Zenon
  <2> QED BY <1>t, <2>1, <2>2, <2>3 DEF PairInv, Together
<1>8. CASE Kill
  <2>1. /\ pc' = "idle" /\ torn' = (torn \/ pc = "second") /\ UNCHANGED <<draws, tmp, shown>>
    BY <1>8 DEF Kill
  <2>2. torn' \in BOOLEAN
    BY <2>1, Zenon
  <2>3. ~torn' => Together(shown'.duck, shown'.share)
    BY <1>t, <2>1
  <2> QED BY <1>t, <2>1, <2>2, <2>3 DEF PairInv, Together
<1>9. CASE Interrupt
  <2>1. /\ pc' = "idle" /\ torn' = (torn \/ pc = "second") /\ UNCHANGED <<draws, shown>>
    BY <1>9 DEF Interrupt
  <2>2. torn' \in BOOLEAN
    BY <2>1, Zenon
  <2>3. ~torn' => Together(shown'.duck, shown'.share)
    BY <1>t, <2>1
  <2> QED BY <1>t, <2>1, <2>2, <2>3 DEF PairInv, Together
<1> QED BY <1>1, <1>2, <1>3, <1>4, <1>5, <1>6, <1>7, <1>8, <1>9
        DEF Next, vars, charts, Change, BuildFact, BuildDaily, BuildProfile, FailBuild

\* The two published charts come from the same run of the script, or none is
\* published, except after an error or a kill between the two renames (main:
\* "if either fails, no published chart changes").
THEOREM ChartsComeInPairs == ASSUME NoneApart PROVE Spec => []PairBelongsTogether
<1>1. Init => Files /\ PairInv
  BY FilesInit, PairInit
<1>2. Files /\ PairInv /\ [Next]_vars => (Files /\ PairInv)'
  BY FilesStep, PairStep
<1>3. PairInv => PairBelongsTogether
  BY DEF PairInv, Together, PairBelongsTogether, Duck, Share
<1> QED BY <1>1, <1>2, <1>3, PTL DEF Spec

\* Every variable of the warehouse and of the chart process keeps its type, and
\* the renames start only when both charts are rendered.
THEOREM TypeCorrect == ASSUME NoneApart PROVE Spec => []TypeOK
<1>1. Init => WarehouseInv /\ Files /\ PairInv
  BY WarehouseInit, FilesInit, PairInit
<1>2. WarehouseInv /\ Files /\ PairInv /\ [Next]_vars => (WarehouseInv /\ Files /\ PairInv)'
  BY WarehouseStep, FilesStep, PairStep
<1>3. WarehouseInv /\ PairInv => TypeOK
  BY DEF WarehouseInv, PairInv, TypeOK
<1> QED BY <1>1, <1>2, <1>3, PTL DEF Spec

-----------------------------------------------------------------------------
(* Every local hour averages the same days. *)

\* All hours of some ordinary days, each of them once.
Whole(rows, D, f) ==
  /\ \A d \in D : d \in Days /\ DOMAIN Clock[d] = 1..Standard
  /\ \A row : row \in rows <=> \E s \in Slots : s[1] \in D /\ row = <<s, f[s]>>
EvenRows(rows) == \E D \in SUBSET Days : \E f \in [Slots -> Hour] : Whole(rows, D, f)

\* The rows at one local hour.
At(rows, h) == {row \in rows : LocalHour(row[1]) = h}

\* One hour of each day is at local hour h.
LEMMA OneHourEach ==
  ASSUME NEW rows, NEW D \in SUBSET Days, NEW f, Whole(rows, D, f), NEW h \in 0..(Standard - 1)
  PROVE  /\ Averaged(rows) = D /\ Averaged(At(rows, h)) = D
         /\ Cardinality(At(rows, h)) = Cardinality(D)
<1>1. \A d \in D : \E i \in 1..Standard : \A j \in 1..Standard : Clock[d][j] = h <=> j = i
  BY CalendarAssumption DEF CalendarAssumption, Whole
<1>2. \A row \in rows : /\ row[1] \in Slots /\ row[1][1] \in D /\ row = <<row[1], f[row[1]]>>
                        /\ row[1] = <<row[1][1], row[1][2]>> /\ row[1][2] \in 1..Standard
  <2> SUFFICES ASSUME NEW row \in rows
               PROVE  /\ row[1] \in Slots /\ row[1][1] \in D /\ row = <<row[1], f[row[1]]>>
                      /\ row[1] = <<row[1][1], row[1][2]>> /\ row[1][2] \in 1..Standard
    OBVIOUS
  <2>1. PICK s \in Slots : s[1] \in D /\ row = <<s, f[s]>>
    BY DEF Whole
  <2>2. DOMAIN Clock[s[1]] = 1..Standard
    BY <2>1 DEF Whole
  <2>3. row[1] = s
    BY <2>1
  <2> QED BY <2>1, <2>2, <2>3, SlotsTyped
<1>3. \A d \in D : \A i \in 1..Standard : <<<<d, i>>, f[<<d, i>>]>> \in rows
  BY SlotsTyped DEF Whole
<1>4. ASSUME NEW d \in D PROVE \E row \in At(rows, h) : row[1][1] = d
  <2>1. PICK i \in 1..Standard : Clock[d][i] = h
    BY <1>1
  <2>2. <<<<d, i>>, f[<<d, i>>]>> \in At(rows, h)
    BY <1>3, <2>1 DEF At, LocalHour
  <2> QED BY <2>2
<1>5. \A row \in At(rows, h) : row \in rows
  BY DEF At
<1>6. Averaged(At(rows, h)) = D /\ Averaged(rows) = D
  BY <1>2, <1>4, <1>5 DEF Averaged
<1> DEFINE g == [row \in At(rows, h) |-> row[1][1]]
<1>7. g \in [At(rows, h) -> D]
  BY <1>2, <1>5
<1>8. ASSUME NEW r \in At(rows, h), NEW q \in At(rows, h), r[1][1] = q[1][1] PROVE r = q
  <2>1. Clock[r[1][1]][r[1][2]] = h /\ Clock[q[1][1]][q[1][2]] = h
    BY DEF At, LocalHour
  <2>2. r[1][2] = q[1][2]
    BY <1>1, <1>2, <1>5, <1>8, <2>1
  <2> QED BY <1>2, <1>5, <1>8, <2>2
<1>9. g \in Bijection(At(rows, h), D)
  BY <1>4, <1>7, <1>8 DEF Bijection, Injection, Surjection, IsInjective
<1>10. IsFiniteSet(D)
  BY ConstantsTyped, FS_Subset
<1>11. Cardinality(At(rows, h)) = Cardinality(D)
  <2>1. ExistsBijection(D, At(rows, h))
    BY <1>9, Fun_ExistsBijSymmetric DEF ExistsBijection
  <2> QED BY <1>10, <2>1, FS_Bijection
<1> QED BY <1>6, <1>11

LEMMA ProfileIsEven ==
  ASSUME NEW f \in [Slots -> Hour]
  PROVE  Whole(Profile(f, Daily(f)), ProfileDays(Daily(f)), f)
<1>1. \A d \in ProfileDays(Daily(f)) : d \in Days /\ DOMAIN Clock[d] = 1..Standard
  BY ProfileDay
<1>2. \A row : row \in Profile(f, Daily(f)) <=>
               \E s \in Slots : s[1] \in ProfileDays(Daily(f)) /\ row = <<s, f[s]>>
  BY ProfileRows
<1> QED BY <1>1, <1>2 DEF Whole

InMonth(rows, m) == {row \in rows : Month[row[1][1]] = m}
DaysOf(D, m)     == {d \in D : Month[d] = m}

\* So are the rows of one month of it.
LEMMA MonthIsEven ==
  ASSUME NEW rows, NEW D \in SUBSET Days, NEW f, Whole(rows, D, f), NEW m
  PROVE  Whole(InMonth(rows, m), DaysOf(D, m), f)
<1>1. \A d \in DaysOf(D, m) : d \in Days /\ DOMAIN Clock[d] = 1..Standard
  BY DEF Whole, DaysOf
<1>2. \A row : row \in InMonth(rows, m) <=> \E s \in Slots : s[1] \in DaysOf(D, m) /\ row = <<s, f[s]>>
  <2>1. ASSUME NEW row \in InMonth(rows, m)
        PROVE  \E s \in Slots : s[1] \in DaysOf(D, m) /\ row = <<s, f[s]>>
    <3>1. PICK s \in Slots : s[1] \in D /\ row = <<s, f[s]>>
      BY DEF Whole, InMonth
    <3> QED BY <3>1 DEF InMonth, DaysOf
  <2>2. ASSUME NEW s \in Slots, s[1] \in DaysOf(D, m) PROVE <<s, f[s]>> \in InMonth(rows, m)
    <3>1. <<s, f[s]>> \in rows /\ <<s, f[s]>>[1] = s
      BY <2>2 DEF Whole, DaysOf
    <3> QED BY <2>2, <3>1 DEF InMonth, DaysOf
  <2> QED BY <2>1, <2>2
<1> QED BY <1>1, <1>2 DEF Whole

EvenFile(c) == c # None => EvenRows(c.rows)
EvenInv == EvenRows(profile) /\ EvenFile(tmp.duck) /\ EvenFile(shown.duck)

LEMMA EvenInit == Init => EvenInv
<1> SUFFICES ASSUME Init PROVE EvenInv
  OBVIOUS
<1>1. Whole({}, {}, fact)
  BY DEF Whole
<1>2. fact \in [Slots -> Hour]
  BY WarehouseInit DEF WarehouseInv
<1>3. EvenRows({})
  BY <1>1, <1>2 DEF EvenRows
<1> QED BY <1>3, FilesInit DEF EvenInv, EvenFile, Init

LEMMA EvenStep == WarehouseInv /\ Files /\ EvenInv /\ [Next]_vars => EvenInv'
<1> SUFFICES ASSUME WarehouseInv, Files, EvenInv, [Next]_vars PROVE EvenInv'
  OBVIOUS
<1>1. EvenRows(profile')
  <2>1. CASE profile' = profile
    BY <2>1 DEF EvenInv
  <2>2. CASE profile' = Profile(fact, Daily(fact))
    <3>1. fact \in [Slots -> Hour]
      BY DEF WarehouseInv
    <3>2. ProfileDays(Daily(fact)) \in SUBSET Days
      BY ProfileDay
    <3> QED BY <2>2, <3>1, <3>2, ProfileIsEven DEF EvenRows
  <2> QED BY <2>1, <2>2, ProfileStep
<1>2. EvenFile(tmp'.duck)
  <2>1. CASE tmp'.duck \in {tmp.duck, None}
    BY <2>1 DEF EvenInv, EvenFile
  <2>2. CASE tmp'.duck = DuckDrawn
    <3>1. tmp'.duck.rows = Latest
      BY <2>2 DEF DuckDrawn
    <3>2. PICK D \in SUBSET Days, f \in [Slots -> Hour] : Whole(profile, D, f)
      BY DEF EvenInv, EvenRows
    <3>3. Latest = InMonth(profile, LatestMonth)
      BY DEF Latest, InMonth
    <3>a. Whole(Latest, DaysOf(D, LatestMonth), f)
      BY <3>2, <3>3, MonthIsEven
    <3>b. DaysOf(D, LatestMonth) \in SUBSET Days
      BY DEF DaysOf
    <3>4. EvenRows(Latest)
      BY <3>a, <3>b DEF EvenRows
    <3> QED BY <3>1, <3>4 DEF EvenFile
  <2> QED BY <2>1, <2>2, FilesStep
<1>3. EvenFile(shown'.duck)
  BY FilesStep DEF EvenInv
<1>4. EvenRows(profile)' /\ EvenFile(tmp.duck)' /\ EvenFile(shown.duck)'
  BY <1>1, <1>2, <1>3 DEF EvenRows, EvenFile, Whole
<1> QED BY <1>4 DEF EvenInv

\* Every local hour of the duck curve averages the same days, each of them once,
\* across any clock change (mart_hourly_profile.sql: "every series averages over
\* the same days").
THEOREM HoursShareTheirDays == Spec => []SameDays
<1>1. Init => WarehouseInv /\ Files /\ EvenInv
  BY WarehouseInit, FilesInit, EvenInit
<1>2. WarehouseInv /\ Files /\ EvenInv /\ [Next]_vars => (WarehouseInv /\ Files /\ EvenInv)'
  BY WarehouseStep, FilesStep, EvenStep
<1>3. EvenInv => SameDays
  <2> SUFFICES ASSUME EvenInv, Duck # None, NEW h \in 0..(Standard - 1)
               PROVE  LET at == {row \in Duck.rows : LocalHour(row[1]) = h} IN
                        /\ Averaged(at) = Averaged(Duck.rows)
                        /\ Cardinality(at) = Cardinality(Averaged(at))
    BY DEF SameDays
  <2>1. PICK D \in SUBSET Days, f \in [Slots -> Hour] : Whole(Duck.rows, D, f)
    BY DEF EvenInv, EvenFile, EvenRows, Duck
  <2>2. /\ Averaged(Duck.rows) = D /\ Averaged(At(Duck.rows, h)) = D
        /\ Cardinality(At(Duck.rows, h)) = Cardinality(D)
    BY <2>1, OneHourEach
  <2> QED BY <2>2 DEF At
<1> QED BY <1>1, <1>2, <1>3, PTL DEF Spec

-----------------------------------------------------------------------------
(* The label of the duck curve. *)

LEMMA GreatestIsMember ==
  ASSUME NEW S \in SUBSET Int, IsFiniteSet(S), S # {}
  PROVE  Greatest(S) \in S /\ \A e \in S : Greatest(S) >= e
<1>1. \E m \in S : \A e \in S : m >= e
  BY HasLargest
<1> QED BY <1>1 DEF Greatest

LEMMA LeastIsMember ==
  ASSUME NEW S \in SUBSET Int, IsFiniteSet(S), S # {}
  PROVE  Least(S) \in S
<1>1. \E m \in S : \A e \in S : m <= e
  BY HasSmallest
<1> QED BY <1>1 DEF Least

\* What the label says is true of the rows.
Honest(c) ==
  c # None /\ c.whole =>
    LET days == Averaged(c.rows)
        month == Month[Least(days)] IN
    /\ c.label.n = Cardinality(days)
    /\ IF c.label.full THEN Cardinality(days) = DaysIn[month]
       ELSE c.label.from = Least(days) /\ c.label.to = Greatest(days)

LabelInv ==
  /\ whole => next = "none" /\ daily = Daily(fact) /\ profile = Profile(fact, daily)
  /\ Honest(tmp.duck) /\ Honest(shown.duck)

\* The latest month of an even profile that is not empty has days in it.
LEMMA LatestHasDays ==
  ASSUME NEW D \in SUBSET Days, NEW f, Whole(profile, D, f), profile # {}
  PROVE  \E d \in D : Month[d] = LatestMonth
<1> DEFINE months == {Month[row[1][1]] : row \in profile}
<1>1. \A row \in profile : row[1][1] \in D
  BY DEF Whole
<1>2. months \subseteq {Month[d] : d \in D}
  BY <1>1
<1>3. IsFiniteSet({Month[d] : d \in D})
  <2>1. IsFiniteSet(D)
    BY ConstantsTyped, FS_Subset
  <2> QED BY <2>1, FiniteRange
<1>4. IsFiniteSet(months)
  BY <1>2, <1>3, FS_Subset
<1>5. months \in SUBSET Int
  <2> SUFFICES ASSUME NEW row \in profile PROVE Month[row[1][1]] \in Int
    OBVIOUS
  <2>1. row[1][1] \in Days
    BY <1>1
  <2>2. Month[row[1][1]] \in Nat
    BY <2>1, ConstantsTyped
  <2> QED BY <2>2
<1>6. months # {}
  <2>1. PICK row \in profile : TRUE
    OBVIOUS
  <2>2. Month[row[1][1]] \in months
    BY <2>1
  <2> QED BY <2>2
<1>7. LatestMonth \in months
  <2> HIDE DEF months
  <2>1. Greatest(months) \in months
    BY <1>4, <1>5, <1>6, GreatestIsMember
  <2> QED BY <2>1 DEF LatestMonth, months
<1> QED BY <1>1, <1>7

\* A label drawn from a whole build is honest.
LEMMA LabelIsHonest ==
  ASSUME WarehouseInv, LabelInv, whole, ~NoDuck
  PROVE  Honest(DuckDrawn)
<1> DEFINE D == ProfileDays(Daily(fact))
           days == {d \in D : Month[d] = LatestMonth}
           hours == {LocalHour(row[1]) : row \in Latest}
<1>1. fact \in [Slots -> Hour] /\ daily = Daily(fact) /\ profile = Profile(fact, Daily(fact))
  BY DEF WarehouseInv, LabelInv
<1>2. D \in SUBSET Days /\ days \in SUBSET Days /\ days \in SUBSET Int /\ IsFiniteSet(days)
  <2>1. D \in SUBSET Days
    BY ProfileDay
  <2>2. days \in SUBSET Days
    BY <2>1
  <2>3. IsFiniteSet(days)
    BY <2>2, ConstantsTyped, FS_Subset
  <2> HIDE DEF D, days
  <2>4. days \in SUBSET Int
    BY <2>2, ConstantsTyped
  <2> QED BY <2>1, <2>2, <2>3, <2>4
<1>3. Whole(profile, D, fact)
  BY <1>1, ProfileIsEven
<1>4. Whole(Latest, days, fact)
  <2>1. D \in SUBSET Days
    BY <1>2
  <2> HIDE DEF D
  <2>2. Whole(InMonth(profile, LatestMonth), DaysOf(D, LatestMonth), fact)
    BY <1>3, <2>1, MonthIsEven
  <2>3. Latest = InMonth(profile, LatestMonth)
    BY Zenon DEF Latest, InMonth
  <2>4. days = DaysOf(D, LatestMonth)
    BY Zenon DEF DaysOf
  <2> HIDE DEF days
  <2> QED BY <2>2, <2>3, <2>4
<1>5. days # {}
  <2>1. profile # {}
    BY DEF NoDuck
  <2> HIDE DEF D
  <2>2. \E d \in D : Month[d] = LatestMonth
    BY <1>2, <1>3, <2>1, LatestHasDays
  <2> QED BY <2>2
<1>6. \A h \in 0..(Standard - 1) :
        /\ Averaged(Latest) = days /\ Averaged(At(Latest, h)) = days
  BY <1>2, <1>4, OneHourEach
<1>7. Averaged(Latest) = days
  <2>1. 0 \in 0..(Standard - 1)
    BY ConstantsTyped
  <2> QED BY <1>6, <2>1
<1>8. hours \subseteq 0..(Standard - 1) /\ hours # {}
  <2>1. \A row \in Latest : LocalHour(row[1]) \in 0..(Standard - 1)
    <3> SUFFICES ASSUME NEW row \in Latest PROVE LocalHour(row[1]) \in 0..(Standard - 1)
      OBVIOUS
    <3>1. PICK s \in Slots : s[1] \in days /\ row = <<s, fact[s]>>
      BY <1>4 DEF Whole
    <3>2. DOMAIN Clock[s[1]] = 1..Standard /\ s[1] \in Days
      BY <1>4, <3>1 DEF Whole
    <3>3. row[1] = s /\ s[2] \in 1..Standard
      BY <3>1, <3>2, SlotsTyped
    <3> QED BY <3>2, <3>3, CalendarAssumption DEF CalendarAssumption, LocalHour
  <2>2. Latest # {}
    BY <1>5, <1>7 DEF Averaged
  <2>3. PICK row \in Latest : TRUE
    BY <2>2
  <2>4. LocalHour(row[1]) \in hours
    BY <2>3
  <2> QED BY <2>1, <2>4
<1> DEFINE n == Cardinality(days)
<1>9. n \in Nat
  BY <1>2, FS_CardinalityType
<1>10. NDays = n
  <2> DEFINE counts == {Cardinality(Averaged({row \in Latest : LocalHour(row[1]) = h})) : h \in hours}
  <2>1. \A h \in hours : Cardinality(Averaged({row \in Latest : LocalHour(row[1]) = h})) = n
    BY <1>6, <1>8 DEF At
  <2>2. counts = {n}
    BY <1>8, <2>1
  <2>3. Greatest({n}) = n
    BY <1>9 DEF Greatest
  <2> HIDE DEF n
  <2> QED BY <2>2, <2>3 DEF NDays
<1>11. LabelRange = days
  BY <1>1 DEF LabelRange
<1>12. Month[Least(days)] = LatestMonth
  <2>1. Least(days) \in days
    BY <1>2, <1>5, LeastIsMember
  <2> QED BY <2>1
<1>13. n <= DaysIn[LatestMonth] /\ DaysIn[LatestMonth] \in Nat
  <2>1. PICK d \in days : TRUE
    BY <1>5
  <2>2. d \in Days /\ Month[d] = LatestMonth
    BY <1>2, <2>1
  <2> DEFINE month == {e \in Days : Month[e] = Month[d]}
  <2>3. days \in SUBSET month /\ IsFiniteSet(month)
    BY <1>2, <2>2, ConstantsTyped, FS_Subset
  <2>4. n <= Cardinality(month) /\ Cardinality(month) \in Nat
    BY <2>3, FS_Subset, FS_CardinalityType
  <2>5. Cardinality(month) <= DaysIn[Month[d]] /\ DaysIn[Month[d]] \in Nat
    BY <2>2, CalendarAssumption, ConstantsTyped DEF CalendarAssumption
  <2> HIDE DEF month
  <2> QED BY <1>9, <2>2, <2>4, <2>5
<1>14. DuckDrawn.rows = Latest /\ DuckDrawn.label = Label
  BY DEF DuckDrawn
<1> HIDE DEF days, n
<1>15. CASE n >= DaysIn[LatestMonth]
  <2>1. Label = [full |-> TRUE, from |-> 0, to |-> 0, n |-> n]
    BY <1>10, <1>15 DEF Label
  <2>2. n = DaysIn[LatestMonth]
    BY <1>9, <1>13, <1>15
  <2> QED BY <1>7, <1>12, <1>14, <2>1, <2>2 DEF Honest, n
<1>16. CASE ~(n >= DaysIn[LatestMonth])
  <2>1. Label = [full |-> FALSE, from |-> Least(days), to |-> Greatest(days), n |-> n]
    BY <1>10, <1>11, <1>16 DEF Label
  <2> QED BY <1>7, <1>12, <1>14, <2>1 DEF Honest, n
<1> QED BY <1>15, <1>16

LEMMA LabelInit == Init => LabelInv
<1> SUFFICES ASSUME Init PROVE LabelInv
  OBVIOUS
<1>1. whole = FALSE
  BY DEF Init
<1> QED BY <1>1, FilesInit DEF LabelInv, Honest

LEMMA LabelStep == WarehouseInv /\ Files /\ LabelInv /\ [Next]_vars => LabelInv'
<1> SUFFICES ASSUME WarehouseInv, Files, LabelInv, [Next]_vars PROVE LabelInv'
  OBVIOUS
<1>1. whole' => next' = "none" /\ daily' = Daily(fact)' /\ profile' = Profile(fact, daily)'
  <2>1. CASE UNCHANGED <<fact, daily, profile, next, whole>>
    <3>1. Daily(fact)' = Daily(fact) /\ Profile(fact, daily)' = Profile(fact, daily)
      BY <2>1 DEF Daily, DailyRow, Clean, Profile
    <3> QED BY <2>1, <3>1 DEF LabelInv
  <2>2. ASSUME NEW d \in Days, BuildFact(d) PROVE ~whole'
    BY <2>2 DEF BuildFact
  <2>3. CASE BuildDaily
    <3>1. next = "daily" /\ whole' = whole
      BY <2>3 DEF BuildDaily
    <3> QED BY <3>1 DEF LabelInv
  <2>4. CASE BuildProfile
    <3>1. /\ profile' = Profile(fact, daily) /\ daily = Daily(fact) /\ next' = "none"
          /\ UNCHANGED <<fact, daily>>
      BY <2>4 DEF BuildProfile, WarehouseInv
    <3> QED BY <3>1 DEF Daily, DailyRow, Clean, Profile
  <2>5. CASE FailBuild
    <3>1. next # "none" /\ whole' = whole
      BY <2>5 DEF FailBuild
    <3> QED BY <3>1 DEF LabelInv
  <2> QED BY <2>1, <2>2, <2>3, <2>4, <2>5
          DEF Next, vars, warehouse, Change, StartDraw, DuckCurve, RenewableShare, Refuse,
              ReplaceFirst, ReplaceSecond, Interrupt, Kill
<1>2. Honest(tmp'.duck)
  <2>1. CASE tmp'.duck \in {tmp.duck, None}
    BY <2>1 DEF LabelInv, Honest
  <2>2. CASE DuckCurve /\ tmp'.duck = DuckDrawn
    <3>1. CASE whole
      <4>1. ~NoDuck
        BY <2>2 DEF DuckCurve
      <4> QED BY <2>2, <3>1, <4>1, LabelIsHonest
    <3>2. CASE ~whole
      <4>1. ~tmp'.duck.whole
        BY <2>2, <3>2 DEF DuckDrawn
      <4> QED BY <4>1 DEF Honest
    <3> QED BY <3>1, <3>2
  <2> QED BY <2>1, <2>2, FilesStep
<1>3. Honest(shown'.duck)
  BY FilesStep DEF LabelInv
<1>4. Honest(tmp.duck)' /\ Honest(shown.duck)'
  BY <1>2, <1>3 DEF Honest, Averaged
<1> QED BY <1>1, <1>4 DEF LabelInv

\* The label of the duck curve names the days it averages: a month only when all
\* its days are there, else their first and last and how many they are, when the
\* build before it wrote every table (pick_profile_window, "an honest label").
THEOREM LabelsAreHonest == Spec => []LabelNamesItsDays
<1>1. Init => WarehouseInv /\ Files /\ LabelInv
  BY WarehouseInit, FilesInit, LabelInit
<1>2. WarehouseInv /\ Files /\ LabelInv /\ [Next]_vars => (WarehouseInv /\ Files /\ LabelInv)'
  BY WarehouseStep, FilesStep, LabelStep
<1>3. LabelInv => LabelNamesItsDays
  BY DEF LabelInv, Honest, LabelNamesItsDays, Duck
<1> QED BY <1>1, <1>2, <1>3, PTL DEF Spec
=============================================================================
