--------------------------- MODULE GridFactProofs ---------------------------
(***************************************************************************)
(* Theorems about module GridFact, for any number of authorities, hours    *)
(* and versions, any lookbacks in the order the code has them, and any     *)
(* cap.                                                                    *)
(*                                                                         *)
(* The argument: after an ingestion the watermark of a pair is its last    *)
(* raw hour, so no edge that an incremental build leaves is ahead of it.   *)
(* A full refresh after a replay may leave one that is; an authority is    *)
(* only clear when the two lookbacks still meet.  What ingestion changes   *)
(* next lies within its own lookback of the watermark, and hence within    *)
(* the fact's lookback of the edge.                                        *)
(***************************************************************************)
EXTENDS GridFact, SetLemmas

LEMMA ConstantsTyped ==
  /\ MaxHour \in Nat /\ MaxVersion \in Nat \ {0} /\ None \notin Int
  /\ IngestLookback \in Nat /\ FactLookback \in Nat /\ Cap \in Nat
  /\ IngestLookback < FactLookback
  /\ FuelLate \in BOOLEAN
BY GridFactAssumption DEF GridFactAssumption

LEMMA HoursTyped == Hours \subseteq Int /\ \A h \in Hours : h \in Int /\ 0 <= h /\ h # None
BY ConstantsTyped DEF Hours

\* The last of some hours.
LEMMA LastIsLast ==
  ASSUME NEW S \in SUBSET Hours, S # {}
  PROVE  Last(S) \in S /\ Last(S) \in Hours /\ \A h \in S : h <= Last(S)
<1>1. IsFiniteSet(Hours)
  <2>1. 0 \in Int /\ MaxHour \in Int
    BY ConstantsTyped
  <2> QED BY <2>1, FS_Interval DEF Hours
<1>2. IsFiniteSet(S) /\ S \in SUBSET Int
  BY <1>1, HoursTyped, FS_Subset
<1>3. \E m \in S : \A h \in S : h <= m
  BY <1>2, HasLargest
<1> QED BY <1>3 DEF Last

-----------------------------------------------------------------------------
(* Types, and what the parts of a step do. *)

Rows == {NoRow} \union (1..MaxVersion) \X (0..MaxVersion)

LEMMA RowsTyped ==
  /\ \A g \in Rows : /\ g[1] \in 0..MaxVersion /\ g[2] \in 0..MaxVersion
                     /\ g = NoRow <=> g[1] = 0
                     /\ g = NoRow => g[2] = 0
  /\ \A m, f \in 0..MaxVersion : m # 0 => <<m, f>> \in Rows
BY ConstantsTyped DEF Rows, NoRow

LEMMA RowTyped ==
  ASSUME raw \in [Tables -> [BAs -> [Hours -> 0..MaxVersion]]], NEW b \in BAs, NEW h \in Hours
  PROVE  /\ Row(b, h) \in Rows
         /\ raw["region"][b][h] \in 0..MaxVersion /\ raw["fuel"][b][h] \in 0..MaxVersion
         /\ raw["region"][b][h] = 0 => Row(b, h) = NoRow
         /\ raw["region"][b][h] # 0 => Row(b, h) = <<raw["region"][b][h], raw["fuel"][b][h]>>
         /\ Row(b, h)[1] = raw["region"][b][h]
<1>1. raw["region"][b][h] \in 0..MaxVersion /\ raw["fuel"][b][h] \in 0..MaxVersion
  BY DEF Tables
<1> QED BY <1>1, RowsTyped DEF Row, Rows, NoRow

\* An upsert makes the hours of S one version newer.
LEMMA UpsertDoes ==
  ASSUME raw \in [Tables -> [BAs -> [Hours -> 0..MaxVersion]]],
         NEW t \in Tables, NEW b \in BAs, NEW S \in SUBSET Hours, Upsert(t, b, S)
  PROVE  /\ raw' \in [Tables -> [BAs -> [Hours -> 0..MaxVersion]]]
         /\ \A u \in Tables, a \in BAs : u # t \/ a # b => raw'[u][a] = raw[u][a]
         /\ \A h \in Hours : raw'[t][b][h] = IF h \in S THEN raw[t][b][h] + 1 ELSE raw[t][b][h]
<1> DEFINE new == [h \in Hours |-> IF h \in S THEN raw[t][b][h] + 1 ELSE raw[t][b][h]]
<1>1. raw' = [raw EXCEPT ![t][b] = new]
  BY DEF Upsert
<1>2. \A h \in S : raw[t][b][h] < MaxVersion
  BY DEF Upsert
<1>3. new \in [Hours -> 0..MaxVersion]
  BY <1>2, ConstantsTyped
<1>4. \A h \in Hours : new[h] = IF h \in S THEN raw[t][b][h] + 1 ELSE raw[t][b][h]
  OBVIOUS
<1> HIDE DEF new
<1>5. raw' \in [Tables -> [BAs -> [Hours -> 0..MaxVersion]]]
  BY <1>1, <1>3
<1>6. raw'[t][b] = new
  BY <1>1
<1>7. \A u \in Tables, a \in BAs : u # t \/ a # b => raw'[u][a] = raw[u][a]
  BY <1>1
<1> QED BY <1>4, <1>5, <1>6, <1>7

LEMMA UpsertHere ==
  ASSUME raw \in [Tables -> [BAs -> [Hours -> 0..MaxVersion]]],
         NEW t \in Tables, NEW b \in BAs, NEW S \in SUBSET Hours, Upsert(t, b, S),
         NEW h \in Hours
  PROVE  raw'[t][b][h] = IF h \in S THEN raw[t][b][h] + 1 ELSE raw[t][b][h]
BY UpsertDoes

LEMMA UpsertElsewhere ==
  ASSUME raw \in [Tables -> [BAs -> [Hours -> 0..MaxVersion]]],
         NEW t \in Tables, NEW b \in BAs, NEW S \in SUBSET Hours, Upsert(t, b, S),
         NEW u \in Tables, NEW a \in BAs, u # t \/ a # b
  PROVE  raw'[u][a] = raw[u][a]
BY UpsertDoes

\* No row disappears.
LEMMA UpsertKeeps ==
  ASSUME raw \in [Tables -> [BAs -> [Hours -> 0..MaxVersion]]],
         NEW t \in Tables, NEW b \in BAs, NEW S \in SUBSET Hours, Upsert(t, b, S),
         NEW u \in Tables, NEW a \in BAs, NEW h \in Hours, raw[u][a][h] # 0
  PROVE  raw'[u][a][h] # 0
<1>1. CASE u = t /\ a = b
  <2>1. raw[t][b][h] \in 0..MaxVersion /\ raw[t][b][h] # 0
    BY <1>1
  <2>2. raw'[t][b][h] = IF h \in S THEN raw[t][b][h] + 1 ELSE raw[t][b][h]
    BY UpsertDoes
  <2> QED BY <1>1, <2>1, <2>2, ConstantsTyped
<1>2. CASE ~(u = t /\ a = b)
  BY <1>2, UpsertDoes
<1> QED BY <1>1, <1>2

LEMMA AskedTyped ==
  ASSUME NEW t \in Tables, NEW b \in BAs PROVE Asked(t, b) \in SUBSET Hours
BY DEF Asked

\* The watermark moves to the last hour held, if any was asked for.
LEMMA MarkDoes ==
  ASSUME mark \in [Tables -> [BAs -> Hours \union {None}]],
         NEW t \in Tables, NEW b \in BAs, Mark(t, b)
  PROVE  /\ mark' \in [Tables -> [BAs -> Hours \union {None}]]
         /\ \A u \in Tables, a \in BAs : u # t \/ a # b => mark'[u][a] = mark[u][a]
         /\ LET rows == {h \in Asked(t, b) : raw'[t][b][h] # 0} IN
            mark'[t][b] = IF rows = {} THEN mark[t][b] ELSE Last(rows)
<1> DEFINE rows == {h \in Asked(t, b) : raw'[t][b][h] # 0}
           new == IF rows = {} THEN mark[t][b] ELSE Last(rows)
<1>1. mark' = [mark EXCEPT ![t][b] = new]
  BY DEF Mark
<1>2. rows \in SUBSET Hours
  BY AskedTyped
<1>3. new \in Hours \union {None}
  <2> HIDE DEF rows
  <2> QED BY <1>2, LastIsLast
<1> HIDE DEF new, rows
<1>4. mark' \in [Tables -> [BAs -> Hours \union {None}]]
  BY <1>1, <1>3
<1>5. mark'[t][b] = new /\ \A u \in Tables, a \in BAs : u # t \/ a # b => mark'[u][a] = mark[u][a]
  BY <1>1
<1> QED BY <1>4, <1>5 DEF new, rows

LEMMA TypeStep == TypeOK /\ [Next]_vars => TypeOK'
<1> SUFFICES ASSUME TypeOK, [Next]_vars PROVE TypeOK'
  OBVIOUS
<1>t. /\ raw \in [Tables -> [BAs -> [Hours -> 0..MaxVersion]]]
      /\ mark \in [Tables -> [BAs -> Hours \union {None}]]
      /\ fact \in [BAs -> [Hours -> Rows]]
      /\ tracked \subseteq BAs /\ todo \subseteq Tables \X tracked
      /\ pc \in {"idle", "ingest", "replay", "ready", "replayed", "built"}
      /\ owed \subseteq tracked
  BY DEF TypeOK, Rows
<1>1. CASE StartIngest
  BY <1>t, <1>1 DEF StartIngest, TypeOK, Rows
<1>2. CASE StartReplay
  BY <1>t, <1>2 DEF StartReplay, TypeOK, Rows
<1>3. CASE BuildIncremental
  <2>1. fact' \in [BAs -> [Hours -> Rows]]
    BY <1>t, <1>3, RowTyped DEF BuildIncremental
  <2> QED BY <1>t, <1>3, <2>1 DEF BuildIncremental, TypeOK, Rows
<1>4. CASE BuildFull
  <2>1. NoRow \in Rows
    BY DEF Rows
  <2>2. fact' \in [BAs -> [Hours -> Rows]]
    BY <1>t, <1>4, <2>1, RowTyped DEF BuildFull
  <2> QED BY <1>t, <1>4, <2>2 DEF BuildFull, TypeOK, Rows
<1>5. CASE FailBuild
  BY <1>t, <1>5 DEF FailBuild, TypeOK, Rows
<1>6. ASSUME NEW t \in Tables, NEW b \in BAs, LoadPair(t, b) PROVE TypeOK'
  <2>1. PICK S \in SUBSET Asked(t, b) : Upsert(t, b, S) /\ Mark(t, b)
    BY <1>6 DEF LoadPair
  <2>2. S \in SUBSET Hours
    BY AskedTyped
  <2>3. raw' \in [Tables -> [BAs -> [Hours -> 0..MaxVersion]]]
    BY <1>t, <2>1, <2>2, UpsertDoes
  <2>4. mark' \in [Tables -> [BAs -> Hours \union {None}]]
    BY <1>t, <2>1, MarkDoes
  <2> QED BY <1>t, <1>6, <2>3, <2>4 DEF LoadPair, TypeOK, Rows
<1>7. ASSUME NEW t \in Tables, NEW b \in BAs, FailIngest(t, b) PROVE TypeOK'
  <2>1. PICK S \in SUBSET Asked(t, b) : Upsert(t, b, S)
    BY <1>7 DEF FailIngest
  <2>2. S \in SUBSET Hours
    BY AskedTyped
  <2>3. raw' \in [Tables -> [BAs -> [Hours -> 0..MaxVersion]]]
    BY <1>t, <2>1, <2>2, UpsertDoes
  <2>4. mark' \in [Tables -> [BAs -> Hours \union {None}]]
    BY <1>t, <1>7, MarkDoes DEF FailIngest
  <2> QED BY <1>t, <1>7, <2>3, <2>4 DEF FailIngest, TypeOK, Rows
<1>8. ASSUME NEW t \in Tables, NEW b \in BAs, ReplayPair(t, b) \/ FailReplay(t, b) PROVE TypeOK'
  <2>1. PICK S \in SUBSET Hours : Upsert(t, b, S)
    BY <1>8 DEF ReplayPair, FailReplay
  <2>2. raw' \in [Tables -> [BAs -> [Hours -> 0..MaxVersion]]]
    BY <1>t, <2>1, UpsertDoes
  <2> QED BY <1>t, <1>8, <2>2 DEF ReplayPair, FailReplay, TypeOK, Rows
<1>9. ASSUME NEW b \in BAs, AddBA(b) PROVE TypeOK'
  BY <1>t, <1>9 DEF AddBA, TypeOK, Rows
<1>10. CASE UNCHANGED vars
  BY <1>t, <1>10 DEF vars, TypeOK, Rows
<1> QED BY <1>1, <1>2, <1>3, <1>4, <1>5, <1>6, <1>7, <1>8, <1>9, <1>10 DEF Next

LEMMA TypeInit == Init => TypeOK
<1> SUFFICES ASSUME Init PROVE TypeOK
  OBVIOUS
<1>1. 0 \in 0..MaxVersion
  BY ConstantsTyped
<1> QED BY <1>1 DEF Init, TypeOK

\* The raw tables, the watermarks, the fact and the state of the pipeline keep
\* their types: what a build writes is a row of the select or none.
THEOREM TypeCorrect == Spec => []TypeOK
BY TypeInit, TypeStep, PTL DEF Spec

-----------------------------------------------------------------------------
(* The edges a build finds in the fact of one authority. *)

LastRow(g)  == Last({h \in Hours : g[h] # NoRow})
LastFuel(g) == Last({h \in Hours : g[h][2] # 0})
Some(g)     == \E h \in Hours : g[h] # NoRow
SomeFuel(g) == \E h \in Hours : g[h][2] # 0

LEMMA Edges ==
  ASSUME NEW g \in [Hours -> Rows]
  PROVE  /\ Some(g) => /\ LastRow(g) \in Hours /\ g[LastRow(g)] # NoRow
                       /\ \A h \in Hours : g[h] # NoRow => h <= LastRow(g)
         /\ SomeFuel(g) => /\ LastFuel(g) \in Hours /\ g[LastFuel(g)][2] # 0
                           /\ \A h \in Hours : g[h][2] # 0 => h <= LastFuel(g)
         /\ SomeFuel(g) => Some(g)
<1>1. Some(g) => /\ LastRow(g) \in Hours /\ g[LastRow(g)] # NoRow
                 /\ \A h \in Hours : g[h] # NoRow => h <= LastRow(g)
  <2> DEFINE S == {h \in Hours : g[h] # NoRow}
  <2>1. S \in SUBSET Hours /\ (Some(g) => S # {})
    BY DEF Some
  <2>2. Some(g) => Last(S) \in S /\ Last(S) \in Hours /\ \A h \in S : h <= Last(S)
    BY <2>1, LastIsLast
  <2> QED BY <2>2 DEF LastRow
<1>2. SomeFuel(g) => /\ LastFuel(g) \in Hours /\ g[LastFuel(g)][2] # 0
                     /\ \A h \in Hours : g[h][2] # 0 => h <= LastFuel(g)
  <2> DEFINE S == {h \in Hours : g[h][2] # 0}
  <2>1. S \in SUBSET Hours /\ (SomeFuel(g) => S # {})
    BY DEF SomeFuel
  <2>2. SomeFuel(g) => Last(S) \in S /\ Last(S) \in Hours /\ \A h \in S : h <= Last(S)
    BY <2>1, LastIsLast
  <2> QED BY <2>2 DEF LastFuel
<1>3. SomeFuel(g) => Some(g)
  BY RowsTyped DEF Some, SomeFuel
<1> QED BY <1>1, <1>2, <1>3

\* Where the window of a build begins: after the cap and the lookback of an edge
\* no later than the last row.
LEMMA WindowStart ==
  ASSUME TypeOK, NEW b \in BAs
  PROVE  /\ ~Some(fact[b]) => ReprocessFrom(b) = -1
         /\ Some(fact[b]) =>
              /\ ReprocessFrom(b) \in Int /\ ReprocessFrom(b) <= LastRow(fact[b]) - FactLookback
              /\ LastRow(fact[b]) - Cap - FactLookback <= ReprocessFrom(b)
         /\ SomeFuel(fact[b]) =>
              \/ ReprocessFrom(b) <= LastFuel(fact[b]) - FactLookback
              \/ ReprocessFrom(b) = LastRow(fact[b]) - Cap - FactLookback
<1>1. fact[b] \in [Hours -> Rows]
  BY DEF TypeOK, Rows
<1>2. HasRows(b) <=> Some(fact[b])
  BY DEF HasRows, Some
<1>3. DemandEdge(b) = LastRow(fact[b])
  BY DEF DemandEdge, LastRow
<1>4. FuelEdge(b) = IF SomeFuel(fact[b]) THEN LastFuel(fact[b]) ELSE LastRow(fact[b])
  <2>1. ({h \in Hours : fact[b][h][2] # 0} = {}) <=> ~SomeFuel(fact[b])
    BY DEF SomeFuel
  <2> QED BY <1>3, <2>1 DEF FuelEdge, LastFuel
<1>5. ReprocessFrom(b) = IF ~Some(fact[b]) THEN -1
        ELSE Larger(Smaller(LastRow(fact[b]), FuelEdge(b)), LastRow(fact[b]) - Cap) - FactLookback
  BY <1>2, <1>3 DEF ReprocessFrom
<1>6. ASSUME Some(fact[b])
      PROVE  /\ LastRow(fact[b]) \in Int /\ FuelEdge(b) \in Int
             /\ SomeFuel(fact[b]) => FuelEdge(b) = LastFuel(fact[b])
  BY <1>1, <1>4, <1>6, Edges, HoursTyped
<1>7. SomeFuel(fact[b]) => Some(fact[b])
  BY <1>1, Edges
<1> QED BY <1>5, <1>6, <1>7, ConstantsTyped DEF Larger, Smaller

-----------------------------------------------------------------------------
(* Ingestion: a watermark is a raw hour, and after a run it is the last one. *)

Backed(t, b) == mark[t][b] # None => raw[t][b][mark[t][b]] # 0
AtEnd(t, b)  == \A h \in Hours : raw[t][b][h] # 0 => mark[t][b] # None /\ h <= mark[t][b]

\* Is pair <<t, b>> through with the ingestion before the next build?
Done(t, b) ==
  /\ b \in tracked
  /\ pc = "ready" \/ (pc = "ingest" /\ <<t, b>> \notin todo)

RawInv == \A t \in Tables : \A b \in BAs : Backed(t, b) /\ (Done(t, b) => AtEnd(t, b))

LEMMA MarkAdvances ==
  ASSUME TypeOK, NEW t \in Tables, NEW b \in BAs, Backed(t, b),
         NEW S \in SUBSET Asked(t, b), Upsert(t, b, S), Mark(t, b)
  PROVE  /\ Backed(t, b)' /\ AtEnd(t, b)'
         /\ mark[t][b] # None => mark'[t][b] # None /\ mark[t][b] <= mark'[t][b]
<1> DEFINE rows == {h \in Asked(t, b) : raw'[t][b][h] # 0}
<1>t. /\ raw \in [Tables -> [BAs -> [Hours -> 0..MaxVersion]]]
      /\ mark \in [Tables -> [BAs -> Hours \union {None}]]
  BY DEF TypeOK
<1>1. mark'[t][b] = IF rows = {} THEN mark[t][b] ELSE Last(rows)
  BY <1>t, MarkDoes
<1>2. rows \in SUBSET Hours /\ S \in SUBSET Hours
  BY AskedTyped
<1>3. rows # {} => Last(rows) \in rows /\ Last(rows) \in Hours /\ \A h \in rows : h <= Last(rows)
  <2> HIDE DEF rows
  <2> QED BY <1>2, LastIsLast
<1>4. CASE mark[t][b] = None
  <2>1. Asked(t, b) = Hours
    BY <1>4 DEF Asked
  <2>2. \A h \in Hours : raw'[t][b][h] # 0 => h \in rows
    BY <2>1
  <2> HIDE DEF rows
  <2>3. \A h \in rows : raw'[t][b][h] # 0
    BY DEF rows
  <2>4. CASE rows = {}
    <3>1. mark'[t][b] = None /\ \A h \in Hours : raw'[t][b][h] = 0
      BY <1>1, <1>4, <2>2, <2>4
    <3>2. Backed(t, b)' /\ AtEnd(t, b)'
      BY <3>1 DEF Backed, AtEnd
    <3> QED BY <1>4, <3>2
  <2>5. CASE rows # {}
    <3>1. /\ mark'[t][b] \in rows /\ mark'[t][b] \in Hours
          /\ \A h \in rows : h <= mark'[t][b]
      BY <1>1, <1>3, <2>5
    <3>2. mark'[t][b] # None /\ raw'[t][b][mark'[t][b]] # 0
      BY <2>3, <3>1, HoursTyped
    <3>3. Backed(t, b)' /\ AtEnd(t, b)'
      BY <2>2, <3>1, <3>2 DEF Backed, AtEnd
    <3> QED BY <1>4, <3>3
  <2> QED BY <2>4, <2>5
<1>5. CASE mark[t][b] # None
  <2>1. mark[t][b] \in Hours /\ raw[t][b][mark[t][b]] # 0
    BY <1>t, <1>5 DEF Backed
  <2>2. raw'[t][b][mark[t][b]] # 0
    BY <1>t, <1>2, <2>1, UpsertKeeps
  <2>m. mark[t][b] \in Int /\ IngestLookback \in Nat
    BY <2>1, HoursTyped, ConstantsTyped
  <2>n. mark[t][b] >= mark[t][b] - IngestLookback
    BY <2>m
  <2>3. mark[t][b] \in Asked(t, b)
    BY <1>5, <2>1, <2>n DEF Asked
  <2>4. mark[t][b] \in rows
    BY <2>2, <2>3
  <2>5. \A h \in Hours : h >= mark[t][b] - IngestLookback /\ raw'[t][b][h] # 0 => h \in rows
    BY <1>5 DEF Asked
  <2>6. \A h \in rows : raw'[t][b][h] # 0
    OBVIOUS
  <2> HIDE DEF rows
  <2>7. mark'[t][b] = Last(rows) /\ Last(rows) \in rows /\ Last(rows) \in Hours
        /\ mark[t][b] <= Last(rows)
    BY <1>1, <1>3, <2>4
  <2>8. ASSUME NEW h \in Hours, raw'[t][b][h] # 0 PROVE h <= Last(rows)
    <3>1. h \in Int /\ Last(rows) \in Int
      BY <2>7, HoursTyped
    <3>2. CASE h >= mark[t][b] - IngestLookback
      BY <1>3, <2>5, <2>7, <2>8, <3>2
    <3>3. CASE ~(h >= mark[t][b] - IngestLookback)
      BY <2>m, <2>7, <3>1, <3>3
    <3> QED BY <3>2, <3>3
  <2>9. mark'[t][b] # None /\ raw'[t][b][mark'[t][b]] # 0
    BY <2>6, <2>7, HoursTyped
  <2>10. Backed(t, b)' /\ AtEnd(t, b)'
    BY <2>7, <2>8, <2>9 DEF Backed, AtEnd
  <2> QED BY <2>7, <2>9, <2>10
<1> QED BY <1>4, <1>5

\* Rows stay, watermarks never fall back, and each stays a raw hour.
LEMMA OnlyForward ==
  ASSUME TypeOK, \A t \in Tables : \A b \in BAs : Backed(t, b), [Next]_vars,
         NEW u \in Tables, NEW a \in BAs
  PROVE  /\ \A h \in Hours : raw[u][a][h] # 0 => raw'[u][a][h] # 0
         /\ mark[u][a] # None => mark'[u][a] # None /\ mark[u][a] <= mark'[u][a]
         /\ Backed(u, a)'
<1>t. /\ raw \in [Tables -> [BAs -> [Hours -> 0..MaxVersion]]]
      /\ mark \in [Tables -> [BAs -> Hours \union {None}]]
  BY DEF TypeOK
<1>m. mark[u][a] # None => mark[u][a] \in Hours /\ mark[u][a] \in Int
  BY <1>t, HoursTyped
<1>b. Backed(u, a)
  OBVIOUS
<1>1. CASE UNCHANGED <<raw, mark>>
  BY <1>1, <1>b, <1>m DEF Backed
<1>2. ASSUME NEW t \in Tables, NEW b \in BAs, NEW S \in SUBSET Hours, Upsert(t, b, S), mark' = mark
      PROVE  /\ \A h \in Hours : raw[u][a][h] # 0 => raw'[u][a][h] # 0
             /\ mark[u][a] # None => mark'[u][a] # None /\ mark[u][a] <= mark'[u][a]
             /\ Backed(u, a)'
  <2>1. \A h \in Hours : raw[u][a][h] # 0 => raw'[u][a][h] # 0
    BY <1>t, <1>2, UpsertKeeps
  <2> QED BY <1>2, <1>b, <1>m, <2>1 DEF Backed
<1>3. ASSUME NEW t \in Tables, NEW b \in BAs, NEW S \in SUBSET Asked(t, b), Upsert(t, b, S), Mark(t, b)
      PROVE  /\ \A h \in Hours : raw[u][a][h] # 0 => raw'[u][a][h] # 0
             /\ mark[u][a] # None => mark'[u][a] # None /\ mark[u][a] <= mark'[u][a]
             /\ Backed(u, a)'
  <2>0. S \in SUBSET Hours
    BY AskedTyped
  <2>1. \A h \in Hours : raw[u][a][h] # 0 => raw'[u][a][h] # 0
    BY <1>t, <1>3, <2>0, UpsertKeeps
  <2>2. CASE u = t /\ a = b
    BY <1>3, <2>1, <2>2, MarkAdvances
  <2>3. CASE ~(u = t /\ a = b)
    <3>0. Mark(t, b)
      BY <1>3
    <3>a. \A v \in Tables, c \in BAs : v # t \/ c # b => mark'[v][c] = mark[v][c]
      BY <1>t, <3>0, MarkDoes
    <3>1. mark'[u][a] = mark[u][a]
      BY <2>3, <3>a
    <3>2. mark[u][a] # None => raw'[u][a][mark[u][a]] # 0
      BY <1>b, <1>m, <2>1 DEF Backed
    <3>3. Backed(u, a)'
      BY <3>1, <3>2 DEF Backed
    <3> QED BY <1>m, <2>1, <3>1, <3>3
  <2> QED BY <2>2, <2>3
<1>4. ASSUME NEW t \in Tables, NEW b \in BAs, LoadPair(t, b)
      PROVE  \E S \in SUBSET Asked(t, b) : Upsert(t, b, S) /\ Mark(t, b)
  BY <1>4 DEF LoadPair
<1>5. ASSUME NEW t \in Tables, NEW b \in BAs, FailIngest(t, b)
      PROVE  \E S \in SUBSET Asked(t, b) : Upsert(t, b, S) /\ (Mark(t, b) \/ mark' = mark)
  BY <1>5 DEF FailIngest
<1>6. ASSUME NEW t \in Tables, NEW b \in BAs, ReplayPair(t, b) \/ FailReplay(t, b)
      PROVE  \E S \in SUBSET Hours : Upsert(t, b, S) /\ mark' = mark
  BY <1>6 DEF ReplayPair, FailReplay
<1>7. ASSUME NEW t \in Tables, NEW b \in BAs PROVE SUBSET Asked(t, b) \subseteq SUBSET Hours
  BY AskedTyped
<1> QED BY <1>1, <1>2, <1>3, <1>4, <1>5, <1>6, <1>7
        DEF Next, vars, StartIngest, StartReplay, BuildIncremental, BuildFull, FailBuild, AddBA

LEMMA RawInit == Init => RawInv
<1> SUFFICES ASSUME Init, NEW t \in Tables, NEW b \in BAs PROVE Backed(t, b) /\ ~Done(t, b)
  BY DEF RawInv
<1>1. mark[t][b] = None /\ pc = "idle"
  BY DEF Init
<1> QED BY <1>1 DEF Backed, Done

LEMMA RawStep == TypeOK /\ RawInv /\ [Next]_vars => RawInv'
<1> SUFFICES ASSUME TypeOK, RawInv, [Next]_vars, NEW u \in Tables, NEW a \in BAs
             PROVE  Backed(u, a)' /\ (Done(u, a)' => AtEnd(u, a)')
  BY DEF RawInv
<1>b. \A t \in Tables : \A b \in BAs : Backed(t, b)
  BY DEF RawInv
<1>i. Backed(u, a) /\ (Done(u, a) => AtEnd(u, a))
  BY DEF RawInv
<1>f. Backed(u, a)'
  BY <1>b, OnlyForward
<1>t. /\ raw \in [Tables -> [BAs -> [Hours -> 0..MaxVersion]]]
      /\ mark \in [Tables -> [BAs -> Hours \union {None}]]
      /\ todo \subseteq Tables \X tracked
  BY DEF TypeOK
<1> SUFFICES ASSUME Done(u, a)' PROVE AtEnd(u, a)'
  BY <1>f
<1>d. a \in tracked' /\ (pc' = "ready" \/ (pc' = "ingest" /\ <<u, a>> \notin todo'))
  BY DEF Done
<1>1. CASE StartIngest
  BY <1>1, <1>d DEF StartIngest
<1>2. CASE StartReplay \/ BuildIncremental \/ BuildFull \/ FailBuild \/ \E b \in BAs : AddBA(b)
  BY <1>2, <1>d DEF StartReplay, BuildIncremental, BuildFull, FailBuild, AddBA
<1>3. CASE UNCHANGED vars
  <2>1. UNCHANGED <<raw, mark, tracked>> /\ Done(u, a)
    BY <1>3, <1>d DEF vars, Done
  <2> QED BY <1>i, <2>1 DEF AtEnd
<1>4. ASSUME NEW t \in Tables, NEW b \in BAs, LoadPair(t, b) PROVE AtEnd(u, a)'
  <2>1. PICK S \in SUBSET Asked(t, b) : Upsert(t, b, S) /\ Mark(t, b)
    BY <1>4 DEF LoadPair
  <2>2. pc = "ingest" /\ tracked' = tracked /\ todo' = todo \ {<<t, b>>}
        /\ pc' = IF todo' = {} THEN "ready" ELSE "ingest"
    BY <1>4 DEF LoadPair
  <2>3. CASE u = t /\ a = b
    BY <1>b, <2>1, <2>3, MarkAdvances
  <2>4. CASE ~(u = t /\ a = b)
    <3>1. <<u, a>> \notin todo'
      BY <1>d, <2>2
    <3>2. <<u, a>> \notin todo
      BY <2>2, <2>4, <3>1
    <3>3. Done(u, a)
      BY <1>d, <2>2, <3>2 DEF Done
    <3>4. S \in SUBSET Hours
      BY AskedTyped
    <3>r. \A v \in Tables, c \in BAs : v # t \/ c # b => raw'[v][c] = raw[v][c]
      BY <1>t, <2>1, <3>4, UpsertElsewhere
    <3>5. raw'[u][a] = raw[u][a]
      BY <2>4, <3>r
    <3>6. \A v \in Tables, c \in BAs : v # t \/ c # b => mark'[v][c] = mark[v][c]
      BY <1>t, <2>1, MarkDoes
    <3>7. mark'[u][a] = mark[u][a]
      BY <2>4, <3>6
    <3> QED BY <1>i, <3>3, <3>5, <3>7 DEF AtEnd
  <2> QED BY <2>3, <2>4
<1>5. ASSUME NEW t \in Tables, NEW b \in BAs, FailIngest(t, b) PROVE FALSE
  BY <1>5, <1>d DEF FailIngest
<1>6. ASSUME NEW t \in Tables, NEW b \in BAs, ReplayPair(t, b) \/ FailReplay(t, b) PROVE FALSE
  BY <1>6, <1>d DEF ReplayPair, FailReplay
<1> QED BY <1>1, <1>2, <1>3, <1>4, <1>5, <1>6 DEF Next

-----------------------------------------------------------------------------
(* The fact holds rows of raw hours.  Of an authority that is not owed a     *)
(* full refresh none lies beyond the reach of its watermark.                 *)

Backs(t, b, h) == raw[t][b][h] # 0 /\ (b \notin owed => ~Beyond(t, b, h))

FactInv ==
  /\ pc \in {"replay", "replayed"} => tracked \subseteq owed
  /\ \A b \in BAs :
       /\ b \notin tracked => ~Some(fact[b])
       /\ \A h \in Hours : fact[b][h] # NoRow => Backs("region", b, h)
       /\ \A h \in Hours : fact[b][h][2] # 0 => Backs("fuel", b, h)

LEMMA FactInit == Init => FactInv
BY DEF Init, FactInv, Some, NoRow

\* What a build writes for a tracked authority is a row it selects or was there.
LEMMA BuildWrites ==
  ASSUME TypeOK, BuildIncremental \/ BuildFull, NEW b \in BAs, NEW h \in Hours
  PROVE  /\ b \in tracked => fact'[b][h] \in {Row(b, h), fact[b][h]}
         /\ b \notin tracked => fact'[b][h] \in {NoRow, fact[b][h]}
         /\ BuildFull /\ b \in tracked => fact'[b][h] = Row(b, h)
         /\ BuildIncremental /\ b \in tracked =>
              fact'[b][h] = IF h > ReprocessFrom(b) THEN Row(b, h) ELSE fact[b][h]
         /\ UNCHANGED <<raw, mark, tracked>> /\ pc \in {"ready", "replayed"} /\ pc' = "built"
BY DEF BuildIncremental, BuildFull

\* After an ingestion no raw row is beyond its watermark's reach.
LEMMA NoneBeyond ==
  ASSUME TypeOK, NEW t \in Tables, NEW b \in BAs, AtEnd(t, b), NEW h \in Hours, raw[t][b][h] # 0
  PROVE  ~Beyond(t, b, h)
<1>1. mark[t][b] # None /\ h <= mark[t][b]
  BY DEF AtEnd
<1>2. mark \in [Tables -> [BAs -> Hours \union {None}]]
  BY DEF TypeOK
<1>3. mark[t][b] \in Hours
  BY <1>1, <1>2
<1>4. mark[t][b] \in Int /\ h \in Int
  BY <1>3, HoursTyped
<1> QED BY <1>1, <1>4, ConstantsTyped DEF Beyond

\* Every step that is not a build leaves the rows of the fact backed as they are.
LEMMA BacksStep ==
  ASSUME TypeOK, RawInv, [Next]_vars, NEW t \in Tables, NEW b \in BAs, NEW h \in Hours,
         Backs(t, b, h), b \in owed => b \in owed'
  PROVE  Backs(t, b, h)'
<1>1. /\ raw'[t][b][h] # 0
      /\ mark[t][b] # None => mark'[t][b] # None /\ mark[t][b] <= mark'[t][b]
  <2>1. \A u \in Tables : \A a \in BAs : Backed(u, a)
    BY DEF RawInv
  <2> QED BY <2>1, OnlyForward DEF Backs
<1>2. ASSUME ~Beyond(t, b, h) PROVE ~Beyond(t, b, h)'
  <2>1. mark[t][b] # None /\ ~(h - FactLookback >= mark[t][b] - IngestLookback)
    BY <1>2 DEF Beyond
  <2>t. TypeOK'
    BY TypeStep
  <2>2. /\ mark \in [Tables -> [BAs -> Hours \union {None}]]
        /\ mark' \in [Tables -> [BAs -> Hours \union {None}]]
    BY <2>t DEF TypeOK
  <2>h. mark[t][b] \in Hours /\ mark'[t][b] \in Hours
    BY <1>1, <2>1, <2>2
  <2>3. mark[t][b] \in Int /\ mark'[t][b] \in Int /\ h \in Int
    BY <2>h, HoursTyped
  <2> QED BY <1>1, <2>1, <2>3, ConstantsTyped DEF Beyond
<1> QED BY <1>1, <1>2 DEF Backs

LEMMA FactStep == TypeOK /\ RawInv /\ FactInv /\ [Next]_vars => FactInv'
<1> SUFFICES ASSUME TypeOK, RawInv, FactInv, [Next]_vars PROVE FactInv'
  OBVIOUS
<1>r. "region" \in Tables /\ "fuel" \in Tables
  BY DEF Tables
<1>1. CASE BuildIncremental \/ BuildFull
  <2>1. UNCHANGED <<raw, mark, tracked>> /\ pc' = "built"
    BY <1>1 DEF BuildIncremental, BuildFull
  <2>b. \A b \in BAs, h \in Hours, t \in Tables : Beyond(t, b, h)' <=> Beyond(t, b, h)
    BY <2>1 DEF Beyond
\* What a build takes over from raw is backed.
  <2>2. ASSUME NEW b \in tracked, NEW h \in Hours, fact'[b][h] = Row(b, h)
        PROVE  /\ fact'[b][h] # NoRow => Backs("region", b, h)'
               /\ fact'[b][h][2] # 0 => Backs("fuel", b, h)'
    <3>0. b \in BAs
      BY DEF TypeOK
    <3>1. /\ fact'[b][h] # NoRow => raw["region"][b][h] # 0
          /\ fact'[b][h][2] # 0 => raw["fuel"][b][h] # 0
      BY <2>2 DEF Row, NoRow
    <3>2. CASE BuildIncremental
      <4>1. Done("region", b) /\ Done("fuel", b)
        BY <3>2 DEF BuildIncremental, Done
      <4>2. AtEnd("region", b) /\ AtEnd("fuel", b)
        BY <1>r, <3>0, <4>1 DEF RawInv
      <4>3. /\ raw["region"][b][h] # 0 => ~Beyond("region", b, h)
            /\ raw["fuel"][b][h] # 0 => ~Beyond("fuel", b, h)
        BY <1>r, <3>0, <4>2, NoneBeyond
      <4> QED BY <1>r, <2>1, <2>b, <3>0, <3>1, <4>3 DEF Backs
    <3>3. CASE BuildFull
      <4>1. b \notin owed' => ~Outruns(b)
        BY <3>3 DEF BuildFull
      <4>2. ASSUME b \notin owed'
            PROVE  /\ fact'[b][h] # NoRow => ~Beyond("region", b, h)
                   /\ fact'[b][h][2] # 0 => ~Beyond("fuel", b, h)
        BY <2>2, <4>1, <4>2 DEF Outruns
      <4>3. fact'[b][h] # NoRow => Backs("region", b, h)'
        BY <1>r, <2>1, <2>b, <3>0, <3>1, <4>2 DEF Backs
      <4>4. fact'[b][h][2] # 0 => Backs("fuel", b, h)'
        BY <1>r, <2>1, <2>b, <3>0, <3>1, <4>2 DEF Backs
      <4> QED BY <4>3, <4>4
    <3> QED BY <1>1, <3>2, <3>3
\* What it leaves as it was stays backed.
  <2>3. ASSUME BuildIncremental, NEW b \in BAs, NEW h \in Hours, fact'[b][h] = fact[b][h]
        PROVE  /\ fact'[b][h] # NoRow => Backs("region", b, h)'
               /\ fact'[b][h][2] # 0 => Backs("fuel", b, h)'
    <3>1. owed' = owed
      BY <2>3 DEF BuildIncremental
    <3>2. /\ fact[b][h] # NoRow => Backs("region", b, h)
          /\ fact[b][h][2] # 0 => Backs("fuel", b, h)
      BY DEF FactInv
    <3> QED BY <1>r, <2>1, <2>3, <2>b, <3>1, <3>2 DEF Backs
  <2>4. ASSUME NEW b \in BAs, b \notin tracked PROVE \A h \in Hours : fact'[b][h] = NoRow
    <3>1. \A h \in Hours : fact[b][h] = NoRow
      BY <2>4 DEF FactInv, Some
    <3> QED BY <1>1, <2>4, <3>1, BuildWrites
  <2>5. ASSUME NEW b \in BAs, NEW h \in Hours
        PROVE  /\ fact'[b][h] # NoRow => Backs("region", b, h)'
               /\ fact'[b][h][2] # 0 => Backs("fuel", b, h)'
    <3>1. CASE b \notin tracked
      BY <2>4, <3>1 DEF NoRow
    <3>2. CASE b \in tracked
      <4>1. fact'[b][h] = Row(b, h) \/ (BuildIncremental /\ fact'[b][h] = fact[b][h])
        BY <1>1, <3>2, BuildWrites
      <4> QED BY <2>2, <2>3, <3>2, <4>1
    <3> QED BY <3>1, <3>2
  <2> QED BY <2>1, <2>4, <2>5 DEF FactInv, Some
<1>2. ASSUME fact' = fact, tracked \subseteq tracked', owed \subseteq owed',
             pc' \in {"replay", "replayed"} => tracked' \subseteq owed'
      PROVE  FactInv'
  <2>1. ASSUME NEW b \in BAs, NEW h \in Hours
        PROVE  /\ fact'[b][h] # NoRow => Backs("region", b, h)'
               /\ fact'[b][h][2] # 0 => Backs("fuel", b, h)'
    <3>1. /\ fact[b][h] # NoRow => Backs("region", b, h)
          /\ fact[b][h][2] # 0 => Backs("fuel", b, h)
      BY DEF FactInv
    <3> QED BY <1>r, <1>2, <3>1, BacksStep
  <2>2. \A b \in BAs : b \notin tracked' => ~Some(fact[b])
    BY <1>2 DEF FactInv
  <2> QED BY <1>2, <2>1, <2>2 DEF FactInv, Some
<1>3. CASE ~(BuildIncremental \/ BuildFull)
  <2>1. /\ fact' = fact /\ tracked \subseteq tracked' /\ owed \subseteq owed'
        /\ pc' \in {"replay", "replayed"} => tracked' \subseteq owed'
    BY <1>3 DEF FactInv, Next, vars, StartIngest, StartReplay, FailBuild, LoadPair, FailIngest,
                ReplayPair, FailReplay, AddBA
  <2> QED BY <1>2, <2>1
<1> QED BY <1>1, <1>3

-----------------------------------------------------------------------------
(* Metrics: what a build has to write again lies after its window's start.   *)

\* The hours that ingestion changes, of either table, and nothing else it does.
LEMMA IngestReach ==
  ASSUME TypeOK, FactInv, NEW t \in Tables, NEW b \in BAs, LoadPair(t, b) \/ FailIngest(t, b)
  PROVE  /\ UNCHANGED <<fact, tracked, owed>> /\ pc = "ingest"
         /\ \E S \in SUBSET Hours :
              /\ \A u \in Tables, a \in BAs : u # t \/ a # b => raw'[u][a] = raw[u][a]
              /\ \A h \in Hours : h \notin S => raw'[t][b][h] = raw[t][b][h]
              /\ b \notin owed => \A h \in S :
                   /\ t = "region" /\ Some(fact[b]) => h > LastRow(fact[b]) - FactLookback
                   /\ t = "fuel" /\ SomeFuel(fact[b]) => h > LastFuel(fact[b]) - FactLookback
<1>t. /\ raw \in [Tables -> [BAs -> [Hours -> 0..MaxVersion]]]
      /\ mark \in [Tables -> [BAs -> Hours \union {None}]]
      /\ fact[b] \in [Hours -> Rows]
  BY DEF TypeOK, Rows
<1>1. UNCHANGED <<fact, tracked, owed>> /\ pc = "ingest"
  BY DEF LoadPair, FailIngest
<1>2. PICK S \in SUBSET Asked(t, b) : Upsert(t, b, S)
  BY DEF LoadPair, FailIngest
<1>3. S \in SUBSET Hours
  BY AskedTyped
<1>r. raw \in [Tables -> [BAs -> [Hours -> 0..MaxVersion]]]
  BY <1>t
<1>4. \A u \in Tables, a \in BAs : u # t \/ a # b => raw'[u][a] = raw[u][a]
  BY <1>r, <1>2, <1>3, UpsertElsewhere
<1>u. \A h \in Hours : raw'[t][b][h] = IF h \in S THEN raw[t][b][h] + 1 ELSE raw[t][b][h]
  BY <1>r, <1>2, <1>3, UpsertHere
<1>5. \A h \in Hours : h \notin S => raw'[t][b][h] = raw[t][b][h]
  BY <1>u
\* An edge e within the reach of the watermark.
<1>6. ASSUME NEW e \in Hours, ~Beyond(t, b, e), NEW h \in S
      PROVE  h > e - FactLookback
  <2>b. mark[t][b] # None /\ ~(e - FactLookback >= mark[t][b] - IngestLookback)
    BY <1>6 DEF Beyond
  <2>1. h >= mark[t][b] - IngestLookback
    BY <2>b DEF Asked
  <2>0. mark[t][b] \in Hours
    BY <2>b, <1>t
  <2>2. h \in Int /\ e \in Int /\ mark[t][b] \in Int
    BY <1>3, <2>0, HoursTyped
  <2>3. IngestLookback \in Nat /\ FactLookback \in Nat /\ IngestLookback < FactLookback
    BY ConstantsTyped
  <2> QED BY <2>b, <2>1, <2>2, <2>3
<1>7. ASSUME b \notin owed, NEW h \in S, t = "region", Some(fact[b])
      PROVE  h > LastRow(fact[b]) - FactLookback
  <2>1. LastRow(fact[b]) \in Hours /\ fact[b][LastRow(fact[b])] # NoRow
    BY <1>t, <1>7, Edges
  <2>2. ~Beyond("region", b, LastRow(fact[b]))
    BY <1>7, <2>1 DEF FactInv, Backs
  <2> QED BY <1>6, <1>7, <2>1, <2>2
<1>8. ASSUME b \notin owed, NEW h \in S, t = "fuel", SomeFuel(fact[b])
      PROVE  h > LastFuel(fact[b]) - FactLookback
  <2>1. LastFuel(fact[b]) \in Hours /\ fact[b][LastFuel(fact[b])][2] # 0
    BY <1>t, <1>8, Edges
  <2>2. ~Beyond("fuel", b, LastFuel(fact[b]))
    BY <1>8, <2>1 DEF FactInv, Backs
  <2> QED BY <1>6, <1>8, <2>1, <2>2
<1> QED BY <1>1, <1>3, <1>4, <1>5, <1>7, <1>8

\* A replay changes only authorities that it leaves in need of a full refresh.
LEMMA ReplayReach ==
  ASSUME TypeOK, FactInv,
         StartReplay \/ \E t \in Tables, b \in BAs : ReplayPair(t, b) \/ FailReplay(t, b),
         NEW a \in BAs \ owed', NEW u \in Tables
  PROVE  raw'[u][a] = raw[u][a] /\ a \notin owed
<1>1. CASE StartReplay
  BY <1>1 DEF StartReplay
<1>2. ASSUME NEW t \in Tables, NEW b \in BAs, ReplayPair(t, b) \/ FailReplay(t, b)
      PROVE  raw'[u][a] = raw[u][a] /\ a \notin owed
  <2>1. PICK S \in SUBSET Hours : Upsert(t, b, S)
    BY <1>2 DEF ReplayPair, FailReplay
  <2>2. pc = "replay" /\ <<t, b>> \in todo /\ owed' = owed
    BY <1>2 DEF ReplayPair, FailReplay, InTurn
  <2>3. b \in owed /\ a # b
    BY <2>2 DEF FactInv, TypeOK
  <2>4. raw \in [Tables -> [BAs -> [Hours -> 0..MaxVersion]]]
    BY DEF TypeOK
  <2> QED BY <2>1, <2>2, <2>3, <2>4, UpsertElsewhere
<1> QED BY <1>1, <1>2

MetricsBehind(b, h) == fact[b][h][1] # raw["region"][b][h]

MetricsInv ==
  /\ \A b \in BAs \ owed : \A h \in Hours :
       Some(fact[b]) /\ MetricsBehind(b, h) => h > LastRow(fact[b]) - FactLookback
  /\ pc = "built" => \A b \in tracked \ owed : \A h \in Hours : ~MetricsBehind(b, h)

LEMMA MetricsInit == Init => MetricsInv
BY DEF Init, MetricsInv, Some, NoRow

\* A build leaves no metrics behind, and the last row where it was or later.
LEMMA BuildMetrics ==
  ASSUME TypeOK, FactInv, MetricsInv, BuildIncremental \/ BuildFull,
         NEW b \in tracked, BuildFull \/ b \notin owed
  PROVE  /\ \A h \in Hours : fact'[b][h][1] = raw["region"][b][h]
         /\ \A h \in Hours : fact[b][h] # NoRow => fact'[b][h] # NoRow
         /\ Some(fact[b]) => Some(fact'[b]) /\ LastRow(fact[b]) <= LastRow(fact'[b])
<1>t. /\ raw \in [Tables -> [BAs -> [Hours -> 0..MaxVersion]]]
      /\ fact \in [BAs -> [Hours -> Rows]] /\ b \in BAs
  BY DEF TypeOK, Rows
<1>1. ASSUME NEW h \in Hours PROVE fact'[b][h][1] = raw["region"][b][h]
  <2>1. Row(b, h)[1] = raw["region"][b][h]
    BY <1>t, RowTyped
  <2>2. CASE BuildFull
    BY <1>t, <2>1, <2>2, BuildWrites
  <2>3. CASE BuildIncremental /\ b \notin owed
    <3>1. fact'[b][h] = IF h > ReprocessFrom(b) THEN Row(b, h) ELSE fact[b][h]
      BY <1>t, <2>3, BuildWrites
    <3>2. CASE h > ReprocessFrom(b)
      BY <2>1, <3>1, <3>2
    <3>3. CASE ~(h > ReprocessFrom(b))
      <4>1. Some(fact[b])
        BY <1>t, <3>3, WindowStart, HoursTyped
      <4>2. ReprocessFrom(b) \in Int /\ ReprocessFrom(b) <= LastRow(fact[b]) - FactLookback
        BY <1>t, <4>1, WindowStart
      <4>3. LastRow(fact[b]) \in Int /\ h \in Int
        BY <1>t, <4>1, Edges, HoursTyped
      <4>4. ~(h > LastRow(fact[b]) - FactLookback)
        BY <3>3, <4>2, <4>3, ConstantsTyped
      <4>5. ~MetricsBehind(b, h)
        BY <1>t, <2>3, <4>1, <4>4 DEF MetricsInv
      <4> QED BY <3>1, <3>3, <4>5 DEF MetricsBehind
    <3> QED BY <3>2, <3>3
  <2> QED BY <2>2, <2>3
<1>2. ASSUME NEW h \in Hours, fact[b][h] # NoRow PROVE fact'[b][h] # NoRow
  <2>1. raw["region"][b][h] # 0
    BY <1>t, <1>2 DEF FactInv, Backs
  <2>2. fact'[b][h][1] # 0
    BY <1>1, <2>1
  <2> QED BY <2>2 DEF NoRow
<1>3. ASSUME Some(fact[b]) PROVE Some(fact'[b]) /\ LastRow(fact[b]) <= LastRow(fact'[b])
  <2>1. LastRow(fact[b]) \in Hours /\ fact'[b][LastRow(fact[b])] # NoRow
    BY <1>t, <1>2, <1>3, Edges
  <2>2. TypeOK'
    BY TypeStep DEF Next
  <2>3. fact'[b] \in [Hours -> Rows]
    BY <1>t, <2>2 DEF TypeOK, Rows
  <2> QED BY <2>1, <2>3, Edges DEF Some
<1> QED BY <1>1, <1>2, <1>3

LEMMA MetricsStep == TypeOK /\ FactInv /\ MetricsInv /\ [Next]_vars => MetricsInv'
<1> SUFFICES ASSUME TypeOK, FactInv, MetricsInv, [Next]_vars PROVE MetricsInv'
  OBVIOUS
<1>1. CASE BuildIncremental \/ BuildFull
  <2>1. UNCHANGED <<raw, tracked>> /\ pc' = "built" /\ (BuildIncremental => owed' = owed)
    BY <1>1 DEF BuildIncremental, BuildFull
  <2>2. \A b \in tracked \ owed' : \A h \in Hours : ~MetricsBehind(b, h)'
    BY <1>1, <2>1, BuildMetrics DEF MetricsBehind
  <2>3. ASSUME NEW b \in BAs, b \notin tracked PROVE ~Some(fact[b])'
    <3>1. ~Some(fact[b])
      BY <2>3 DEF FactInv
    <3>2. \A h \in Hours : fact'[b][h] = NoRow
      BY <1>1, <2>3, <3>1, BuildWrites DEF Some
    <3> QED BY <3>2 DEF Some
  <2> QED BY <2>1, <2>2, <2>3 DEF MetricsInv
<1>2. ASSUME NEW t \in Tables, NEW b \in BAs, LoadPair(t, b) \/ FailIngest(t, b) PROVE MetricsInv'
  <2>1. /\ UNCHANGED <<fact, tracked, owed>> /\ pc = "ingest"
        /\ \E S \in SUBSET Hours :
             /\ \A u \in Tables, a \in BAs : u # t \/ a # b => raw'[u][a] = raw[u][a]
             /\ \A h \in Hours : h \notin S => raw'[t][b][h] = raw[t][b][h]
             /\ b \notin owed => \A h \in S :
                  t = "region" /\ Some(fact[b]) => h > LastRow(fact[b]) - FactLookback
    BY <1>2, IngestReach
  <2>2. pc' # "built"
    BY <1>2 DEF LoadPair, FailIngest
  <2>3. ASSUME NEW a \in BAs \ owed, NEW h \in Hours,
               Some(fact[a]), fact[a][h][1] # raw'["region"][a][h]
        PROVE  h > LastRow(fact[a]) - FactLookback
    <3>1. CASE raw'["region"][a][h] = raw["region"][a][h]
      BY <2>1, <2>3, <3>1 DEF MetricsInv, MetricsBehind
    <3>2. CASE raw'["region"][a][h] # raw["region"][a][h]
      <4>1. t = "region" /\ a = b
        BY <2>1, <3>2 DEF Tables
      <4> QED BY <2>1, <2>3, <3>2, <4>1
    <3> QED BY <3>1, <3>2
  <2>4. ASSUME NEW a \in BAs \ owed, NEW h \in Hours, Some(fact[a])', MetricsBehind(a, h)'
        PROVE  h > (LastRow(fact[a]) - FactLookback)'
    <3>1. fact' = fact
      BY <2>1
    <3> QED BY <2>3, <2>4, <3>1 DEF MetricsBehind, Some, LastRow
  <2> QED BY <2>1, <2>2, <2>4 DEF MetricsInv
\* A replay changes only authorities that are owed a full refresh.
<1>3. CASE StartReplay \/ \E t \in Tables, b \in BAs : ReplayPair(t, b) \/ FailReplay(t, b)
  <2>1. fact' = fact /\ pc' # "built" /\ owed \subseteq owed'
    BY <1>3 DEF StartReplay, ReplayPair, FailReplay
  <2>2. ASSUME NEW a \in BAs \ owed' PROVE raw'["region"][a] = raw["region"][a]
    <3>1. "region" \in Tables
      BY DEF Tables
    <3> QED BY <1>3, <2>2, <3>1, ReplayReach
  <2> QED BY <2>1, <2>2 DEF MetricsInv, MetricsBehind, Some, LastRow
<1>4. CASE StartIngest \/ FailBuild \/ (\E b \in BAs : AddBA(b)) \/ UNCHANGED vars
  <2>1. UNCHANGED <<raw, fact, owed>> /\ (pc' = "built" => pc = "built" /\ tracked' = tracked)
    BY <1>4 DEF StartIngest, FailBuild, AddBA, vars
  <2> QED BY <2>1 DEF MetricsInv, MetricsBehind, Some, LastRow
<1> QED BY <1>1, <1>2, <1>3, <1>4 DEF Next

\* The metrics of an authority that no replay left in need of a full refresh are
\* after every build exactly those of the raw table, whatever fails, is restated
\* late or is added between two of them (assert_fct_reconciles_with_source.sql).
THEOREM BuildsReconcile ==
  Spec => [](pc = "built" => \A b \in tracked \ owed, h \in Hours :
               fact[b][h] # NoRow <=> raw["region"][b][h] # 0)
<1> DEFINE Reconciled == pc = "built" => \A b \in tracked \ owed, h \in Hours :
             fact[b][h] # NoRow <=> raw["region"][b][h] # 0
<1>1. Init => TypeOK /\ RawInv /\ FactInv /\ MetricsInv
  BY TypeInit, RawInit, FactInit, MetricsInit
<1>2. TypeOK /\ RawInv /\ FactInv /\ MetricsInv /\ [Next]_vars
        => (TypeOK /\ RawInv /\ FactInv /\ MetricsInv)'
  BY TypeStep, RawStep, FactStep, MetricsStep
<1>3. TypeOK /\ MetricsInv => Reconciled
  <2> SUFFICES ASSUME TypeOK, MetricsInv, pc = "built", NEW b \in tracked \ owed, NEW h \in Hours
               PROVE  fact[b][h] # NoRow <=> raw["region"][b][h] # 0
    OBVIOUS
  <2>1. fact[b][h] \in Rows /\ fact[b][h][1] = raw["region"][b][h]
    BY DEF TypeOK, Rows, MetricsInv, MetricsBehind
  <2> QED BY <2>1, RowsTyped
<1> QED BY <1>1, <1>2, <1>3, PTL DEF Spec

-----------------------------------------------------------------------------
(* Fuel: no authority is built without a fuel report, so there is an edge to *)
(* start from, and what lies before the window is beyond the cap.            *)

Accompanied(b) ==
  (\E h \in Hours : raw["region"][b][h] # 0) =>
     \E h \in Hours : raw["region"][b][h] # 0 /\ raw["fuel"][b][h] # 0

\* Is an authority through with the fuel of the ingestion or replay under way?
FuelDone(b) ==
  /\ b \in tracked
  /\ \/ pc \in {"ready", "replayed"}
     \/ pc \in {"ingest", "replay"} /\ <<"fuel", b>> \notin todo

FuelInv ==
  /\ \A b \in BAs : (FuelDone(b) => Accompanied(b)) /\ (Some(fact[b]) => SomeFuel(fact[b]))
  /\ pc \in {"ingest", "replay"} => \A b \in tracked : <<"fuel", b>> \notin todo => todo \subseteq {"fuel"} \X BAs

LEMMA FuelInit == Init => FuelInv
BY DEF Init, FuelInv, FuelDone, Some, NoRow

\* When an authority is through with fuel it has an hour with both.
LEMMA AccompaniedStep ==
  ASSUME ~FuelLate, TypeOK, FuelInv, [Next]_vars, NEW a \in BAs, FuelDone(a)'
  PROVE  Accompanied(a)'
<1>t. raw \in [Tables -> [BAs -> [Hours -> 0..MaxVersion]]]
  BY DEF TypeOK
<1>k. "region" \in Tables /\ "fuel" \in Tables
  BY DEF Tables
<1>d. /\ a \in tracked'
      /\ pc' \in {"ready", "replayed"} \/ (pc' \in {"ingest", "replay"} /\ <<"fuel", a>> \notin todo')
  BY DEF FuelDone
<1>i. FuelDone(a) => Accompanied(a)
  BY DEF FuelInv
<1>1. CASE StartIngest \/ StartReplay
  BY <1>1, <1>d, <1>k DEF StartIngest, StartReplay
<1>2. CASE BuildIncremental \/ BuildFull \/ FailBuild \/ \E b \in BAs : AddBA(b)
  BY <1>2, <1>d DEF BuildIncremental, BuildFull, FailBuild, AddBA
<1>3. CASE UNCHANGED vars
  <2>1. raw' = raw /\ FuelDone(a)
    BY <1>3, <1>d DEF vars, FuelDone
  <2> QED BY <1>i, <2>1 DEF Accompanied
<1>4. ASSUME NEW t \in Tables, NEW b \in BAs, LoadPair(t, b) \/ ReplayPair(t, b)
      PROVE  Accompanied(a)'
  <2>1. PICK S \in SUBSET Hours : Upsert(t, b, S)
    BY <1>4, AskedTyped DEF LoadPair, ReplayPair
  <2>2. /\ pc \in {"ingest", "replay"} /\ tracked' = tracked /\ todo' = todo \ {<<t, b>>}
        /\ todo' = {} \/ pc' \in {"ingest", "replay"}
        /\ InTurn(t, b) /\ (t = "fuel" => ~FuelMissing(b))
    BY <1>4 DEF LoadPair, ReplayPair
  <2>r. \A v \in Tables, c \in BAs : v # t \/ c # b => raw'[v][c] = raw[v][c]
    BY <1>t, <2>1, UpsertElsewhere
  <2>3. CASE t = "fuel" /\ b = a
    <3>1. raw'["region"][a] = raw["region"][a]
      BY <1>k, <2>3, <2>r
    <3>2. ~FuelMissing(a)
      BY <2>2, <2>3
    <3> QED BY <3>1, <3>2 DEF FuelMissing, Held, Accompanied
  <2>4. CASE ~(t = "fuel" /\ b = a)
    <3>1. <<"fuel", a>> \notin todo'
      BY <1>d, <2>2
    <3>2. <<"fuel", a>> \notin todo
      BY <2>2, <2>4, <3>1
    <3>3. todo \subseteq {"fuel"} \X BAs /\ FuelDone(a)
      BY <1>d, <2>2, <3>2 DEF FuelInv, FuelDone
    <3>4. t = "fuel"
      BY <2>2, <3>3 DEF InTurn
    <3>5. raw'["region"][a] = raw["region"][a] /\ raw'["fuel"][a] = raw["fuel"][a]
      BY <1>k, <2>4, <2>r, <3>4
    <3> QED BY <1>i, <3>3, <3>5 DEF Accompanied
  <2> QED BY <2>3, <2>4
<1>5. ASSUME NEW t \in Tables, NEW b \in BAs, FailIngest(t, b) \/ FailReplay(t, b) PROVE FALSE
  BY <1>5, <1>d DEF FailIngest, FailReplay
<1> QED BY <1>1, <1>2, <1>3, <1>4, <1>5 DEF Next

\* A build gives an authority rows only together with fuel.
LEMMA BuildFuel ==
  ASSUME TypeOK, FactInv, FuelInv, BuildIncremental \/ BuildFull,
         NEW b \in BAs, Some(fact'[b])
  PROVE  SomeFuel(fact'[b])
<1>t. /\ raw \in [Tables -> [BAs -> [Hours -> 0..MaxVersion]]] /\ fact \in [BAs -> [Hours -> Rows]]
  BY DEF TypeOK, Rows
<1>1. b \in tracked
  <2> SUFFICES ASSUME b \notin tracked PROVE FALSE
    OBVIOUS
  <2>1. ~Some(fact[b])
    BY DEF FactInv
  <2> QED BY <2>1, BuildWrites DEF Some
<1>2. ASSUME NEW h \in Hours, raw["region"][b][h] # 0, raw["fuel"][b][h] # 0 PROVE Row(b, h)[2] # 0
  BY <1>2 DEF Row
<1>3. CASE Some(fact[b])
  <2>1. PICK h \in Hours : fact[b][h][2] # 0
    BY <1>3 DEF FuelInv, SomeFuel
  <2>2. raw["fuel"][b][h] # 0
    BY <2>1 DEF FactInv, Backs
  <2>3. fact[b][h] # NoRow
    BY <2>1 DEF NoRow
  <2>4. raw["region"][b][h] # 0
    BY <2>3 DEF FactInv, Backs
  <2>5. fact'[b][h] \in {Row(b, h), fact[b][h]}
    BY <1>1, BuildWrites
  <2>6. fact'[b][h][2] # 0
    BY <1>2, <2>1, <2>2, <2>4, <2>5
  <2> QED BY <2>6 DEF SomeFuel
<1>4. CASE ~Some(fact[b])
  <2>1. ReprocessFrom(b) = -1
    BY <1>4, WindowStart
  <2>2. \A h \in Hours : fact'[b][h] = Row(b, h)
    BY <1>1, <2>1, BuildWrites, HoursTyped
  <2>3. PICK g \in Hours : fact'[b][g] # NoRow
    BY DEF Some
  <2>4. raw["region"][b][g] # 0
    BY <2>2, <2>3 DEF Row
  <2>5. FuelDone(b)
    BY <1>1 DEF FuelDone, BuildIncremental, BuildFull
  <2>6. PICK h \in Hours : raw["region"][b][h] # 0 /\ raw["fuel"][b][h] # 0
    BY <2>4, <2>5 DEF FuelInv, Accompanied
  <2>7. fact'[b][h][2] # 0
    BY <1>2, <2>2, <2>6
  <2> QED BY <2>7 DEF SomeFuel
<1> QED BY <1>3, <1>4

LEMMA FuelStep ==
  ASSUME ~FuelLate
  PROVE  TypeOK /\ FactInv /\ FuelInv /\ [Next]_vars => FuelInv'
<1> SUFFICES ASSUME TypeOK, FactInv, FuelInv, [Next]_vars PROVE FuelInv'
  OBVIOUS
<1>1. \A b \in BAs : FuelDone(b)' => Accompanied(b)'
  BY AccompaniedStep
<1>2. ASSUME NEW b \in BAs, Some(fact'[b]) PROVE SomeFuel(fact'[b])
  <2>1. CASE BuildIncremental \/ BuildFull
    BY <1>2, <2>1, BuildFuel
  <2>2. CASE fact' = fact
    BY <1>2, <2>2 DEF FuelInv
  <2> QED BY <2>1, <2>2
          DEF Next, vars, StartIngest, StartReplay, FailBuild, LoadPair, FailIngest, ReplayPair,
              FailReplay, AddBA
<1>3. pc' \in {"ingest", "replay"} =>
        \A b \in tracked' : <<"fuel", b>> \notin todo' => todo' \subseteq {"fuel"} \X BAs
  <2> SUFFICES ASSUME pc' \in {"ingest", "replay"}, NEW b \in tracked', <<"fuel", b>> \notin todo'
               PROVE  todo' \subseteq {"fuel"} \X BAs
    OBVIOUS
  <2>1. CASE StartIngest \/ StartReplay
    BY <2>1 DEF StartIngest, StartReplay, Tables
  <2>2. ASSUME NEW t \in Tables, NEW a \in BAs, LoadPair(t, a) \/ ReplayPair(t, a)
        PROVE  todo' \subseteq {"fuel"} \X BAs
    <3>1. pc \in {"ingest", "replay"} /\ tracked' = tracked /\ todo' = todo \ {<<t, a>>} /\ InTurn(t, a)
      BY <2>2 DEF LoadPair, ReplayPair
    <3>2. CASE t = "fuel"
      BY <3>1, <3>2 DEF InTurn
    <3>3. CASE t # "fuel"
      <4>1. <<"fuel", b>> \notin todo
        BY <3>1, <3>3
      <4> QED BY <3>1, <4>1 DEF FuelInv
    <3> QED BY <3>2, <3>3
  <2>3. CASE UNCHANGED vars
    BY <2>3 DEF vars, FuelInv
  <2> QED BY <2>1, <2>2, <2>3
          DEF Next, BuildIncremental, BuildFull, FailBuild, FailIngest, FailReplay, AddBA
<1>4. \A b \in BAs : Some(fact[b])' => SomeFuel(fact[b])'
  BY <1>2 DEF Some, SomeFuel
<1> QED BY <1>1, <1>3, <1>4 DEF FuelInv

Behind(b, h) == fact[b][h] # Row(b, h)

ReachInv ==
  /\ \A b \in BAs \ owed : \A h \in Hours :
       Some(fact[b]) /\ Behind(b, h) =>
         \/ h > LastFuel(fact[b]) - FactLookback
         \/ h > LastRow(fact[b]) - FactLookback
         \/ h <= LastRow(fact[b]) - Cap - FactLookback
  /\ pc = "built" => \A b \in tracked \ owed : \A h \in Hours :
       Behind(b, h) => h <= LastRow(fact[b]) - Cap - FactLookback

LEMMA ReachInit == Init => ReachInv
BY DEF Init, ReachInv, Some, NoRow

\* What a build leaves as it was and should not is beyond the cap.
LEMMA BuildReach ==
  ASSUME TypeOK, FactInv, MetricsInv, FuelInv, ReachInv, BuildIncremental \/ BuildFull,
         NEW b \in tracked, BuildFull \/ b \notin owed, NEW h \in Hours, fact'[b][h] # Row(b, h)
  PROVE  h <= LastRow(fact'[b]) - Cap - FactLookback
<1>t. b \in BAs /\ fact[b] \in [Hours -> Rows] /\ fact'[b] \in [Hours -> Rows]
  <2>1. TypeOK'
    BY TypeStep DEF Next
  <2> QED BY <2>1 DEF TypeOK, Rows
<1>1. BuildIncremental /\ b \notin owed /\ ~(h > ReprocessFrom(b)) /\ fact'[b][h] = fact[b][h]
  BY <1>t, BuildWrites
<1>2. Some(fact[b])
  BY <1>1, <1>t, WindowStart, HoursTyped
<1>3. SomeFuel(fact[b])
  BY <1>2, <1>t DEF FuelInv
<1>4. /\ LastRow(fact[b]) \in Int /\ LastFuel(fact[b]) \in Int /\ h \in Int
      /\ Some(fact'[b]) /\ LastRow(fact[b]) <= LastRow(fact'[b])
  BY <1>2, <1>3, <1>t, Edges, HoursTyped, BuildMetrics
<1>5. LastRow(fact'[b]) \in Int
  BY <1>4, <1>t, Edges, HoursTyped
<1>6. \/ h > LastFuel(fact[b]) - FactLookback
      \/ h > LastRow(fact[b]) - FactLookback
      \/ h <= LastRow(fact[b]) - Cap - FactLookback
  <2>1. Behind(b, h)
    BY <1>1 DEF Behind
  <2> QED BY <1>1, <1>2, <1>t, <2>1 DEF ReachInv
<1>7. /\ ReprocessFrom(b) \in Int /\ ReprocessFrom(b) <= LastRow(fact[b]) - FactLookback
      /\ \/ ReprocessFrom(b) <= LastFuel(fact[b]) - FactLookback
         \/ ReprocessFrom(b) = LastRow(fact[b]) - Cap - FactLookback
  BY <1>2, <1>3, <1>t, WindowStart
<1>8. h <= LastRow(fact[b]) - Cap - FactLookback
  BY <1>1, <1>4, <1>6, <1>7, ConstantsTyped
<1> QED BY <1>4, <1>5, <1>8, ConstantsTyped

LEMMA ReachStep ==
  TypeOK /\ FactInv /\ MetricsInv /\ FuelInv /\ ReachInv /\ [Next]_vars => ReachInv'
<1> SUFFICES ASSUME TypeOK, FactInv, MetricsInv, FuelInv, ReachInv, [Next]_vars
             PROVE  ReachInv'
  OBVIOUS
<1>1. CASE BuildIncremental \/ BuildFull
  <2>1. UNCHANGED <<raw, tracked>> /\ pc' = "built" /\ (BuildIncremental => owed' = owed)
    BY <1>1 DEF BuildIncremental, BuildFull
  <2>2. ASSUME NEW b \in tracked \ owed', NEW h \in Hours, Behind(b, h)'
        PROVE  h <= LastRow(fact'[b]) - Cap - FactLookback
    <3>1. fact'[b][h] # Row(b, h)
      BY <2>1, <2>2 DEF Behind, Row
    <3>2. BuildFull \/ b \notin owed
      BY <1>1, <2>1, <2>2
    <3> QED BY <1>1, <2>2, <3>1, <3>2, BuildReach
  <2>3. ASSUME NEW b \in BAs, b \notin tracked PROVE ~Some(fact'[b])
    <3>1. ~Some(fact[b])
      BY <2>3 DEF FactInv
    <3> QED BY <1>1, <2>3, <3>1, BuildWrites DEF Some
  <2> QED BY <2>1, <2>2, <2>3 DEF ReachInv, Some, LastRow
<1>2. ASSUME NEW t \in Tables, NEW b \in BAs, LoadPair(t, b) \/ FailIngest(t, b) PROVE ReachInv'
  <2>1. UNCHANGED <<fact, tracked, owed>> /\ pc = "ingest" /\ pc' # "built"
    BY <1>2, IngestReach DEF LoadPair, FailIngest
  <2>2. PICK S \in SUBSET Hours :
          /\ \A u \in Tables, a \in BAs : u # t \/ a # b => raw'[u][a] = raw[u][a]
          /\ \A h \in Hours : h \notin S => raw'[t][b][h] = raw[t][b][h]
          /\ b \notin owed => \A h \in S :
               /\ t = "region" /\ Some(fact[b]) => h > LastRow(fact[b]) - FactLookback
               /\ t = "fuel" /\ SomeFuel(fact[b]) => h > LastFuel(fact[b]) - FactLookback
    BY <1>2, IngestReach
  <2>3. ASSUME NEW a \in BAs \ owed, NEW h \in Hours, Some(fact[a]), fact[a][h] # Row(a, h)'
        PROVE  \/ h > LastFuel(fact[a]) - FactLookback
               \/ h > LastRow(fact[a]) - FactLookback
               \/ h <= LastRow(fact[a]) - Cap - FactLookback
    <3>1. CASE a = b /\ h \in S
      <4>1. t \in {"region", "fuel"} /\ SomeFuel(fact[a])
        BY <2>3 DEF Tables, FuelInv
      <4> QED BY <2>2, <2>3, <3>1, <4>1
    <3>2. CASE ~(a = b /\ h \in S)
      <4>1. \A u \in Tables : raw'[u][a][h] = raw[u][a][h]
        BY <2>2, <3>2
      <4>2. Row(a, h)' = Row(a, h)
        BY <4>1 DEF Row, Tables
      <4>3. Behind(a, h)
        BY <2>3, <4>2 DEF Behind
      <4> QED BY <2>1, <2>3, <4>3 DEF ReachInv
    <3> QED BY <3>1, <3>2
  <2>4. ASSUME NEW a \in BAs \ owed, NEW h \in Hours, Some(fact[a])', Behind(a, h)'
        PROVE  (\/ h > LastFuel(fact[a]) - FactLookback
                \/ h > LastRow(fact[a]) - FactLookback
                \/ h <= LastRow(fact[a]) - Cap - FactLookback)'
    <3>1. fact' = fact
      BY <2>1
    <3> QED BY <2>3, <2>4, <3>1 DEF Behind, Some, LastRow, LastFuel
  <2> QED BY <2>1, <2>4 DEF ReachInv
<1>3. CASE StartReplay \/ \E t \in Tables, b \in BAs : ReplayPair(t, b) \/ FailReplay(t, b)
  <2>1. fact' = fact /\ pc' # "built" /\ owed \subseteq owed'
    BY <1>3 DEF StartReplay, ReplayPair, FailReplay
  <2>2. ASSUME NEW a \in BAs \ owed'
        PROVE  raw'["region"][a] = raw["region"][a] /\ raw'["fuel"][a] = raw["fuel"][a]
    <3>1. "region" \in Tables /\ "fuel" \in Tables
      BY DEF Tables
    <3> QED BY <1>3, <2>2, <3>1, ReplayReach
  <2> QED BY <2>1, <2>2 DEF ReachInv, Behind, Row, Some, LastRow, LastFuel
<1>4. CASE StartIngest \/ FailBuild \/ (\E b \in BAs : AddBA(b)) \/ UNCHANGED vars
  <2>1. UNCHANGED <<raw, fact, owed>> /\ (pc' = "built" => pc = "built" /\ tracked' = tracked)
    BY <1>4 DEF StartIngest, FailBuild, AddBA, vars
  <2> QED BY <2>1 DEF ReachInv, Behind, Row, Some, LastRow, LastFuel
<1> QED BY <1>1, <1>2, <1>3, <1>4 DEF Next

\* After every build the fact is what a full rebuild would give, except for fuel
\* more than the cap behind its authority's demand, for any lookbacks of which
\* the fact's is the longer: whatever fails, arrives late, is restated, replayed
\* or added in between (fct_grid_hourly.sql, ba_watermarks).  Left out are
\* authorities from a replay until a full refresh whose edges lie in the reach of
\* the watermarks.
THEOREM OnlyCappedFuelIsStale == ASSUME ~FuelLate PROVE Spec => []StaleIsBeyondTheCap
<1> DEFINE Inv == TypeOK /\ RawInv /\ FactInv /\ MetricsInv /\ FuelInv /\ ReachInv
<1>1. Init => Inv
  BY TypeInit, RawInit, FactInit, MetricsInit, FuelInit, ReachInit
<1>2. Inv /\ [Next]_vars => Inv'
  BY TypeStep, RawStep, FactStep, MetricsStep, FuelStep, ReachStep
<1>3. Inv => StaleIsBeyondTheCap
  BY DEF MetricsInv, MetricsBehind, ReachInv, Behind, StaleIsBeyondTheCap, DemandEdge, LastRow
<1> QED BY <1>1, <1>2, <1>3, PTL DEF Spec
=============================================================================
