---------------------------- MODULE IngestProofs ----------------------------
(***************************************************************************)
(* Proofs about Ingest, for every set of pairs and runs, every walk order, *)
(* calendar, lookback, page size and bound.                                *)
(***************************************************************************)
EXTENDS Ingest, TLAPS

LEMMA ConstantsTyped ==
  /\ MaxHour \in Nat /\ BackfillStart \in Nat /\ StartHour \in Nat
  /\ StartHour <= MaxHour /\ BackfillStart <= StartHour
  /\ MaxVersion \in Nat /\ MaxVersion >= 1 /\ Lookback \in Nat /\ PageHours \in Nat
  /\ MaxFaults \in Nat /\ Len(Walk) \in Nat /\ Len(Walk) >= 1
  /\ None \notin Hours /\ Bogus \in Versions
  /\ \A k \in 1..Len(Walk) : Walk[k] \in Pairs
BY IngestAssumption DEF IngestAssumption, Hours, Versions, Bogus

LEMMA PairTyped ==
  ASSUME TypeOK, NEW r \in Runs, Running(r)
  PROVE  /\ Pair(r) \in Pairs /\ Route(r) \in Routes /\ BA(r) \in BAs
         /\ Pair(r) = <<Route(r), BA(r)>>
BY ConstantsTyped DEF TypeOK, Pair, Route, BA, Pairs

LEMMA FirstHourTyped ==
  ASSUME TypeOK, NEW r \in Runs, Running(r)
  PROVE  FirstHour(r) \in Int
<1> USE PairTyped, ConstantsTyped
<1>1. now[r] \in Hours /\ since[r] \in Hours /\ mode[r] \in {"incremental", "backfill", "replay"}
      /\ wm[Pair(r)] \in Hours \union {None}
  BY DEF TypeOK
<1>2. CASE mode[r] = "replay"
  BY <1>1, <1>2 DEF FirstHour, Larger, Hours
<1>3. CASE mode[r] = "backfill"
  BY <1>1, <1>3 DEF FirstHour, Hours
<1>4. CASE mode[r] = "incremental"
  BY <1>1, <1>4 DEF FirstHour, Hours
<1> QED BY <1>1, <1>2, <1>3, <1>4

LEMMA NextPairTyped ==
  ASSUME TypeOK, NEW r \in Runs, Running(r), NextPair(r)
  PROVE  /\ pc' \in [Runs -> {"idle", "open", "fetch", "mark", "finish", "done", "failed"}]
         /\ idx' \in [Runs -> Nat] /\ cur' \in [Runs -> Int] /\ wend' \in [Runs -> Ends]
         /\ pg' \in [Runs -> Int] /\ resp' \in [Runs -> [BAs -> [Hours -> Versions]]]
         /\ \A q \in Runs : Running(q)' => idx'[q] \in 1..Len(Walk)
<1>1. /\ pc' \in [Runs -> {"idle", "open", "fetch", "mark", "finish", "done", "failed"}]
      /\ idx' \in [Runs -> Nat] /\ cur' \in [Runs -> Int] /\ pg' \in [Runs -> Int]
  BY DEF TypeOK, NextPair
<1>2. wend' \in [Runs -> Ends]
  BY ConstantsTyped DEF TypeOK, NextPair, Ends
<1>3. resp' \in [Runs -> [BAs -> [Hours -> Versions]]]
  BY ConstantsTyped DEF TypeOK, NextPair, NoRows, Versions, Bogus
<1>4. \A q \in Runs : Running(q)' => idx'[q] \in 1..Len(Walk)
  BY ConstantsTyped DEF TypeOK, NextPair, Running
<1> QED BY <1>1, <1>2, <1>3, <1>4

LEMMA OpenWindowTyped ==
  ASSUME TypeOK, NEW r \in Runs, Running(r), NEW s \in Int, NEW e \in Ends, OpenWindow(r, s, e)
  PROVE  /\ pc' \in [Runs -> {"idle", "open", "fetch", "mark", "finish", "done", "failed"}]
         /\ cur' \in [Runs -> Int] /\ wend' \in [Runs -> Ends]
         /\ pg' \in [Runs -> Int] /\ resp' \in [Runs -> [BAs -> [Hours -> Versions]]]
         /\ idx' = idx => \A q \in Runs : Running(q)' => idx'[q] \in 1..Len(Walk)
BY ConstantsTyped DEF TypeOK, OpenWindow, Running, NoRows, Versions, Bogus

LEMMA OnwardTyped ==
  ASSUME TypeOK, NEW r \in Runs, Running(r), Onward(r)
  PROVE  /\ pc' \in [Runs -> {"idle", "open", "fetch", "mark", "finish", "done", "failed"}]
         /\ idx' \in [Runs -> Nat] /\ cur' \in [Runs -> Int] /\ wend' \in [Runs -> Ends]
         /\ pg' \in [Runs -> Int] /\ resp' \in [Runs -> [BAs -> [Hours -> Versions]]]
         /\ \A q \in Runs : Running(q)' => idx'[q] \in 1..Len(Walk)
<1>1. CASE NextPair(r)
  BY <1>1, NextPairTyped
<1>2. CASE (\E e \in Ends : OpenWindow(r, wend[r] + 1, e)) /\ idx' = idx
  <2>1. PICK e \in Ends : OpenWindow(r, wend[r] + 1, e)
    BY <1>2
  <2>2. wend[r] + 1 \in Int
    BY ConstantsTyped DEF TypeOK, Ends
  <2>3. idx' \in [Runs -> Nat]
    BY <1>2 DEF TypeOK
  <2> QED BY <1>2, <2>1, <2>2, <2>3, OpenWindowTyped
<1> QED BY <1>1, <1>2 DEF Onward

LEMMA BlankTyped ==
  ASSUME TypeOK, NEW r \in Runs, Blank(r)
  PROVE  /\ idx' \in [Runs -> Nat] /\ cur' \in [Runs -> Int] /\ wend' \in [Runs -> Ends]
         /\ pg' \in [Runs -> Int] /\ resp' \in [Runs -> [BAs -> [Hours -> Versions]]]
BY ConstantsTyped DEF TypeOK, Blank, Ends, NoRows, Versions, Bogus

LEMMA DieTyped ==
  ASSUME TypeOK, NEW r \in Runs, Die(r)
  PROVE  /\ pc' \in [Runs -> {"idle", "open", "fetch", "mark", "finish", "done", "failed"}]
         /\ mode' \in [Runs -> {"incremental", "backfill", "replay"}]
         /\ now' \in [Runs -> Hours] /\ since' \in [Runs -> Hours]
         /\ idx' \in [Runs -> Nat] /\ cur' \in [Runs -> Int] /\ wend' \in [Runs -> Ends]
         /\ pg' \in [Runs -> Int] /\ resp' \in [Runs -> [BAs -> [Hours -> Versions]]]
         /\ \A q \in Runs : Running(q)' => idx'[q] \in 1..Len(Walk)
<1>1. Blank(r)
  BY DEF Die
<1>2. \A q \in Runs : Running(q)' => q # r /\ Running(q) /\ idx'[q] = idx[q]
  BY <1>1 DEF Die, Blank, Running, TypeOK
<1>3. 0 \in Hours
  BY ConstantsTyped DEF Hours
<1> QED BY <1>1, <1>2, <1>3, BlankTyped DEF TypeOK, Die

LEMMA WithPageTyped ==
  ASSUME TypeOK, NEW r \in Runs, Running(r)
  PROVE  WithPage(r) \in [BAs -> [Hours -> Versions]]
<1>1. eia[Pair(r)] \in [Hours -> Versions]
  <2>1. eia[Pair(r)] \in [Hours -> 0..MaxVersion]
    BY PairTyped DEF TypeOK
  <2>2. 0..MaxVersion \subseteq Versions
    BY ConstantsTyped DEF Versions, Bogus
  <2> QED BY <2>1, <2>2
<1>2. resp[r] \in [BAs -> [Hours -> Versions]]
  BY DEF TypeOK
<1> QED BY <1>1, <1>2, PairTyped DEF WithPage

LEMMA TypeInit == Init => TypeOK
<1> SUFFICES ASSUME Init PROVE TypeOK
  OBVIOUS
<1> USE ConstantsTyped
<1>1. eia \in [Pairs -> [Hours -> 0..MaxVersion]]
  BY DEF Init
<1>2. resp \in [Runs -> [BAs -> [Hours -> Versions]]]
  BY DEF Init, NoRows, Versions, Bogus
<1>3. raw \in [Pairs -> [Hours -> 0..MaxVersion]]
  BY DEF Init, Versions, Bogus
<1>4. /\ clock \in Hours /\ StartHour <= clock /\ faults \in 0..MaxFaults /\ meta = {}
      /\ sick \subseteq Pairs
  BY DEF Init, Hours
<1>5. /\ wm \in [Pairs -> Hours \union {None}] /\ asked \in [Pairs -> SUBSET Hours]
      /\ pc \in [Runs -> {"idle"}] /\ mode \in [Runs -> {"incremental"}]
  BY DEF Init
<1>6. /\ now \in [Runs -> Hours] /\ since \in [Runs -> Hours] /\ idx \in [Runs -> Nat]
      /\ cur \in [Runs -> Int] /\ wend \in [Runs -> Ends] /\ pg \in [Runs -> Int]
  BY DEF Init, Hours, Ends
<1> QED BY <1>1, <1>2, <1>3, <1>4, <1>5, <1>6 DEF TypeOK, Running

LEMMA TypeStep == TypeOK /\ [Next]_vars => TypeOK'
<1> SUFFICES ASSUME TypeOK, [Next]_vars PROVE TypeOK'
  OBVIOUS
<1> USE ConstantsTyped
<1>1. CASE Tick
  BY <1>1 DEF Tick, TypeOK, store, job, Hours, Running
<1>2. ASSUME NEW p \in Pairs, NEW h \in Hours, Publish(p, h) PROVE TypeOK'
  <2>1. eia' \in [Pairs -> [Hours -> 0..MaxVersion]]
    BY <1>2 DEF Publish, TypeOK
  <2> QED BY <1>2, <2>1 DEF Publish, TypeOK, store, job, Running
<1>3. ASSUME NEW r \in Runs, NEW m \in Modes, NEW s \in Hours, Start(r, m, s) PROVE TypeOK'
  <2>1. Blank(r)
    BY <1>3 DEF Start
  <2>2. m \in {"incremental", "backfill", "replay"}
    BY IngestAssumption DEF IngestAssumption
  <2>3. \A q \in Runs : Running(q)' => idx'[q] \in 1..Len(Walk)
    BY <1>3, <2>1 DEF Start, Blank, Running, TypeOK
  <2> QED BY <1>3, <2>1, <2>2, <2>3, BlankTyped DEF Start, TypeOK, world, store
<1>4. ASSUME NEW r \in Runs, SkipPair(r) PROVE TypeOK'
  BY <1>4, NextPairTyped DEF SkipPair, TypeOK, world, store, Running
<1>5. ASSUME NEW r \in Runs, OpenPair(r) PROVE TypeOK'
  <2>1. Running(r)
    BY <1>5 DEF OpenPair, Running
  <2>2. PICK e \in Ends : OpenWindow(r, FirstHour(r), e)
    <3>1. now[r] \in Ends
      BY DEF TypeOK, Hours, Ends
    <3> QED BY <1>5, <3>1 DEF OpenPair
  <2> QED BY <1>5, <2>1, <2>2, FirstHourTyped, OpenWindowTyped
            DEF OpenPair, TypeOK, world, store
<1>6. ASSUME NEW r \in Runs, ReadPage(r) PROVE TypeOK'
  BY <1>6, WithPageTyped DEF ReadPage, TypeOK, world, store, Running
<1>7. ASSUME NEW r \in Runs, NEW b \in BAs, NEW h \in Hours, NEW v \in {1, Bogus},
             ReadBadPage(r, b, h, v)
      PROVE  TypeOK'
  <2>1. v \in Versions
    BY DEF Versions, Bogus
  <2>2. WithPage(r) \in [BAs -> [Hours -> Versions]]
    BY <1>7, WithPageTyped DEF ReadBadPage, Running
  <2>3. resp' \in [Runs -> [BAs -> [Hours -> Versions]]]
    BY <1>7, <2>1, <2>2 DEF ReadBadPage, TypeOK
  <2>4. pg' \in [Runs -> Int] /\ faults' \in 0..MaxFaults
    BY <1>7 DEF ReadBadPage, TypeOK
  <2>5. UNCHANGED <<world, store, pc, mode, now, since, idx, cur, wend>>
    BY <1>7 DEF ReadBadPage
  <2> QED BY <2>3, <2>4, <2>5 DEF TypeOK, world, store, Running
<1>8. ASSUME NEW r \in Runs, Reject(r) PROVE TypeOK'
  <2>1. Die(r) /\ UNCHANGED <<world, store, faults>>
    BY <1>8 DEF Reject
  <2> QED BY <2>1, DieTyped DEF TypeOK, world, store
<1>9. ASSUME NEW r \in Runs, Load(r) PROVE TypeOK'
  <2>1. Running(r)
    BY <1>9 DEF Load, Fetched, Running
  <2>2. raw' \in [Pairs -> [Hours -> 0..MaxVersion]]
    <3>1. \A p \in Pairs : p[2] \in BAs
      BY DEF Pairs
    <3>2. ASSUME NEW b \in BAs, NEW h \in Hours PROVE resp[r][b][h] \in 0..MaxVersion
      <4>1. resp[r][b][h] \in Versions /\ resp[r][b][h] # Bogus
        BY <1>9 DEF Load, OddUnits, TypeOK
      <4> QED BY <4>1 DEF Versions, Bogus
    <3>3. raw \in [Pairs -> [Hours -> 0..MaxVersion]] /\ raw' = Upserted(r)
      BY <1>9 DEF Load, TypeOK
    <3> QED BY <3>1, <3>2, <3>3 DEF Upserted
  <2>3. asked' \in [Pairs -> SUBSET Hours]
    BY <1>9, <2>1, PairTyped DEF Load, TypeOK
  <2>4. CASE pc' = [pc EXCEPT ![r] = "mark"] /\ UNCHANGED <<idx, cur, wend, pg, resp>>
    BY <1>9, <2>1, <2>2, <2>3, <2>4 DEF Load, TypeOK, world, Running
  <2>5. CASE Onward(r)
    BY <1>9, <2>1, <2>2, <2>3, <2>5, OnwardTyped DEF Load, TypeOK, world
  <2> QED BY <1>9, <2>4, <2>5 DEF Load
<1>10. ASSUME NEW r \in Runs, Mark(r) PROVE TypeOK'
  <2>1. Running(r)
    BY <1>10 DEF Mark, Running
  <2>2. wm' \in [Pairs -> Hours \union {None}]
    BY <1>10, <2>1, PairTyped DEF Mark, TypeOK, Larger
  <2>3. Onward(r)
    BY <1>10 DEF Mark
  <2> QED BY <1>10, <2>1, <2>2, <2>3, OnwardTyped DEF Mark, TypeOK, world
<1>11. ASSUME NEW r \in Runs, Finish(r) PROVE TypeOK'
  <2>1. Blank(r)
    BY <1>11 DEF Finish
  <2>2. \A q \in Runs : Running(q)' => idx'[q] \in 1..Len(Walk)
    BY <1>11, <2>1 DEF Finish, Blank, Running, TypeOK
  <2>3. meta' \subseteq {"last_incremental_at", "last_backfill_at"}
    BY <1>11 DEF Finish, TypeOK
  <2> QED BY <1>11, <2>1, <2>2, <2>3, BlankTyped DEF Finish, TypeOK, world
<1>12. ASSUME NEW r \in Runs, Crash(r) PROVE TypeOK'
  <2>1. faults' \in 0..MaxFaults
    BY <1>12 DEF Crash, TypeOK
  <2>2. Die(r) /\ UNCHANGED <<world, store>>
    BY <1>12 DEF Crash
  <2> QED BY <2>1, <2>2, DieTyped DEF TypeOK, world, store
<1>13. ASSUME NEW r \in Runs, Refuse(r) PROVE TypeOK'
  <2>1. Die(r) /\ UNCHANGED <<world, store, faults>>
    BY <1>13 DEF Refuse
  <2> QED BY <2>1, DieTyped DEF TypeOK, world, store
<1>14. CASE UNCHANGED vars
  BY <1>14 DEF vars, TypeOK, Running
<1> QED BY <1>1, <1>2, <1>3, <1>4, <1>5, <1>6, <1>7, <1>8, <1>9, <1>10, <1>11, <1>12, <1>13, <1>14
        DEF Next, Step

\* The variables always have their types: no run ever leaves its walk.
THEOREM TypeCorrect == Spec => []TypeOK
BY TypeInit, TypeStep, PTL DEF Spec

-----------------------------------------------------------------------------
(* The watermark invariants.  RunOK is what IngestInv says of one run; a    *)
(* step of another run, or of the archive, keeps it because the archive's  *)
(* versions, the raw tables and the hours asked for only ever grow.        *)

RunOK(q) ==
  /\ pc[q] \in {"fetch", "mark"} /\ mode[q] # "replay" =>
       BackfillStart..(cur[q] - 1) \subseteq asked[Pair(q)]
  /\ pc[q] = "mark" =>
       /\ mode[q] # "replay"
       /\ ~WrongBA(q) /\ ~Stray(q) /\ ~OddUnits(q)
       /\ Window(q) \cap Hours \subseteq asked[Pair(q)]
       /\ \A h \in Hours : resp[q][BA(q)][h] # 0 => raw[Pair(q)][h] # 0
  /\ \A h \in Hours : pc[q] \in {"fetch", "mark"} /\ h \in Window(q) =>
       resp[q][BA(q)][h] = Bogus \/ resp[q][BA(q)][h] <= eia[Pair(q)][h]

StoreOK == NoUnaskedHour /\ WatermarkBacked /\ NothingInvented

Same(q) ==
  /\ pc'[q] = pc[q] /\ mode'[q] = mode[q] /\ idx'[q] = idx[q]
  /\ cur'[q] = cur[q] /\ wend'[q] = wend[q] /\ resp'[q] = resp[q]

OnlyGrows ==
  \A p \in Pairs : /\ asked[p] \subseteq asked'[p]
                   /\ \A h \in Hours : /\ raw[p][h] # 0 => raw'[p][h] # 0
                                       /\ eia[p][h] <= eia'[p][h]

LEMMA InvSplit == IngestInv <=> TypeOK /\ StoreOK /\ \A q \in Runs : RunOK(q)
BY DEF IngestInv, StoreOK, RunOK, WalkedSoFar, MarkIsEarned, RespHonest

LEMMA InvSplitNext == IngestInv' <=> TypeOK' /\ StoreOK' /\ \A q \in Runs : RunOK(q)'
BY DEF IngestInv, StoreOK, RunOK, WalkedSoFar, MarkIsEarned, RespHonest

LEMMA FrameRun ==
  ASSUME TypeOK, TypeOK', OnlyGrows, NEW q \in Runs, RunOK(q), Same(q)
  PROVE  RunOK(q)'
<1>1. CASE ~(pc[q] \in {"fetch", "mark"})
  BY <1>1 DEF RunOK, Same
<1>2. CASE pc[q] \in {"fetch", "mark"}
  <2>1. Pair(q) \in Pairs /\ BA(q) \in BAs
    BY <1>2, PairTyped DEF Running
  <2>2. /\ Pair(q)' = Pair(q) /\ BA(q)' = BA(q) /\ Window(q)' = Window(q)
    BY DEF Same, Pair, BA, Window
  <2>3. /\ WrongBA(q)' <=> WrongBA(q)
        /\ Stray(q)' <=> Stray(q)
        /\ OddUnits(q)' <=> OddUnits(q)
    BY <2>2 DEF Same, WrongBA, Stray, OddUnits
  <2>4. asked[Pair(q)] \subseteq asked'[Pair(q)]
    BY <2>1 DEF OnlyGrows
  <2>5. \A h \in Hours : raw[Pair(q)][h] # 0 => raw'[Pair(q)][h] # 0
    BY <2>1 DEF OnlyGrows
  <2>6. ASSUME NEW h \in Hours, resp[q][BA(q)][h] <= eia[Pair(q)][h]
        PROVE  resp[q][BA(q)][h] <= eia'[Pair(q)][h]
    <3>1. /\ resp[q][BA(q)][h] \in Versions
          /\ eia[Pair(q)][h] \in 0..MaxVersion /\ eia'[Pair(q)][h] \in 0..MaxVersion
      BY <2>1 DEF TypeOK
    <3>2. eia[Pair(q)][h] <= eia'[Pair(q)][h]
      BY <2>1 DEF OnlyGrows
    <3> QED BY <2>6, <3>1, <3>2, ConstantsTyped DEF Versions, Bogus
  <2>7. /\ pc'[q] = pc[q] /\ mode'[q] = mode[q] /\ cur'[q] = cur[q] /\ resp'[q] = resp[q]
    BY DEF Same
  <2> QED BY <2>2, <2>3, <2>4, <2>5, <2>6, <2>7 DEF RunOK
<1> QED BY <1>1, <1>2

\* A run between windows owes nothing.
LEMMA RestingRun ==
  ASSUME NEW q \in Runs, pc'[q] \notin {"fetch", "mark"}
  PROVE  RunOK(q)'
BY DEF RunOK

\* A run that has just opened a window owes only the hours before it.
LEMMA OpenedRun ==
  ASSUME TypeOK, TypeOK', NEW r \in Runs, Running(r), idx' = idx,
         NEW s \in Int, NEW e \in Ends, OpenWindow(r, s, e),
         mode'[r] # "replay" => BackfillStart..(s - 1) \subseteq asked'[Pair(r)]
  PROVE  RunOK(r)'
<1>1. /\ pc'[r] = "fetch" /\ cur'[r] = s /\ wend'[r] = e /\ resp'[r] = NoRows
  BY DEF OpenWindow, TypeOK
<1>2. Pair(r)' = Pair(r) /\ BA(r)' = BA(r)
  BY DEF Pair, BA
<1>3. Pair(r) \in Pairs /\ BA(r) \in BAs
  BY PairTyped
<1>4. \A h \in Hours : resp'[r][BA(r)][h] = 0 /\ eia'[Pair(r)][h] \in 0..MaxVersion
  BY <1>1, <1>3 DEF NoRows, TypeOK
<1>5. \A h \in Hours : resp'[r][BA(r)][h] <= eia'[Pair(r)][h]
  BY <1>4, ConstantsTyped
<1> QED BY <1>1, <1>2, <1>5 DEF RunOK

\* The tables are as good as before when only the archive has moved.
LEMMA FrameStore ==
  ASSUME TypeOK, TypeOK', StoreOK, OnlyGrows, raw' = raw, wm' = wm
  PROVE  StoreOK'
<1>1. NoUnaskedHour' /\ WatermarkBacked'
  BY DEF StoreOK, NoUnaskedHour, WatermarkBacked, OnlyGrows
<1>2. ASSUME NEW p \in Pairs, NEW h \in Hours PROVE raw[p][h] <= eia'[p][h]
  <2>1. raw[p][h] <= eia[p][h] /\ eia[p][h] <= eia'[p][h]
    BY DEF StoreOK, NothingInvented, OnlyGrows
  <2>2. raw[p][h] \in 0..MaxVersion /\ eia[p][h] \in 0..MaxVersion /\ eia'[p][h] \in 0..MaxVersion
    BY DEF TypeOK
  <2> QED BY <2>1, <2>2, ConstantsTyped DEF Versions, Bogus
<1> QED BY <1>1, <1>2 DEF StoreOK, NothingInvented

\* A run alone moves, and leaves the tables and the archive as they are.
LEMMA PrivateStep ==
  ASSUME IngestInv, TypeOK', NEW r \in Runs, UNCHANGED <<eia, raw, wm, asked>>,
         RunOK(r)', \A q \in Runs \ {r} : Same(q)
  PROVE  IngestInv'
<1>1. TypeOK /\ StoreOK /\ \A q \in Runs : RunOK(q)
  BY InvSplit
<1>2. OnlyGrows
  <2>1. \A p \in Pairs, h \in Hours : eia[p][h] \in 0..MaxVersion
    BY <1>1 DEF TypeOK
  <2> QED BY <2>1, ConstantsTyped DEF OnlyGrows
<1>3. StoreOK'
  BY <1>1, <1>2, FrameStore
<1>4. \A q \in Runs \ {r} : RunOK(q)'
  BY <1>1, <1>2, FrameRun
<1> QED BY <1>3, <1>4, InvSplitNext

LEMMA BlankOthers ==
  ASSUME TypeOK, NEW r \in Runs, Blank(r)
  PROVE  \A q \in Runs \ {r} : /\ idx'[q] = idx[q] /\ cur'[q] = cur[q]
                               /\ wend'[q] = wend[q] /\ resp'[q] = resp[q]
BY DEF Blank, TypeOK

LEMMA NextPairSteps ==
  ASSUME TypeOK, NEW r \in Runs, NextPair(r), mode' = mode
  PROVE  /\ \A q \in Runs \ {r} : Same(q)
         /\ RunOK(r)'
<1>1. \A q \in Runs \ {r} : Same(q)
  BY DEF NextPair, Same, TypeOK
<1>2. pc'[r] \notin {"fetch", "mark"}
  BY DEF NextPair, TypeOK
<1> QED BY <1>1, <1>2, RestingRun

LEMMA OpenWindowOthers ==
  ASSUME TypeOK, NEW r \in Runs, NEW s \in Int, NEW e \in Ends, OpenWindow(r, s, e),
         mode' = mode, idx' = idx
  PROVE  \A q \in Runs \ {r} : Same(q)
BY DEF OpenWindow, Same, TypeOK

LEMMA DieSteps ==
  ASSUME TypeOK, NEW r \in Runs, Die(r)
  PROVE  /\ \A q \in Runs \ {r} : Same(q)
         /\ RunOK(r)'
<1>1. \A q \in Runs \ {r} : Same(q)
  BY BlankOthers DEF Die, Same, TypeOK
<1>2. pc'[r] \notin {"fetch", "mark"}
  BY DEF Die, TypeOK
<1> QED BY <1>1, <1>2, RestingRun

LEMMA PublishInv ==
  ASSUME IngestInv, TypeOK', NEW p \in Pairs, NEW h \in Hours, Publish(p, h)
  PROVE  IngestInv'
<1>1. TypeOK /\ StoreOK /\ \A q \in Runs : RunOK(q)
  BY InvSplit
<1>2. OnlyGrows
  <2>1. \A o \in Pairs, g \in Hours : eia[o][g] \in 0..MaxVersion
    BY <1>1 DEF TypeOK
  <2>2. \A o \in Pairs, g \in Hours : eia'[o][g] = eia[o][g] \/ eia'[o][g] = eia[o][g] + 1
    BY <1>1 DEF Publish, TypeOK
  <2>3. \A o \in Pairs, g \in Hours : eia[o][g] <= eia'[o][g]
    BY <2>1, <2>2, ConstantsTyped
  <2> QED BY <2>3 DEF OnlyGrows, Publish, store
<1>3. StoreOK'
  BY <1>1, <1>2, FrameStore DEF Publish, store
<1>4. \A q \in Runs : RunOK(q)'
  BY <1>1, <1>2, FrameRun DEF Publish, job, Same
<1> QED BY <1>3, <1>4, InvSplitNext

\* A pair is opened at the watermark's successor, below the watermark, or at
\* the start of history: nothing is left out before the window.
LEMMA OpenPairInv ==
  ASSUME IngestInv, TypeOK', NEW r \in Runs, OpenPair(r)
  PROVE  IngestInv'
<1>1. TypeOK /\ StoreOK /\ Running(r)
  BY InvSplit DEF OpenPair, Running
<1>2. PICK e \in Ends : OpenWindow(r, FirstHour(r), e)
  <2>1. now[r] \in Ends
    <3>1. now[r] \in Hours
      BY <1>1 DEF TypeOK
    <3> QED BY <3>1, ConstantsTyped DEF Hours, Ends
  <2> QED BY <2>1 DEF OpenPair
<1>3. FirstHour(r) \in Int
  BY <1>1, FirstHourTyped
<1>4. mode[r] # "replay" => BackfillStart..(FirstHour(r) - 1) \subseteq asked[Pair(r)]
  <2>1. Pair(r) \in Pairs /\ wm[Pair(r)] \in Hours \union {None}
    BY <1>1, PairTyped DEF TypeOK
  <2>2. wm[Pair(r)] # None => BackfillStart..wm[Pair(r)] \subseteq asked[Pair(r)]
    BY <1>1, <2>1 DEF StoreOK, NoUnaskedHour
  <2> SUFFICES ASSUME mode[r] # "replay",
                      NEW h \in BackfillStart..(FirstHour(r) - 1)
               PROVE  h \in asked[Pair(r)]
    OBVIOUS
  <2>3. wm[Pair(r)] # None /\ h \in BackfillStart..wm[Pair(r)]
    BY <2>1, ConstantsTyped DEF FirstHour, Hours
  <2> QED BY <2>2, <2>3
<1>5. RunOK(r)'
  BY <1>1, <1>2, <1>3, <1>4, OpenedRun DEF OpenPair, store, world
<1>6. \A q \in Runs \ {r} : Same(q)
  BY <1>1, <1>2, <1>3, OpenWindowOthers DEF OpenPair
<1> QED BY <1>5, <1>6, PrivateStep DEF OpenPair, store, world

\* A page adds what the archive holds; the row nobody asked for is elsewhere,
\* or in the wrong unit.
LEMMA ReadInv ==
  ASSUME IngestInv, TypeOK', NEW r \in Runs, Running(r), pc[r] = "fetch",
         UNCHANGED <<pc, mode, idx, cur, wend>>, UNCHANGED <<eia, raw, wm, asked>>,
         NEW b \in BAs, NEW k \in Hours, NEW v \in Versions,
         \/ resp' = [resp EXCEPT ![r] = WithPage(r)]
         \/ /\ b # BA(r) \/ k \notin Window(r) \/ v = Bogus
            /\ resp' = [resp EXCEPT ![r] = [WithPage(r) EXCEPT ![b][k] = v]]
  PROVE  IngestInv'
<1>1. TypeOK /\ RunOK(r)
  BY InvSplit
<1>2. \A q \in Runs \ {r} : Same(q)
  BY <1>1 DEF Same, TypeOK
<1>3. /\ Pair(r)' = Pair(r) /\ BA(r)' = BA(r) /\ Window(r)' = Window(r)
      /\ BA(r) \in BAs /\ Pair(r) \in Pairs
  BY <1>1, PairTyped DEF Pair, BA, Window
<1>4. ASSUME NEW h \in Hours, h \in Window(r)
      PROVE  resp'[r][BA(r)][h] = Bogus \/ resp'[r][BA(r)][h] <= eia[Pair(r)][h]
  <2>1. WithPage(r) \in [BAs -> [Hours -> Versions]]
    BY <1>1, WithPageTyped
  <2>2. WithPage(r)[BA(r)][h] \in {eia[Pair(r)][h], resp[r][BA(r)][h]}
    BY <1>1, <1>3 DEF WithPage, TypeOK
  <2>3. eia[Pair(r)][h] \in 0..MaxVersion
    BY <1>1, <1>3 DEF TypeOK
  <2>4. WithPage(r)[BA(r)][h] = Bogus \/ WithPage(r)[BA(r)][h] <= eia[Pair(r)][h]
    <3>1. resp[r][BA(r)][h] = Bogus \/ resp[r][BA(r)][h] <= eia[Pair(r)][h]
      BY <1>1, <1>4 DEF RunOK
    <3> QED BY <2>2, <2>3, <3>1, ConstantsTyped
  <2>5. CASE resp' = [resp EXCEPT ![r] = WithPage(r)]
    BY <1>1, <2>4, <2>5 DEF TypeOK
  <2>6. CASE /\ b # BA(r) \/ k \notin Window(r) \/ v = Bogus
             /\ resp' = [resp EXCEPT ![r] = [WithPage(r) EXCEPT ![b][k] = v]]
    <3>1. resp'[r][BA(r)][h] = IF b = BA(r) /\ k = h THEN v ELSE WithPage(r)[BA(r)][h]
      <4>1. resp \in [Runs -> [BAs -> [Hours -> Versions]]]
        BY <1>1 DEF TypeOK
      <4> QED BY <1>3, <2>1, <2>6, <4>1
    <3> QED BY <1>4, <2>4, <2>6, <3>1
  <2> QED BY <2>5, <2>6
<1>5. RunOK(r)'
  <2>1. BackfillStart..(cur'[r] - 1) \subseteq asked'[Pair(r)] \/ mode'[r] = "replay"
    BY <1>1 DEF RunOK
  <2> QED BY <1>3, <1>4, <2>1 DEF RunOK
<1> QED BY <1>2, <1>5, PrivateStep

\* What the upsert of a validated response writes: rows of this pair, inside
\* the window, that the archive held.
LEMMA LoadedRows ==
  ASSUME IngestInv, NEW r \in Runs, Load(r), NEW p \in Pairs, NEW h \in Hours
  PROVE  \/ raw'[p][h] = raw[p][h]
         \/ /\ p = Pair(r) /\ h \in Window(r)
            /\ raw'[p][h] = resp[r][BA(r)][h]
            /\ raw'[p][h] # 0 /\ raw'[p][h] # Bogus
            /\ raw'[p][h] <= eia[p][h]
<1>1. TypeOK /\ RunOK(r) /\ Running(r) /\ pc[r] = "fetch"
  BY InvSplit DEF Load, Fetched, Running
<1>2. /\ Pair(r) = <<Route(r), BA(r)>> /\ BA(r) \in BAs
      /\ p[2] \in BAs /\ p = <<p[1], p[2]>>
  BY <1>1, PairTyped DEF Pairs
<1>3. raw'[p][h] = IF p[1] = Route(r) /\ resp[r][p[2]][h] # 0 THEN resp[r][p[2]][h]
                                                              ELSE raw[p][h]
  BY DEF Load, Upserted
<1>4. CASE p[1] = Route(r) /\ resp[r][p[2]][h] # 0
  <2>1. p[2] = BA(r)
    BY <1>2, <1>4 DEF Load, WrongBA
  <2>2. h \in Window(r)
    BY <1>2, <1>4 DEF Load, Stray
  <2>3. resp[r][BA(r)][h] # Bogus
    BY <1>2 DEF Load, OddUnits
  <2> QED BY <1>1, <1>2, <1>3, <1>4, <2>1, <2>2, <2>3 DEF RunOK
<1> QED BY <1>3, <1>4

\* After a window the run stands right behind it, or is between pairs.
LEMMA OnwardSteps ==
  ASSUME TypeOK, TypeOK', NEW r \in Runs, Running(r), Onward(r), mode' = mode,
         mode[r] # "replay" => /\ BackfillStart..(cur[r] - 1) \subseteq asked'[Pair(r)]
                               /\ Window(r) \cap Hours \subseteq asked'[Pair(r)]
  PROVE  /\ \A q \in Runs \ {r} : Same(q)
         /\ RunOK(r)'
<1>1. CASE NextPair(r)
  BY <1>1, NextPairSteps
<1>2. CASE (\E e \in Ends : OpenWindow(r, wend[r] + 1, e)) /\ idx' = idx /\ wend[r] < now[r]
  <2>1. PICK e \in Ends : OpenWindow(r, wend[r] + 1, e)
    BY <1>2
  <2>2. cur[r] \in Int /\ wend[r] \in Int /\ now[r] \in Hours
    BY ConstantsTyped DEF TypeOK, Ends
  <2>3. ASSUME mode[r] # "replay", NEW h \in BackfillStart..wend[r]
        PROVE  h \in asked'[Pair(r)]
    <3>1. h \in Hours
      BY <1>2, <2>2, ConstantsTyped DEF Hours
    <3>2. h \in BackfillStart..(cur[r] - 1) \/ h \in Window(r) \cap Hours
      BY <2>2, <3>1, ConstantsTyped DEF Window
    <3> QED BY <2>3, <3>2
  <2>4. mode'[r] # "replay" => BackfillStart..((wend[r] + 1) - 1) \subseteq asked'[Pair(r)]
    BY <2>2, <2>3
  <2> QED BY <1>2, <2>1, <2>2, <2>4, OpenedRun, OpenWindowOthers
<1> QED BY <1>1, <1>2 DEF Onward

LEMMA LoadInv ==
  ASSUME IngestInv, TypeOK', NEW r \in Runs, Load(r)
  PROVE  IngestInv'
<1>1. TypeOK /\ StoreOK /\ (\A q \in Runs : RunOK(q)) /\ Running(r) /\ pc[r] = "fetch"
  BY InvSplit DEF Load, Fetched, Running
<1>2. Pair(r) \in Pairs /\ BA(r) \in BAs
  BY <1>1, PairTyped
<1>3. UNCHANGED <<eia, wm, mode>>
  BY DEF Load, world
<1>4. /\ asked'[Pair(r)] = asked[Pair(r)] \union (Window(r) \cap Hours)
      /\ \A p \in Pairs : asked[p] \subseteq asked'[p]
  BY <1>1, <1>2 DEF Load, TypeOK
<1>5. OnlyGrows
  <2>1. \A p \in Pairs, h \in Hours : raw[p][h] # 0 => raw'[p][h] # 0
    BY LoadedRows
  <2>2. \A p \in Pairs, h \in Hours : eia[p][h] <= eia'[p][h]
    BY <1>1, <1>3, ConstantsTyped DEF TypeOK
  <2> QED BY <1>4, <2>1, <2>2 DEF OnlyGrows
<1>6. StoreOK'
  <2>1. NoUnaskedHour'
    BY <1>1, <1>3, <1>4 DEF StoreOK, NoUnaskedHour
  <2>2. WatermarkBacked'
    BY <1>1, <1>3, <1>5 DEF StoreOK, WatermarkBacked, OnlyGrows, TypeOK
  <2>3. NothingInvented'
    <3> SUFFICES ASSUME NEW p \in Pairs, NEW h \in Hours PROVE raw'[p][h] <= eia'[p][h]
      BY DEF NothingInvented
    <3>1. raw[p][h] <= eia[p][h]
      BY <1>1 DEF StoreOK, NothingInvented
    <3> QED BY <1>3, <3>1, LoadedRows
  <2> QED BY <2>1, <2>2, <2>3 DEF StoreOK
<1>7. mode[r] # "replay" => /\ BackfillStart..(cur[r] - 1) \subseteq asked'[Pair(r)]
                            /\ Window(r) \cap Hours \subseteq asked'[Pair(r)]
  BY <1>1, <1>2, <1>4 DEF RunOK
<1>8. CASE /\ Marks(r)
           /\ pc' = [pc EXCEPT ![r] = "mark"]
           /\ UNCHANGED <<idx, cur, wend, pg, resp>>
  <2>1. \A q \in Runs \ {r} : Same(q)
    BY <1>1, <1>3, <1>8 DEF Same, TypeOK
  <2>2. pc'[r] = "mark" /\ mode'[r] # "replay"
    BY <1>1, <1>3, <1>8 DEF Marks, TypeOK
  <2>3. /\ Pair(r)' = Pair(r) /\ BA(r)' = BA(r) /\ Window(r)' = Window(r)
        /\ WrongBA(r)' <=> WrongBA(r)
        /\ Stray(r)' <=> Stray(r)
        /\ OddUnits(r)' <=> OddUnits(r)
    BY <1>8 DEF Pair, BA, Window, WrongBA, Stray, OddUnits
  <2>4. ~WrongBA(r) /\ ~Stray(r) /\ ~OddUnits(r)
    BY DEF Load
  <2>5. \A h \in Hours : resp[r][BA(r)][h] # 0 => raw'[Pair(r)][h] # 0
    <3> SUFFICES ASSUME NEW h \in Hours, resp[r][BA(r)][h] # 0
                 PROVE  raw'[Pair(r)][h] # 0
      OBVIOUS
    <3>1. Pair(r)[1] = Route(r) /\ Pair(r)[2] = BA(r)
      BY DEF Route, BA
    <3>2. raw'[Pair(r)][h] = resp[r][BA(r)][h]
      BY <1>2, <3>1 DEF Load, Upserted
    <3> QED BY <3>2
  <2>6. BackfillStart..(cur'[r] - 1) \subseteq asked'[Pair(r)]
        /\ Window(r) \cap Hours \subseteq asked'[Pair(r)]
    BY <1>3, <1>7, <1>8, <2>2
  <2>7. \A h \in Hours : h \in Window(r) =>
          resp'[r][BA(r)][h] = Bogus \/ resp'[r][BA(r)][h] <= eia'[Pair(r)][h]
    BY <1>1, <1>3, <1>8 DEF RunOK
  <2>8. RunOK(r)'
    BY <1>8, <2>2, <2>3, <2>4, <2>5, <2>6, <2>7 DEF RunOK
  <2>9. \A q \in Runs \ {r} : RunOK(q)'
    BY <1>1, <1>5, <2>1, FrameRun
  <2> QED BY <1>6, <2>8, <2>9, InvSplitNext
<1>9. CASE Onward(r)
  <2>1. (\A q \in Runs \ {r} : Same(q)) /\ RunOK(r)'
    BY <1>1, <1>3, <1>7, <1>9, OnwardSteps
  <2>2. \A q \in Runs \ {r} : RunOK(q)'
    BY <1>1, <1>5, <2>1, FrameRun
  <2> QED BY <1>6, <2>1, <2>2, InvSplitNext
<1> QED BY <1>8, <1>9 DEF Load

\* A watermark moves to a row of a validated response of this pair's window.
LEMMA MarkInv ==
  ASSUME IngestInv, TypeOK', NEW r \in Runs, Mark(r)
  PROVE  IngestInv'
<1>1. TypeOK /\ StoreOK /\ (\A q \in Runs : RunOK(q)) /\ Running(r) /\ pc[r] = "mark"
  BY InvSplit DEF Mark, Running
<1>2. Pair(r) \in Pairs /\ BA(r) \in BAs
  BY <1>1, PairTyped
<1>3. UNCHANGED <<eia, raw, asked, mode>>
  BY DEF Mark, world
<1>4. PICK top \in Hours :
        /\ \E b \in BAs : resp[r][b][top] # 0
        /\ wm' = [wm EXCEPT ![Pair(r)] = IF @ = None THEN top ELSE Larger(@, top)]
  BY DEF Mark
<1>5. resp[r][BA(r)][top] # 0 /\ top \in Window(r)
  BY <1>1, <1>2, <1>4 DEF RunOK, WrongBA, Stray
<1>6. raw[Pair(r)][top] # 0
  BY <1>1, <1>5 DEF RunOK
<1>7. BackfillStart..top \subseteq asked[Pair(r)]
  <2> SUFFICES ASSUME NEW h \in BackfillStart..top PROVE h \in asked[Pair(r)]
    OBVIOUS
  <2>1. cur[r] \in Int /\ wend[r] \in Int /\ h \in Hours
    BY <1>1, ConstantsTyped DEF TypeOK, Ends, Hours
  <2>2. h \in BackfillStart..(cur[r] - 1) \/ h \in Window(r) \cap Hours
    BY <1>5, <2>1, ConstantsTyped DEF Window
  <2> QED BY <1>1, <2>2 DEF RunOK
<1>8. \A p \in Pairs : wm'[p] = wm[p] \/ (p = Pair(r) /\ wm'[p] = top)
  <2>1. wm[Pair(r)] \in Hours \union {None}
    BY <1>1, <1>2 DEF TypeOK
  <2> QED BY <1>1, <1>4, <2>1 DEF TypeOK, Larger
<1>9. StoreOK'
  <2>1. NoUnaskedHour'
    BY <1>1, <1>3, <1>7, <1>8 DEF StoreOK, NoUnaskedHour
  <2>2. WatermarkBacked'
    BY <1>1, <1>3, <1>6, <1>8 DEF StoreOK, WatermarkBacked
  <2> QED BY <1>1, <1>3, <2>1, <2>2 DEF StoreOK, NothingInvented
<1>10. (\A q \in Runs \ {r} : Same(q)) /\ RunOK(r)'
  <2>1. mode[r] # "replay" => /\ BackfillStart..(cur[r] - 1) \subseteq asked'[Pair(r)]
                              /\ Window(r) \cap Hours \subseteq asked'[Pair(r)]
    BY <1>1, <1>3 DEF RunOK
  <2> QED BY <1>1, <1>3, <2>1, OnwardSteps DEF Mark
<1>11. OnlyGrows
  BY <1>1, <1>3, ConstantsTyped DEF OnlyGrows, TypeOK
<1>12. \A q \in Runs \ {r} : RunOK(q)'
  BY <1>1, <1>10, <1>11, FrameRun
<1> QED BY <1>9, <1>10, <1>12, InvSplitNext

LEMMA InvInit == Init => IngestInv
<1> SUFFICES ASSUME Init PROVE IngestInv
  OBVIOUS
<1>1. TypeOK
  BY TypeInit
<1>2. NoUnaskedHour /\ WatermarkBacked
  BY DEF Init, NoUnaskedHour, WatermarkBacked
<1>3. NothingInvented
  <2>1. \A p \in Pairs, h \in Hours : eia[p][h] \in {0, 1} /\ raw[p][h] = 0
    BY DEF Init
  <2> QED BY <2>1 DEF NothingInvented
<1>4. WalkedSoFar /\ MarkIsEarned /\ RespHonest
  BY DEF Init, WalkedSoFar, MarkIsEarned, RespHonest
<1> QED BY <1>1, <1>2, <1>3, <1>4 DEF IngestInv

LEMMA InvStep == IngestInv /\ [Next]_vars => IngestInv'
<1> SUFFICES ASSUME IngestInv, [Next]_vars PROVE IngestInv'
  OBVIOUS
<1>1. TypeOK /\ TypeOK'
  BY TypeStep, InvSplit
<1>2. CASE Tick
  <2>1. OnlyGrows /\ StoreOK /\ \A q \in Runs : RunOK(q) /\ Same(q)
    BY <1>1, <1>2, InvSplit, ConstantsTyped DEF Tick, store, job, OnlyGrows, Same, TypeOK
  <2> QED BY <1>1, <1>2, <2>1, FrameStore, FrameRun, InvSplitNext DEF Tick, store
<1>3. ASSUME NEW p \in Pairs, NEW h \in Hours, Publish(p, h) PROVE IngestInv'
  BY <1>1, <1>3, PublishInv
<1>4. ASSUME NEW r \in Runs, NEW m \in Modes, NEW s \in Hours, Start(r, m, s)
      PROVE  IngestInv'
  <2>1. \A q \in Runs \ {r} : Same(q)
    <3>1. Blank(r)
      BY <1>4 DEF Start
    <3>2. \A q \in Runs \ {r} : pc'[q] = pc[q] /\ mode'[q] = mode[q]
      BY <1>1, <1>4 DEF Start, TypeOK
    <3> QED BY <1>1, <3>1, <3>2, BlankOthers DEF Same
  <2>2. pc'[r] \notin {"fetch", "mark"}
    BY <1>1, <1>4 DEF Start, TypeOK
  <2> QED BY <1>1, <1>4, <2>1, <2>2, RestingRun, PrivateStep DEF Start, world, store
<1>5. ASSUME NEW r \in Runs, SkipPair(r) PROVE IngestInv'
  BY <1>1, <1>5, NextPairSteps, PrivateStep DEF SkipPair, world, store
<1>6. ASSUME NEW r \in Runs, OpenPair(r) PROVE IngestInv'
  BY <1>1, <1>6, OpenPairInv
<1>7. ASSUME NEW r \in Runs, ReadPage(r) PROVE IngestInv'
  <2>1. BA(r) \in BAs /\ Running(r) /\ 0 \in Hours /\ Bogus \in Versions
    BY <1>1, <1>7, PairTyped, ConstantsTyped DEF ReadPage, Running, Hours
  <2> QED BY <1>1, <1>7, <2>1, ReadInv DEF ReadPage, world, store
<1>8. ASSUME NEW r \in Runs, NEW b \in BAs, NEW h \in Hours, NEW v \in {1, Bogus},
             ReadBadPage(r, b, h, v)
      PROVE  IngestInv'
  <2>1. Running(r) /\ v \in Versions
    BY <1>8, ConstantsTyped DEF ReadBadPage, Running, Versions, Bogus
  <2> QED BY <1>1, <1>8, <2>1, ReadInv DEF ReadBadPage, world, store
<1>9. ASSUME NEW r \in Runs, Reject(r) PROVE IngestInv'
  BY <1>1, <1>9, DieSteps, PrivateStep DEF Reject, world, store
<1>10. ASSUME NEW r \in Runs, Load(r) PROVE IngestInv'
  BY <1>1, <1>10, LoadInv
<1>11. ASSUME NEW r \in Runs, Mark(r) PROVE IngestInv'
  BY <1>1, <1>11, MarkInv
<1>12. ASSUME NEW r \in Runs, Finish(r) PROVE IngestInv'
  <2>1. \A q \in Runs \ {r} : Same(q)
    <3>1. Blank(r)
      BY <1>12 DEF Finish
    <3>2. \A q \in Runs \ {r} : pc'[q] = pc[q] /\ mode'[q] = mode[q]
      BY <1>1, <1>12 DEF Finish, TypeOK
    <3> QED BY <1>1, <3>1, <3>2, BlankOthers DEF Same
  <2>2. pc'[r] \notin {"fetch", "mark"}
    BY <1>1, <1>12 DEF Finish, TypeOK
  <2> QED BY <1>1, <1>12, <2>1, <2>2, RestingRun, PrivateStep DEF Finish, world
<1>13. ASSUME NEW r \in Runs, Crash(r) PROVE IngestInv'
  BY <1>1, <1>13, DieSteps, PrivateStep DEF Crash, world, store
<1>14. ASSUME NEW r \in Runs, Refuse(r) PROVE IngestInv'
  BY <1>1, <1>14, DieSteps, PrivateStep DEF Refuse, world, store
<1>15. CASE UNCHANGED vars
  <2>1. OnlyGrows /\ StoreOK /\ \A q \in Runs : RunOK(q) /\ Same(q)
    BY <1>1, <1>15, InvSplit, ConstantsTyped DEF vars, OnlyGrows, Same, TypeOK
  <2> QED BY <1>1, <1>15, <2>1, FrameStore, FrameRun, InvSplitNext DEF vars
<1> QED BY <1>2, <1>3, <1>4, <1>5, <1>6, <1>7, <1>8, <1>9, <1>10, <1>11, <1>12, <1>13, <1>14, <1>15
        DEF Next, Step

LEMMA InvAlways == Spec => []IngestInv
BY InvInit, InvStep, PTL DEF Spec

\* For any number of overlapping runs, crashes and bad responses: a watermark
\* at hour w means that every hour from the start of history to w was asked
\* for, so resuming at w skips nothing (_load_window, run_backfill).
THEOREM WatermarksSkipNothing == Spec => []NoUnaskedHour
BY InvAlways, PTL DEF IngestInv

\* For any calendar, page size and overlap of runs, the hour a watermark names
\* is in the raw table, also after a crash between upsert and set_watermark.
THEOREM WatermarksAreBacked == Spec => []WatermarkBacked
BY InvAlways, PTL DEF IngestInv

\* Whatever rows a response smuggles in, the raw tables hold no version the
\* archive did not publish for that pair and hour (_load_window's checks).
THEOREM NothingIsInvented == Spec => []NothingInvented
BY InvAlways, PTL DEF IngestInv

\* No interleaving of runs moves a watermark back (db.set_watermark).
THEOREM WatermarksOnlyAdvance == Spec => MarksOnlyAdvance
<1>1. TypeOK /\ [Next]_vars => NoMarkFalls
  <2> SUFFICES ASSUME TypeOK, [Next]_vars PROVE NoMarkFalls
    OBVIOUS
  <2>1. wm \in [Pairs -> Hours \union {None}] /\ \A h \in Hours : h \in Int /\ h >= h
    BY ConstantsTyped DEF TypeOK, Hours
  <2>2. ASSUME NEW r \in Runs, Mark(r) PROVE NoMarkFalls
    <3>1. PICK top \in Hours :
            wm' = [wm EXCEPT ![Pair(r)] = IF @ = None THEN top ELSE Larger(@, top)]
      BY <2>2 DEF Mark
    <3>2. Pair(r) \in Pairs
      BY <2>2, PairTyped DEF Mark, Running
    <3> QED BY <2>1, <3>1, <3>2, ConstantsTyped DEF NoMarkFalls, Larger, Hours
  <2>3. CASE wm' = wm
    BY <2>1, <2>3 DEF NoMarkFalls
  <2>4. CASE ~ \E r \in Runs : Mark(r)
    <3>1. wm' = wm
      BY <2>4 DEF Next, Step, vars, Tick, Publish, Start, SkipPair, OpenPair, ReadPage,
                  ReadBadPage, Reject, Refuse, Load, Finish, Crash, world, store
    <3> QED BY <2>3, <3>1
  <2> QED BY <2>2, <2>4
<1> QED BY <1>1, TypeCorrect, PTL DEF Spec, MarksOnlyAdvance

-----------------------------------------------------------------------------
(* What a run that exits 0 has asked for. *)

\* The steps of run r, with the command line of the run that begins.
RunStep(r) ==
  \/ \E m \in Modes, s \in Hours : Start(r, m, s)
  \/ Step(r)
  \/ \E b \in BAs, h \in Hours, v \in {1, Bogus} : ReadBadPage(r, b, h, v)
  \/ Crash(r)

\* Where a run is in its walk stays as it is.
Kept(q) ==
  /\ pc'[q] = pc[q] /\ mode'[q] = mode[q] /\ now'[q] = now[q] /\ since'[q] = since[q]
  /\ idx'[q] = idx[q] /\ cur'[q] = cur[q]

LEMMA DieOthers ==
  ASSUME TypeOK, NEW r \in Runs, Die(r), NEW q \in Runs \ {r}
  PROVE  Kept(q)
BY DEF Die, Blank, Kept, TypeOK

LEMMA OnwardOthers ==
  ASSUME TypeOK, NEW r \in Runs, Onward(r), UNCHANGED <<mode, now, since>>, NEW q \in Runs \ {r}
  PROVE  Kept(q)
<1>1. CASE NextPair(r)
  BY <1>1 DEF NextPair, Kept, TypeOK
<1>2. CASE (\E e \in Ends : OpenWindow(r, wend[r] + 1, e)) /\ idx' = idx
  BY <1>2 DEF OpenWindow, Kept, TypeOK
<1> QED BY <1>1, <1>2 DEF Onward

\* A step of one run is none of another.
LEMMA OthersStay ==
  ASSUME TypeOK, NEW r \in Runs, RunStep(r), NEW q \in Runs \ {r}
  PROVE  Kept(q)
<1>1. CASE \E m \in Modes, s \in Hours : Start(r, m, s)
  BY <1>1 DEF Start, Blank, Kept, TypeOK
<1>2. CASE SkipPair(r)
  BY <1>2 DEF SkipPair, NextPair, Kept, TypeOK
<1>3. CASE OpenPair(r)
  <2>1. PICK e \in Int : OpenWindow(r, FirstHour(r), e)
    <3>1. now[r] \in Int
      BY DEF TypeOK, Hours
    <3> QED BY <1>3, <3>1, ConstantsTyped DEF OpenPair, Ends
  <2> QED BY <1>3, <2>1 DEF OpenPair, OpenWindow, Kept, TypeOK
<1>4. CASE ReadPage(r) \/ \E b \in BAs, h \in Hours, v \in {1, Bogus} : ReadBadPage(r, b, h, v)
  BY <1>4 DEF ReadPage, ReadBadPage, Kept
<1>5. CASE Reject(r) \/ Refuse(r) \/ Crash(r)
  BY <1>5, DieOthers DEF Reject, Refuse, Crash
<1>6. CASE Load(r)
  <2>1. CASE pc' = [pc EXCEPT ![r] = "mark"] /\ UNCHANGED <<idx, cur, wend, pg, resp>>
    BY <1>6, <2>1 DEF Load, Kept, TypeOK
  <2>2. CASE Onward(r)
    BY <1>6, <2>2, OnwardOthers DEF Load
  <2> QED BY <1>6, <2>1, <2>2 DEF Load
<1>7. CASE Mark(r)
  BY <1>7, OnwardOthers DEF Mark
<1>8. CASE Finish(r)
  BY <1>8 DEF Finish, Blank, Kept, TypeOK
<1> QED BY <1>1, <1>2, <1>3, <1>4, <1>5, <1>6, <1>7, <1>8 DEF RunStep, Step

\* Hours that were asked for stay asked for.
LEMMA AskedGrows ==
  ASSUME TypeOK, [Next]_vars, NEW p \in Pairs
  PROVE  asked[p] \subseteq asked'[p]
<1>1. ASSUME NEW r \in Runs, Load(r) PROVE asked[p] \subseteq asked'[p]
  BY <1>1 DEF Load, TypeOK
<1>2. CASE ~ \E r \in Runs : Load(r)
  <2>1. asked' = asked
    BY <1>2 DEF Next, Step, vars, Tick, Publish, Start, SkipPair, OpenPair, ReadPage,
                ReadBadPage, Reject, Refuse, Mark, Finish, Crash, world, store
  <2> QED BY <2>1
<1> QED BY <1>1, <1>2

\* The first hour a run has to ask for.
From(r) == IF mode[r] = "replay" THEN Larger(since[r], BackfillStart) ELSE BackfillStart

\* A run has asked for every hour of the pairs behind it, and of the pair it
\* walks for every hour before its window.
Walked(r) ==
  /\ Running(r) => \A k \in 1..Len(Walk) :
       k < idx[r] \/ pc[r] = "finish" => From(r)..(now[r] - 1) \subseteq asked[Walk[k]]
  /\ pc[r] \in {"fetch", "mark"} => From(r)..(cur[r] - 1) \subseteq asked[Pair(r)]
  /\ pc[r] = "done" => \A p \in Pairs : From(r)..(now[r] - 1) \subseteq asked[p]

LEMMA WalkedFrame ==
  ASSUME TypeOK, NEW q \in Runs, Walked(q), Kept(q), \A p \in Pairs : asked[p] \subseteq asked'[p]
  PROVE  Walked(q)'
<1>1. From(q)' = From(q) /\ Pair(q)' = Pair(q) /\ Running(q)' = Running(q)
  BY DEF Kept, From, Pair, Running
<1>2. \A k \in 1..Len(Walk) : asked[Walk[k]] \subseteq asked'[Walk[k]]
  BY ConstantsTyped
<1>3. pc[q] \in {"fetch", "mark"} => asked[Pair(q)] \subseteq asked'[Pair(q)]
  BY PairTyped DEF Running
<1> QED BY <1>1, <1>2, <1>3 DEF Kept, Walked

\* On to the next pair: nothing of this one is left out.
LEMMA NextPairWalked ==
  ASSUME TypeOK, NEW r \in Runs, Running(r), pc[r] # "finish", Walked(r), NextPair(r),
         UNCHANGED <<mode, now, since>>, \A p \in Pairs : asked[p] \subseteq asked'[p],
         From(r)..(now[r] - 1) \subseteq asked'[Pair(r)]
  PROVE  Walked(r)'
<1>1. /\ From(r)' = From(r) /\ now'[r] = now[r]
      /\ idx[r] \in 1..Len(Walk) /\ Len(Walk) \in Nat
  BY ConstantsTyped DEF From, TypeOK
<1>2. /\ pc'[r] = IF idx[r] < Len(Walk) THEN "open" ELSE "finish"
      /\ idx'[r] = IF idx[r] < Len(Walk) THEN idx[r] + 1 ELSE idx[r]
  BY DEF NextPair, TypeOK
<1>3. ASSUME NEW k \in 1..Len(Walk), k <= idx[r]
      PROVE  From(r)..(now[r] - 1) \subseteq asked'[Walk[k]]
  <2>1. CASE k = idx[r]
    BY <2>1 DEF Pair
  <2>2. CASE k < idx[r]
    <3>1. Walk[k] \in Pairs
      BY ConstantsTyped
    <3> QED BY <2>2, <3>1 DEF Walked
  <2> QED BY <1>1, <1>3, <2>1, <2>2
<1>4. ASSUME NEW k \in 1..Len(Walk), k < idx'[r] \/ pc'[r] = "finish"
      PROVE  From(r)..(now[r] - 1) \subseteq asked'[Walk[k]]
  BY <1>1, <1>2, <1>3, <1>4
<1>5. pc'[r] \notin {"fetch", "mark", "done"}
  BY <1>2
<1> QED BY <1>1, <1>4, <1>5 DEF Walked

\* A window that is loaded counts as asked for, and the next one is right behind
\* it; the last one ends at the run's own start.
LEMMA OnwardWalked ==
  ASSUME TypeOK, NEW r \in Runs, pc[r] \in {"fetch", "mark"}, Walked(r), Onward(r),
         UNCHANGED <<mode, now, since>>, \A p \in Pairs : asked[p] \subseteq asked'[p],
         Window(r) \cap Hours \subseteq asked'[Pair(r)]
  PROVE  Walked(r)'
<1>r. Running(r)
  BY DEF Running
<1>t. /\ cur[r] \in Int /\ wend[r] \in Int /\ now[r] \in 0..MaxHour /\ since[r] \in Nat
      /\ Pair(r) \in Pairs /\ From(r) \in Nat
  <2>1. cur[r] \in Int /\ wend[r] \in Int /\ now[r] \in 0..MaxHour /\ since[r] \in Nat
    BY ConstantsTyped DEF TypeOK, Ends, Hours
  <2> QED BY <1>r, <2>1, PairTyped, ConstantsTyped DEF From, Larger
<1>1. ASSUME NEW h \in From(r)..wend[r], h <= MaxHour PROVE h \in asked'[Pair(r)]
  <2>1. h \in Hours
    BY <1>t, <1>1, ConstantsTyped DEF Hours
  <2>2. h \in From(r)..(cur[r] - 1) \/ h \in Window(r) \cap Hours
    BY <1>t, <2>1 DEF Window
  <2>3. asked[Pair(r)] \subseteq asked'[Pair(r)]
    BY <1>t
  <2> QED BY <2>2, <2>3 DEF Walked
<1>2. CASE NextPair(r) /\ wend[r] >= now[r]
  <2>1. From(r)..(now[r] - 1) \subseteq asked'[Pair(r)]
    BY <1>t, <1>1, <1>2, ConstantsTyped
  <2>2. pc[r] # "finish"
    OBVIOUS
  <2> QED BY <1>r, <1>2, <2>1, <2>2, NextPairWalked
<1>3. CASE (\E e \in Ends : OpenWindow(r, wend[r] + 1, e)) /\ idx' = idx /\ wend[r] < now[r]
  <2>1. pc'[r] = "fetch" /\ cur'[r] = wend[r] + 1
    BY <1>3 DEF OpenWindow, TypeOK
  <2>2. From(r)' = From(r) /\ Pair(r)' = Pair(r)
    BY <1>3 DEF From, Pair
  <2>3. From(r)..(cur'[r] - 1) \subseteq asked'[Pair(r)]
    BY <1>t, <1>1, <1>3, <2>1, ConstantsTyped
  <2>4. ASSUME NEW k \in 1..Len(Walk), k < idx[r]
        PROVE  From(r)..(now[r] - 1) \subseteq asked'[Walk[k]]
    <3>1. Walk[k] \in Pairs
      BY ConstantsTyped
    <3> QED BY <1>r, <2>4, <3>1 DEF Walked
  <2> QED BY <1>3, <2>1, <2>2, <2>3, <2>4 DEF Walked
<1> QED BY <1>2, <1>3 DEF Onward

\* A pair that is skipped, or entered behind its watermark, was asked for before.
LEMMA EnteredWalked ==
  ASSUME TypeOK, NoUnaskedHour, NEW r \in Runs, Running(r),
         NEW n \in Int, n <= FirstHour(r)
  PROVE  From(r)..(n - 1) \subseteq asked[Pair(r)]
<1>1. Pair(r) \in Pairs /\ wm[Pair(r)] \in Hours \union {None} /\ since[r] \in Nat
  <2>1. Pair(r) \in Pairs
    BY PairTyped
  <2>2. wm \in [Pairs -> Hours \union {None}] /\ since[r] \in Hours
    BY DEF TypeOK
  <2> QED BY <2>1, <2>2, ConstantsTyped DEF Hours
<1>2. wm[Pair(r)] # None => BackfillStart..wm[Pair(r)] \subseteq asked[Pair(r)]
  BY <1>1 DEF NoUnaskedHour
<1> SUFFICES ASSUME NEW h \in From(r)..(n - 1) PROVE h \in asked[Pair(r)]
  OBVIOUS
<1>3. CASE mode[r] = "replay"
  BY <1>1, <1>3, ConstantsTyped DEF From, FirstHour, Larger
<1>4. CASE mode[r] # "replay"
  <2>1. h \in Int /\ BackfillStart <= h /\ h < FirstHour(r)
    BY <1>1, <1>4, FirstHourTyped, ConstantsTyped DEF From
  <2>2. wm[Pair(r)] # None /\ h <= wm[Pair(r)]
    BY <1>1, <1>4, <2>1, ConstantsTyped DEF FirstHour, Hours
  <2>3. h \in BackfillStart..wm[Pair(r)]
    BY <1>1, <2>1, <2>2, ConstantsTyped DEF Hours
  <2> QED BY <1>2, <2>2, <2>3
<1> QED BY <1>3, <1>4

LEMMA WalkedOwn ==
  ASSUME IngestInv, NEW r \in Runs, Walked(r), RunStep(r),
         \A p \in Pairs : asked[p] \subseteq asked'[p]
  PROVE  Walked(r)'
<1>t. TypeOK /\ NoUnaskedHour
  BY DEF IngestInv
<1>1. CASE \E m \in Modes, s \in Hours : Start(r, m, s)
  <2>1. pc'[r] = "open" /\ idx'[r] = 1
    BY <1>1, <1>t DEF Start, Blank, TypeOK
  <2>2. \A k \in 1..Len(Walk) : ~(k < 1)
    BY ConstantsTyped
  <2> QED BY <2>1, <2>2 DEF Walked
<1>2. CASE SkipPair(r)
  <2>1. Running(r) /\ pc[r] # "finish" /\ now[r] \in Int /\ FirstHour(r) \in Int
    BY <1>2, <1>t, FirstHourTyped DEF SkipPair, Running, TypeOK, Hours
  <2>2. From(r)..(now[r] - 1) \subseteq asked[Pair(r)]
    BY <1>2, <1>t, <2>1, EnteredWalked DEF SkipPair, Current
  <2>3. From(r)..(now[r] - 1) \subseteq asked'[Pair(r)]
    BY <1>t, <2>1, <2>2, PairTyped
  <2> QED BY <1>2, <1>t, <2>1, <2>3, NextPairWalked DEF SkipPair
<1>3. CASE OpenPair(r)
  <2>1. Running(r) /\ pc[r] = "open" /\ FirstHour(r) \in Int
    BY <1>3, <1>t, FirstHourTyped DEF OpenPair, Running
  <2>2. PICK e \in Int : OpenWindow(r, FirstHour(r), e)
    <3>1. now[r] \in Int
      BY <1>t DEF TypeOK, Hours
    <3> QED BY <1>3, <3>1, ConstantsTyped DEF OpenPair, Ends
  <2>3. UNCHANGED <<mode, now, since, idx, asked>>
    BY <1>3 DEF OpenPair, store
  <2>4. pc'[r] = "fetch" /\ cur'[r] = FirstHour(r)
    BY <1>t, <2>2 DEF OpenWindow, TypeOK
  <2>5. From(r)..(FirstHour(r) - 1) \subseteq asked[Pair(r)]
    BY <1>t, <2>1, EnteredWalked
  <2>6. From(r)' = From(r) /\ Pair(r)' = Pair(r)
    BY <2>3 DEF From, Pair
  <2> QED BY <2>1, <2>3, <2>4, <2>5, <2>6 DEF Walked
<1>4. CASE ReadPage(r) \/ \E b \in BAs, h \in Hours, v \in {1, Bogus} : ReadBadPage(r, b, h, v)
  <2>1. Kept(r)
    BY <1>4 DEF ReadPage, ReadBadPage, Kept
  <2> QED BY <1>t, <2>1, WalkedFrame
<1>5. CASE Reject(r) \/ Refuse(r) \/ Crash(r)
  <2>1. pc'[r] = "failed"
    BY <1>5, <1>t DEF Reject, Refuse, Crash, Die, TypeOK
  <2> QED BY <2>1 DEF Walked, Running
<1>6. CASE Load(r)
  <2>1. pc[r] = "fetch" /\ Running(r) /\ Pair(r) \in Pairs /\ UNCHANGED <<mode, now, since>>
    BY <1>6, <1>t, PairTyped DEF Load, Fetched, Running
  <2>2. Window(r) \cap Hours \subseteq asked'[Pair(r)]
    BY <1>6, <1>t, <2>1 DEF Load, TypeOK
  <2>3. CASE pc' = [pc EXCEPT ![r] = "mark"] /\ UNCHANGED <<idx, cur, wend, pg, resp>>
    <3>1. pc'[r] = "mark" /\ From(r)' = From(r) /\ Pair(r)' = Pair(r)
      BY <1>t, <2>1, <2>3 DEF From, Pair, TypeOK
    <3>2. \A k \in 1..Len(Walk) : asked[Walk[k]] \subseteq asked'[Walk[k]]
      BY ConstantsTyped
    <3>3. asked[Pair(r)] \subseteq asked'[Pair(r)]
      BY <2>1
    <3> QED BY <2>1, <2>3, <3>1, <3>2, <3>3 DEF Walked
  <2>4. CASE Onward(r)
    BY <1>t, <2>1, <2>2, <2>4, OnwardWalked
  <2> QED BY <1>6, <2>3, <2>4 DEF Load
<1>7. CASE Mark(r)
  <2>1. pc[r] = "mark" /\ Running(r) /\ UNCHANGED <<mode, now, since, asked>> /\ Onward(r)
    BY <1>7 DEF Mark, Running
  <2>2. Window(r) \cap Hours \subseteq asked'[Pair(r)]
    BY <2>1 DEF IngestInv, MarkIsEarned
  <2> QED BY <1>t, <2>1, <2>2, OnwardWalked
<1>8. CASE Finish(r)
  <2>1. pc'[r] = "done" /\ From(r)' = From(r) /\ now'[r] = now[r] /\ asked' = asked
    BY <1>8, <1>t DEF Finish, From, TypeOK
  <2>2. pc[r] = "finish" /\ Running(r)
    BY <1>8 DEF Finish, Running
  <2>3. \A p \in Pairs : \E k \in 1..Len(Walk) : p = Walk[k]
    BY IngestAssumption DEF IngestAssumption
  <2> QED BY <2>1, <2>2, <2>3 DEF Walked, Running
<1> QED BY <1>1, <1>2, <1>3, <1>4, <1>5, <1>6, <1>7, <1>8 DEF RunStep, Step

LEMMA WalkedStep ==
  IngestInv /\ (\A r \in Runs : Walked(r)) /\ [Next]_vars => \A r \in Runs : Walked(r)'
<1> SUFFICES ASSUME IngestInv, \A r \in Runs : Walked(r), [Next]_vars, NEW q \in Runs
             PROVE  Walked(q)'
  OBVIOUS
<1>1. TypeOK /\ \A p \in Pairs : asked[p] \subseteq asked'[p]
  BY AskedGrows DEF IngestInv
<1>2. ASSUME NEW r \in Runs, RunStep(r) PROVE Walked(q)'
  <2>1. CASE q = r
    BY <1>1, <1>2, <2>1, WalkedOwn
  <2>2. CASE q # r
    <3>1. Kept(q)
      BY <1>1, <1>2, <2>2, OthersStay
    <3> QED BY <1>1, <3>1, WalkedFrame
  <2> QED BY <2>1, <2>2
<1>3. CASE Tick \/ (\E p \in Pairs, h \in Hours : Publish(p, h)) \/ UNCHANGED vars
  <2>1. Kept(q)
    BY <1>3 DEF Tick, Publish, job, vars, Kept
  <2> QED BY <1>1, <2>1, WalkedFrame
<1> QED BY <1>2, <1>3 DEF Next, RunStep

\* A run that exits 0 has asked, for every pair, for every hour up to its own
\* start, whichever runs overlap with it (run_backfill, run_incremental).
THEOREM ExitZeroMeansComplete == Spec => []ExitZeroIsComplete
<1>1. Init => \A r \in Runs : Walked(r)
  BY DEF Init, Walked, Running
<1>2. (\A r \in Runs : Walked(r)) => ExitZeroIsComplete
  BY DEF Walked, ExitZeroIsComplete, From
<1>3. (\A r \in Runs : Walked(r))' <=> \A r \in Runs : Walked(r)'
  OBVIOUS
<1> QED BY <1>1, <1>2, <1>3, WalkedStep, InvAlways, PTL DEF Spec

-----------------------------------------------------------------------------
(* One run at a time.                                                        *)

OneRun == \A q, r \in Runs : q = r

\* What a run has read is not older than what the warehouse holds.
Fresh(r) ==
  pc[r] = "fetch" => \A h \in Window(r) \cap Hours :
    resp[r][BA(r)][h] \in {0, Bogus} \/ raw[Pair(r)][h] <= resp[r][BA(r)][h]

\* A window that has just been opened has read nothing.
LEMMA OpenedFresh ==
  ASSUME TypeOK, NEW r \in Runs, Running(r), idx' = idx,
         NEW s \in Int, NEW e \in Int, OpenWindow(r, s, e)
  PROVE  Fresh(r)'
<1>1. resp'[r] = NoRows /\ BA(r)' = BA(r) /\ BA(r) \in BAs
  BY PairTyped DEF OpenWindow, TypeOK, BA, Pair
<1>2. \A h \in Hours : resp'[r][BA(r)][h] = 0
  BY <1>1 DEF NoRows
<1> QED BY <1>1, <1>2 DEF Fresh

LEMMA OnwardFresh ==
  ASSUME TypeOK, NEW r \in Runs, Running(r), Onward(r)
  PROVE  Fresh(r)'
<1>1. CASE NextPair(r)
  BY <1>1 DEF NextPair, TypeOK, Fresh
<1>2. CASE (\E e \in Ends : OpenWindow(r, wend[r] + 1, e)) /\ idx' = idx
  <2>1. wend[r] + 1 \in Int /\ \A e \in Ends : e \in Int
    BY ConstantsTyped DEF TypeOK, Ends
  <2> QED BY <1>2, <2>1, OpenedFresh
<1> QED BY <1>1, <1>2 DEF Onward

\* A page gives an hour that was asked for what the archive holds of it; the row
\* nobody asked for is elsewhere, or in the wrong unit.
LEMMA PageRow ==
  ASSUME TypeOK, NEW r \in Runs,
         ReadPage(r) \/ \E b \in BAs, h \in Hours, v \in {1, Bogus} : ReadBadPage(r, b, h, v),
         NEW h \in Window(r) \cap Hours
  PROVE  resp'[r][BA(r)][h] \in {WithPage(r)[BA(r)][h], Bogus}
<1>1. resp \in [Runs -> [BAs -> [Hours -> Versions]]]
  BY DEF TypeOK
<1>2. CASE ReadPage(r)
  BY <1>1, <1>2 DEF ReadPage
<1>3. ASSUME NEW b \in BAs, NEW k \in Hours, NEW v \in {1, Bogus}, ReadBadPage(r, b, k, v)
      PROVE  resp'[r][BA(r)][h] \in {WithPage(r)[BA(r)][h], Bogus}
  <2>1. resp' = [resp EXCEPT ![r] = [WithPage(r) EXCEPT ![b][k] = v]] /\ Running(r)
    BY <1>3 DEF ReadBadPage, Running
  <2>2. BA(r) \in BAs /\ WithPage(r) \in [BAs -> [Hours -> Versions]]
    BY <2>1, PairTyped, WithPageTyped
  <2>3. resp'[r][BA(r)][h] = IF b = BA(r) /\ k = h THEN v ELSE WithPage(r)[BA(r)][h]
    BY <1>1, <2>1, <2>2
  <2>4. b = BA(r) /\ k = h => v = Bogus
    BY <1>3 DEF ReadBadPage
  <2> QED BY <2>3, <2>4
<1> QED BY <1>2, <1>3

\* A page brings what the archive holds, which is never behind the warehouse.
LEMMA ReadFresh ==
  ASSUME IngestInv, NEW r \in Runs, Fresh(r),
         ReadPage(r) \/ \E b \in BAs, h \in Hours, v \in {1, Bogus} : ReadBadPage(r, b, h, v)
  PROVE  Fresh(r)'
<1>1. TypeOK /\ NothingInvented /\ Running(r) /\ pc[r] = "fetch"
  BY DEF IngestInv, ReadPage, ReadBadPage, Running
<1>2. Pair(r) \in Pairs /\ BA(r) \in BAs /\ WithPage(r) \in [BAs -> [Hours -> Versions]]
  BY <1>1, PairTyped, WithPageTyped
<1>3. /\ Pair(r)' = Pair(r) /\ BA(r)' = BA(r) /\ Window(r)' = Window(r)
      /\ raw' = raw
  BY DEF ReadPage, ReadBadPage, Pair, BA, Window, store
<1>4. ASSUME NEW h \in Window(r) \cap Hours
      PROVE  WithPage(r)[BA(r)][h] \in {0, Bogus} \/ raw[Pair(r)][h] <= WithPage(r)[BA(r)][h]
  <2>1. WithPage(r)[BA(r)][h] \in {eia[Pair(r)][h], resp[r][BA(r)][h]}
    BY <1>1, <1>2 DEF WithPage, TypeOK
  <2>2. raw[Pair(r)][h] <= eia[Pair(r)][h]
    BY <1>1, <1>2 DEF NothingInvented
  <2> QED BY <1>1, <2>1, <2>2 DEF Fresh
<1>5. \A h \in Window(r) \cap Hours : resp'[r][BA(r)][h] \in {WithPage(r)[BA(r)][h], Bogus}
  BY <1>1, PageRow
<1> QED BY <1>3, <1>4, <1>5 DEF Fresh

LEMMA FreshOwn ==
  ASSUME IngestInv, NEW r \in Runs, Fresh(r), RunStep(r)
  PROVE  Fresh(r)'
<1>t. TypeOK
  BY DEF IngestInv
<1>1. CASE (\E m \in Modes, s \in Hours : Start(r, m, s)) \/ SkipPair(r) \/ Finish(r)
           \/ Reject(r) \/ Refuse(r) \/ Crash(r)
  <2>1. pc'[r] # "fetch"
    BY <1>1, <1>t DEF Start, SkipPair, NextPair, Finish, Reject, Refuse, Crash, Die, TypeOK
  <2> QED BY <2>1 DEF Fresh
<1>2. CASE OpenPair(r)
  <2>1. Running(r) /\ FirstHour(r) \in Int /\ idx' = idx
    BY <1>2, <1>t, FirstHourTyped DEF OpenPair, Running
  <2>2. PICK e \in Int : OpenWindow(r, FirstHour(r), e)
    <3>1. now[r] \in Int
      BY <1>t DEF TypeOK, Hours
    <3> QED BY <1>2, <3>1, ConstantsTyped DEF OpenPair, Ends
  <2> QED BY <1>t, <2>1, <2>2, OpenedFresh
<1>3. CASE ReadPage(r) \/ \E b \in BAs, h \in Hours, v \in {1, Bogus} : ReadBadPage(r, b, h, v)
  BY <1>3, ReadFresh
<1>4. CASE Load(r)
  <2>1. CASE pc' = [pc EXCEPT ![r] = "mark"]
    BY <1>t, <2>1 DEF TypeOK, Fresh
  <2>2. CASE Onward(r)
    BY <1>t, <1>4, <2>2, OnwardFresh DEF Load, Fetched, Running
  <2> QED BY <1>4, <2>1, <2>2 DEF Load
<1>5. CASE Mark(r)
  BY <1>t, <1>5, OnwardFresh DEF Mark, Running
<1> QED BY <1>1, <1>2, <1>3, <1>4, <1>5 DEF RunStep, Step

LEMMA FreshStep ==
  ASSUME OneRun
  PROVE  IngestInv /\ (\A r \in Runs : Fresh(r)) /\ [Next]_vars => \A r \in Runs : Fresh(r)'
<1> SUFFICES ASSUME IngestInv, \A r \in Runs : Fresh(r), [Next]_vars, NEW q \in Runs
             PROVE  Fresh(q)'
  OBVIOUS
<1>1. ASSUME NEW r \in Runs, RunStep(r) PROVE Fresh(q)'
  <2>1. q = r
    BY DEF OneRun
  <2> QED BY <1>1, <2>1, FreshOwn
<1>2. CASE Tick \/ (\E p \in Pairs, h \in Hours : Publish(p, h)) \/ UNCHANGED vars
  <2>1. UNCHANGED <<raw, pc, idx, cur, wend, resp>>
    BY <1>2 DEF Tick, Publish, job, store, vars
  <2> QED BY <2>1 DEF Fresh, Window, BA, Pair
<1> QED BY <1>1, <1>2 DEF Next, RunStep

\* The hours of one pair catch up with the archive.
LEMMA LoadCatchesUp ==
  ASSUME IngestInv, TypeOK', NEW r \in Runs, Fresh(r), Load(r)
  PROVE  Copy!CatchUp(Pair(r))
<1>1. TypeOK /\ NothingInvented /\ Running(r) /\ pc[r] = "fetch" /\ UNCHANGED <<eia, wm>>
  BY DEF IngestInv, Load, Fetched, Running, world
<1>2. Pair(r) \in Pairs
  BY <1>1, PairTyped
<1>3. raw \in [Pairs -> [Hours -> 0..MaxVersion]] /\ raw' \in [Pairs -> [Hours -> 0..MaxVersion]]
  BY <1>1 DEF TypeOK
<1>4. ASSUME NEW p \in Pairs, p # Pair(r) PROVE raw'[p] = raw[p]
  <2>1. \A h \in Hours : raw'[p][h] = raw[p][h]
    BY <1>4, LoadedRows
  <2>2. raw[p] \in [Hours -> 0..MaxVersion] /\ raw'[p] \in [Hours -> 0..MaxVersion]
    BY <1>3
  <2> QED BY <2>1, <2>2
<1>5. raw' = [raw EXCEPT ![Pair(r)] = raw'[Pair(r)]]
  BY <1>2, <1>3, <1>4
<1>6. ASSUME NEW h \in Hours
      PROVE  raw[Pair(r)][h] <= raw'[Pair(r)][h] /\ raw'[Pair(r)][h] <= eia[Pair(r)][h]
  <2>1. raw[Pair(r)][h] \in Int /\ raw[Pair(r)][h] <= eia[Pair(r)][h]
    BY <1>1, <1>2, <1>3, ConstantsTyped DEF NothingInvented, Versions, Bogus
  <2>2. CASE raw'[Pair(r)][h] = raw[Pair(r)][h]
    BY <2>1, <2>2
  <2>3. CASE /\ h \in Window(r) /\ raw'[Pair(r)][h] = resp[r][BA(r)][h]
             /\ raw'[Pair(r)][h] # 0 /\ raw'[Pair(r)][h] # Bogus
             /\ raw'[Pair(r)][h] <= eia[Pair(r)][h]
    BY <1>1, <2>3 DEF Fresh
  <2> QED BY <1>2, <2>2, <2>3, LoadedRows
<1> QED BY <1>1, <1>5, <1>6 DEF Copy!CatchUp

\* The mark moves forward, to an hour the warehouse holds, or stays.
LEMMA MarkAdvances ==
  ASSUME IngestInv, NEW r \in Runs, Mark(r)
  PROVE  \E h \in Hours : Copy!Advance(Pair(r), h)
<1>1. /\ TypeOK /\ WatermarkBacked /\ MarkIsEarned /\ Running(r) /\ pc[r] = "mark"
      /\ UNCHANGED <<eia, raw>>
  BY DEF IngestInv, Mark, Running, world
<1>2. Pair(r) \in Pairs /\ BA(r) \in BAs /\ wm[Pair(r)] \in Hours \union {None}
  BY <1>1, PairTyped DEF TypeOK
<1>3. PICK top \in Hours :
        /\ \E b \in BAs : resp[r][b][top] # 0
        /\ wm' = [wm EXCEPT ![Pair(r)] = IF @ = None THEN top ELSE Larger(@, top)]
  BY DEF Mark
<1>4. raw[Pair(r)][top] # 0
  BY <1>1, <1>3 DEF MarkIsEarned, WrongBA
<1>5. wm[Pair(r)] # None => raw[Pair(r)][wm[Pair(r)]] # 0
  BY <1>1, <1>2 DEF WatermarkBacked
<1>6. ASSUME wm[Pair(r)] # None PROVE wm[Pair(r)] \in Hours /\ wm[Pair(r)] \in Int /\ top \in Int
  BY <1>2, <1>6, ConstantsTyped DEF Hours
<1>7. CASE wm[Pair(r)] = None \/ top >= wm[Pair(r)]
  <2>1. wm' = [wm EXCEPT ![Pair(r)] = top]
    <3>1. wm[Pair(r)] # None => Larger(wm[Pair(r)], top) = top
      BY <1>6, <1>7 DEF Larger
    <3> QED BY <1>3, <3>1
  <2>2. Copy!Advance(Pair(r), top)
    BY <1>1, <1>4, <1>7, <2>1 DEF Copy!Advance
  <2> QED BY <2>2
<1>8. CASE wm[Pair(r)] # None /\ ~(top >= wm[Pair(r)])
  <2>1. wm' = [wm EXCEPT ![Pair(r)] = wm[Pair(r)]]
    <3>1. Larger(wm[Pair(r)], top) = wm[Pair(r)]
      BY <1>6, <1>8 DEF Larger
    <3> QED BY <1>3, <1>8, <3>1
  <2>2. wm[Pair(r)] >= wm[Pair(r)]
    BY <1>6, <1>8
  <2>3. Copy!Advance(Pair(r), wm[Pair(r)])
    BY <1>1, <1>5, <1>8, <2>1, <2>2 DEF Copy!Advance
  <2> QED BY <1>6, <1>8, <2>3
<1> QED BY <1>7, <1>8

\* Ingestion by one run at a time implements the replica: the archive changes one
\* hour, one pair catches up, its mark advances, or nothing the replica knows of
\* happens, for any walk, calendar, page size, mode, crash and bad response.
THEOREM OneRunIsAReplica == ASSUME OneRun PROVE Spec => IsReplica
<1>1. Init => Copy!Init
  BY DEF Init, Copy!Init
<1>2. Init => \A r \in Runs : Fresh(r)
  BY DEF Init, Fresh
<1>3. IngestInv /\ (\A r \in Runs : Fresh(r)) /\ [Next]_vars => [Copy!Next]_(Copy!vars)
  <2> SUFFICES ASSUME IngestInv, \A r \in Runs : Fresh(r), [Next]_vars
               PROVE  [Copy!Next]_(Copy!vars)
    OBVIOUS
  <2>1. TypeOK /\ TypeOK'
    BY TypeStep DEF IngestInv
  <2>2. ASSUME NEW p \in Pairs, NEW h \in Hours, Publish(p, h) PROVE Copy!Change(p, h)
    BY <2>2 DEF Publish, store, Copy!Change
  <2>3. ASSUME NEW r \in Runs, Load(r) PROVE Pair(r) \in Pairs /\ Copy!CatchUp(Pair(r))
    BY <2>1, <2>3, LoadCatchesUp, PairTyped DEF Load, Fetched, Running
  <2>4. ASSUME NEW r \in Runs, Mark(r)
        PROVE  Pair(r) \in Pairs /\ \E h \in Hours : Copy!Advance(Pair(r), h)
    BY <2>1, <2>4, MarkAdvances, PairTyped DEF Mark, Running
  <2>5. CASE /\ ~ \E p \in Pairs, h \in Hours : Publish(p, h)
             /\ ~ \E r \in Runs : Load(r) \/ Mark(r)
    <3>1. UNCHANGED <<eia, raw, wm>>
      BY <2>5 DEF Next, Step, vars, Tick, Start, SkipPair, OpenPair, ReadPage, ReadBadPage,
                  Reject, Refuse, Finish, Crash, world, store
    <3> QED BY <3>1 DEF Copy!vars
  <2> QED BY <2>2, <2>3, <2>4, <2>5 DEF Copy!Next
<1>4. (\A r \in Runs : Fresh(r))' <=> \A r \in Runs : Fresh(r)'
  OBVIOUS
<1> QED BY <1>1, <1>2, <1>3, <1>4, FreshStep, InvAlways, PTL DEF Spec, IsReplica, Copy!Spec

-----------------------------------------------------------------------------
(* What is stale is in reach of the lookback.  An hour that lies further     *)
(* behind the clock than the archive may still change it never changes, so   *)
(* what a run reads of it is final.                                          *)

\* One run at a time, no backfill, and a lookback as long as the archive takes.
InReach == OneRun /\ "backfill" \notin Modes /\ Settle <= Lookback /\ ~Backlog

Exact(p, h) == raw[p][h] = eia[p][h]

Marked ==
  \A p \in Pairs : wm[p] # None =>
    /\ wm[p] <= clock
    /\ \A h \in Hours : h >= BackfillStart /\ h + Lookback < wm[p] => Exact(p, h)

\* Part 1: no watermark is ahead of the run, whose window ends where it began.
Ahead(r) ==
  /\ Running(r) => /\ now[r] <= clock /\ mode[r] # "backfill"
                   /\ \A p \in Pairs : wm[p] # None => wm[p] <= now[r]
  /\ pc[r] \in {"fetch", "mark"} => wend[r] <= now[r]

\* Part 2: what the run has behind it is exact where it is final.
Behind(r) ==
  /\ pc[r] \in {"fetch", "mark"} /\ mode[r] # "replay" => \A h \in Hours :
       h >= BackfillStart /\ h < cur[r] /\ h + Lookback < now[r] => Exact(Pair(r), h)
  /\ pc[r] = "fetch" => \A h \in Window(r) \cap Hours :
       h < pg[r] /\ h + Lookback < now[r] => resp[r][BA(r)][h] \in {eia[Pair(r)][h], Bogus}
  /\ pc[r] = "mark" => \A h \in Window(r) \cap Hours :
       h + Lookback < now[r] => Exact(Pair(r), h)

LEMMA ReachTyped ==
  ASSUME TypeOK, NEW r \in Runs
  PROVE  /\ clock \in Nat /\ now[r] \in Nat /\ cur[r] \in Int /\ wend[r] \in Int /\ pg[r] \in Int
         /\ \A p \in Pairs : wm[p] = None \/ wm[p] \in Nat
         /\ Lookback \in Nat /\ BackfillStart \in Nat /\ Settle \in Nat /\ PageHours \in Nat
         /\ \A h \in Hours : h \in Nat
<1>1. /\ Lookback \in Nat /\ BackfillStart \in Nat /\ PageHours \in Nat /\ Settle \in Nat
      /\ \A h \in Hours : h \in Nat
      /\ \A e \in Ends : e \in Int
  BY ConstantsTyped, IngestAssumption DEF Hours, Ends, IngestAssumption
<1>2. /\ clock \in Hours /\ now[r] \in Hours /\ cur[r] \in Int /\ wend[r] \in Ends /\ pg[r] \in Int
      /\ \A p \in Pairs : wm[p] \in Hours \union {None}
  BY DEF TypeOK
<1> QED BY <1>1, <1>2

\* A run that has just opened a window has read nothing of it.
LEMMA OpenedReach ==
  ASSUME TypeOK, NEW r \in Runs, Running(r), idx' = idx, UNCHANGED <<mode, now>>,
         NEW s \in Int, NEW e \in Int, OpenWindow(r, s, e), e <= now[r],
         now[r] <= clock', mode[r] # "backfill",
         \A p \in Pairs : wm'[p] # None => wm'[p] <= now[r],
         mode[r] # "replay" => \A h \in Hours :
           h >= BackfillStart /\ h < s /\ h + Lookback < now[r] => raw'[Pair(r)][h] = eia'[Pair(r)][h]
  PROVE  Ahead(r)' /\ Behind(r)'
<1>1. pc'[r] = "fetch" /\ cur'[r] = s /\ wend'[r] = e /\ pg'[r] = s
  BY DEF OpenWindow, TypeOK
<1>2. Pair(r)' = Pair(r) /\ mode'[r] = mode[r] /\ now'[r] = now[r]
  BY DEF Pair
<1>3. Ahead(r)'
  BY <1>1, <1>2 DEF Ahead
<1>4. \A h \in Window(r)' \cap Hours : ~(h < pg'[r])
  BY <1>1, ReachTyped DEF Window
<1> QED BY <1>1, <1>2, <1>3, <1>4 DEF Behind, Exact

LEMMA OnwardReach ==
  ASSUME TypeOK, NEW r \in Runs, Running(r), Onward(r), UNCHANGED <<mode, now>>,
         now[r] <= clock', mode[r] # "backfill",
         \A p \in Pairs : wm'[p] # None => wm'[p] <= now[r],
         mode[r] # "replay" => \A h \in Hours :
           h >= BackfillStart /\ h <= wend[r] /\ h + Lookback < now[r] => raw'[Pair(r)][h] = eia'[Pair(r)][h]
  PROVE  Ahead(r)' /\ Behind(r)'
<1>1. CASE NextPair(r)
  <2>1. pc'[r] \notin {"fetch", "mark"}
    BY <1>1 DEF NextPair, TypeOK
  <2> QED BY <2>1 DEF Ahead, Behind
<1>2. CASE idx' = idx /\ \E e \in Ends : WindowEnd(wend[r] + 1, e, now[r]) /\ OpenWindow(r, wend[r] + 1, e)
  <2>1. PICK e \in Ends : WindowEnd(wend[r] + 1, e, now[r]) /\ OpenWindow(r, wend[r] + 1, e)
    BY <1>2
  <2>2. e \in Int /\ wend[r] + 1 \in Int /\ e <= now[r]
    BY <2>1, ReachTyped, ConstantsTyped DEF Ends, WindowEnd
  <2>3. \A h \in Hours : h < wend[r] + 1 => h <= wend[r]
    BY ReachTyped
  <2> QED BY <1>2, <2>1, <2>2, <2>3, OpenedReach
<1> QED BY <1>1, <1>2 DEF Onward

\* What a run loads of the hours that no longer change is what the archive holds.
LEMMA LoadIsExact ==
  ASSUME IngestInv, NEW r \in Runs, Ahead(r), Behind(r), Load(r), NEW h \in Hours, h + Lookback < now[r]
  PROVE  /\ h \in Window(r) => raw'[Pair(r)][h] = eia[Pair(r)][h]
         /\ h \notin Window(r) => raw'[Pair(r)][h] = raw[Pair(r)][h]
         /\ \A p \in Pairs : p # Pair(r) => raw'[p][h] = raw[p][h]
<1>1. TypeOK /\ NothingInvented /\ Running(r) /\ pc[r] = "fetch"
  BY DEF IngestInv, Load, Fetched, Running
<1>2. Pair(r) \in Pairs /\ BA(r) \in BAs /\ Pair(r)[1] = Route(r) /\ Pair(r)[2] = BA(r)
  BY <1>1, PairTyped DEF Route, BA
<1>3. ASSUME h \in Window(r) PROVE raw'[Pair(r)][h] = eia[Pair(r)][h]
  <2>1. h < pg[r]
    BY <1>1, <1>3, ReachTyped DEF Load, Fetched, Window
  <2>2. resp[r][BA(r)][h] \in {eia[Pair(r)][h], Bogus}
    BY <1>1, <1>3, <2>1 DEF Behind
  <2>3. resp[r][BA(r)][h] # Bogus
    BY <1>2 DEF Load, OddUnits
  <2>4. raw'[Pair(r)][h] = IF resp[r][BA(r)][h] # 0 THEN resp[r][BA(r)][h] ELSE raw[Pair(r)][h]
    BY <1>2 DEF Load, Upserted
  <2>5. eia[Pair(r)][h] = 0 => raw[Pair(r)][h] = 0
    <3>1. raw[Pair(r)][h] \in 0..MaxVersion
      BY <1>1, <1>2 DEF TypeOK
    <3>2. raw[Pair(r)][h] <= eia[Pair(r)][h]
      BY <1>1, <1>2 DEF NothingInvented
    <3> QED BY <3>1, <3>2, ConstantsTyped DEF Versions, Bogus
  <2> QED BY <2>2, <2>3, <2>4, <2>5
<1> QED BY <1>2, <1>3, LoadedRows

\* The archive changes no hour that a run or a watermark relies on.
LEMMA PublishIsLate ==
  ASSUME InReach, TypeOK, NEW p \in Pairs, NEW h \in Hours, Publish(p, h)
  PROVE  /\ \A n \in Nat : h + Lookback < n => ~(n <= clock)
         /\ \A q \in Pairs, g \in Hours : q # p \/ g # h => eia'[q][g] = eia[q][g]
<1>1. h + Settle >= clock
  BY DEF Publish, Recent, InReach
<1>2. \A n \in Nat : h + Lookback < n => ~(n <= clock)
  BY <1>1, ConstantsTyped, IngestAssumption DEF InReach, TypeOK, Hours, IngestAssumption
<1> QED BY <1>2 DEF Publish, TypeOK

LEMMA PublishReach ==
  ASSUME InReach, TypeOK, Marked, NEW p \in Pairs, NEW k \in Hours, Publish(p, k)
  PROVE  Marked' /\ \A r \in Runs : Ahead(r) /\ Behind(r) => Ahead(r)' /\ Behind(r)'
<1>1. UNCHANGED <<clock, raw, wm, pc, mode, now, idx, cur, wend, pg, resp>>
  BY DEF Publish, store, job
<1>2. ASSUME NEW q \in Pairs, NEW h \in Hours, NEW n \in Nat, h + Lookback < n, n <= clock
      PROVE  eia'[q][h] = eia[q][h]
  BY <1>2, PublishIsLate
<1>3. Marked'
  <2> SUFFICES ASSUME NEW q \in Pairs, wm[q] # None
               PROVE  /\ wm[q] <= clock
                      /\ \A h \in Hours : h >= BackfillStart /\ h + Lookback < wm[q] => raw[q][h] = eia'[q][h]
    BY <1>1 DEF Marked, Exact
  <2>1. wm[q] \in Nat
    BY ConstantsTyped DEF TypeOK, Hours
  <2> QED BY <1>2, <2>1 DEF Marked, Exact
<1>4. ASSUME NEW r \in Runs, Ahead(r), Behind(r) PROVE Ahead(r)' /\ Behind(r)'
  <2>1. Ahead(r)'
    BY <1>1, <1>4 DEF Ahead, Running
  <2>2. Pair(r)' = Pair(r) /\ BA(r)' = BA(r) /\ Window(r)' = Window(r)
    BY <1>1 DEF Pair, BA, Window
  <2>3. CASE Running(r)
    <3>1. Pair(r) \in Pairs /\ now[r] \in Nat /\ now[r] <= clock
      BY <1>4, <2>3, PairTyped, ReachTyped DEF Ahead
    <3>2. \A h \in Hours : h + Lookback < now[r] => eia'[Pair(r)][h] = eia[Pair(r)][h]
      BY <1>2, <3>1
    <3> QED BY <1>1, <1>4, <2>1, <2>2, <3>2 DEF Behind, Exact
  <2>4. CASE ~Running(r)
    BY <1>1, <2>1, <2>4 DEF Behind, Running
  <2> QED BY <2>3, <2>4
<1> QED BY <1>3, <1>4

\* A page holds what the archive holds, or a row in the wrong unit.
LEMMA ReadReach ==
  ASSUME TypeOK, NEW r \in Runs, Ahead(r), Behind(r),
         ReadPage(r) \/ \E b \in BAs, h \in Hours, v \in {1, Bogus} : ReadBadPage(r, b, h, v)
  PROVE  Ahead(r)' /\ Behind(r)'
<1>1. Running(r) /\ pc[r] = "fetch" /\ UNCHANGED <<clock, eia, raw, wm, pc, mode, now, idx, cur, wend>>
  BY DEF ReadPage, ReadBadPage, Running, world, store
<1>2. Pair(r) \in Pairs /\ BA(r) \in BAs /\ WithPage(r) \in [BAs -> [Hours -> Versions]]
  BY <1>1, PairTyped, WithPageTyped
<1>3. Pair(r)' = Pair(r) /\ BA(r)' = BA(r) /\ Window(r)' = Window(r) /\ Running(r)' = Running(r)
  BY <1>1 DEF Pair, BA, Window, Running
<1>4. pg'[r] = pg[r] + PageHours
  BY DEF ReadPage, ReadBadPage, TypeOK
<1>5. ASSUME NEW h \in Window(r) \cap Hours, h < pg'[r], h + Lookback < now[r]
      PROVE  WithPage(r)[BA(r)][h] \in {eia[Pair(r)][h], Bogus}
  <2>1. WithPage(r)[BA(r)][h] = IF h \in Page(r) THEN eia[Pair(r)][h] ELSE resp[r][BA(r)][h]
    BY <1>2 DEF WithPage, TypeOK
  <2>2. h \notin Page(r) => h < pg[r]
    BY <1>4, <1>5, ReachTyped DEF Page
  <2> QED BY <1>1, <1>5, <2>1, <2>2 DEF Behind
<1>6. \A h \in Window(r) \cap Hours : resp'[r][BA(r)][h] \in {WithPage(r)[BA(r)][h], Bogus}
  BY PageRow
<1>7. Ahead(r)'
  BY <1>1, <1>3 DEF Ahead
<1> QED BY <1>1, <1>3, <1>5, <1>6, <1>7 DEF Behind, Exact

LEMMA LoadReach ==
  ASSUME IngestInv, NEW r \in Runs, Marked, Ahead(r), Behind(r), Load(r)
  PROVE  Marked' /\ Ahead(r)' /\ Behind(r)'
<1>1. TypeOK /\ Running(r) /\ pc[r] = "fetch" /\ Pair(r) \in Pairs
      /\ UNCHANGED <<clock, eia, wm, mode, now>>
  BY PairTyped DEF IngestInv, Load, Fetched, Running, world
<1>2. now[r] <= clock /\ mode[r] # "backfill" /\ \A p \in Pairs : wm[p] # None => wm[p] <= now[r]
  BY <1>1 DEF Ahead
<1>3. ASSUME NEW p \in Pairs, NEW h \in Hours, h + Lookback < now[r], Exact(p, h)
      PROVE  raw'[p][h] = eia[p][h]
  BY <1>3, LoadIsExact DEF Exact
<1>4. Marked'
  <2> SUFFICES ASSUME NEW p \in Pairs, wm[p] # None, NEW h \in Hours, h >= BackfillStart, h + Lookback < wm[p]
               PROVE  raw'[p][h] = eia[p][h]
    BY <1>1 DEF Marked, Exact
  <2>1. h + Lookback < now[r]
    BY <1>1, <1>2, ReachTyped
  <2> QED BY <1>3, <2>1 DEF Marked
<1>5. ASSUME mode[r] # "replay", NEW h \in Hours, h >= BackfillStart, h <= wend[r], h + Lookback < now[r]
      PROVE  raw'[Pair(r)][h] = eia[Pair(r)][h]
  <2>1. CASE h \in Window(r)
    BY <1>5, <2>1, LoadIsExact
  <2>2. CASE h \notin Window(r)
    <3>1. h < cur[r]
      BY <1>1, <1>5, <2>2, ReachTyped DEF Window
    <3>2. Exact(Pair(r), h)
      BY <1>1, <1>5, <3>1 DEF Behind
    <3> QED BY <1>1, <1>3, <1>5, <3>2
  <2> QED BY <2>1, <2>2
<1>6. CASE pc' = [pc EXCEPT ![r] = "mark"] /\ UNCHANGED <<idx, cur, wend, pg, resp>>
  <2>1. pc'[r] = "mark" /\ Pair(r)' = Pair(r) /\ Window(r)' = Window(r)
    BY <1>1, <1>6 DEF Pair, Window, TypeOK
  <2>2. Ahead(r)'
    BY <1>1, <1>2, <1>6, <2>1 DEF Ahead
  <2>3. \A h \in Window(r) \cap Hours : h + Lookback < now[r] => raw'[Pair(r)][h] = eia[Pair(r)][h]
    BY LoadIsExact
  <2>4. mode[r] # "replay" => \A h \in Hours :
          h >= BackfillStart /\ h < cur[r] /\ h + Lookback < now[r] => raw'[Pair(r)][h] = eia[Pair(r)][h]
    BY <1>1, <1>3 DEF Behind
  <2> QED BY <1>1, <1>4, <1>6, <2>1, <2>2, <2>3, <2>4 DEF Behind, Exact
<1>7. CASE Onward(r)
  <2>1. now[r] <= clock' /\ \A p \in Pairs : wm'[p] # None => wm'[p] <= now[r]
    BY <1>1, <1>2
  <2>2. mode[r] # "replay" => \A h \in Hours :
          h >= BackfillStart /\ h <= wend[r] /\ h + Lookback < now[r] => raw'[Pair(r)][h] = eia'[Pair(r)][h]
    BY <1>1, <1>5
  <2> QED BY <1>1, <1>2, <1>4, <1>7, <2>1, <2>2, OnwardReach
<1> QED BY <1>6, <1>7 DEF Load

\* The watermark moves no further than the window, which ends where the run began.
LEMMA MarkReach ==
  ASSUME IngestInv, NEW r \in Runs, Marked, Ahead(r), Behind(r), Mark(r)
  PROVE  Marked' /\ Ahead(r)' /\ Behind(r)'
<1>1. TypeOK /\ MarkIsEarned /\ Running(r) /\ pc[r] = "mark" /\ Pair(r) \in Pairs
      /\ UNCHANGED <<clock, eia, raw, mode, now>>
  BY PairTyped DEF IngestInv, Mark, Running, world
<1>2. now[r] <= clock /\ mode[r] # "backfill" /\ wend[r] <= now[r]
      /\ \A p \in Pairs : wm[p] # None => wm[p] <= now[r]
  BY <1>1 DEF Ahead
<1>3. PICK top \in Hours :
        /\ \E b \in BAs : resp[r][b][top] # 0
        /\ wm' = [wm EXCEPT ![Pair(r)] = IF @ = None THEN top ELSE Larger(@, top)]
  BY DEF Mark
<1>4. top \in Window(r) /\ mode[r] # "replay"
  BY <1>1, <1>3 DEF MarkIsEarned, Stray
<1>5. top <= wend[r] /\ top <= now[r] /\ top <= clock /\ top \in Nat
  BY <1>1, <1>2, <1>4, ReachTyped DEF Window
<1>6. \A p \in Pairs : wm'[p] = wm[p] \/ (p = Pair(r) /\ wm'[p] = top)
  BY <1>1, <1>3 DEF TypeOK, Larger
<1>7. ASSUME NEW h \in Hours, h >= BackfillStart, h <= wend[r], h + Lookback < now[r]
      PROVE  Exact(Pair(r), h)
  <2>1. h < cur[r] \/ h \in Window(r)
    BY <1>1, <1>7, ReachTyped DEF Window
  <2> QED BY <1>1, <1>4, <1>7, <2>1 DEF Behind
<1>8. Marked'
  <2> SUFFICES ASSUME NEW p \in Pairs, wm'[p] # None
               PROVE  /\ wm'[p] <= clock
                      /\ \A h \in Hours : h >= BackfillStart /\ h + Lookback < wm'[p] => Exact(p, h)
    BY <1>1 DEF Marked, Exact
  <2>1. CASE wm'[p] = wm[p]
    BY <2>1 DEF Marked
  <2>2. CASE p = Pair(r) /\ wm'[p] = top
    <3>1. \A h \in Hours : h + Lookback < top => h <= wend[r] /\ h + Lookback < now[r]
      BY <1>1, <1>5, ReachTyped
    <3> QED BY <1>5, <1>7, <2>2, <3>1
  <2> QED BY <1>6, <2>1, <2>2
<1>9. Ahead(r)' /\ Behind(r)'
  <2>1. now[r] <= clock' /\ \A p \in Pairs : wm'[p] # None => wm'[p] <= now[r]
    BY <1>1, <1>2, <1>5, <1>6
  <2>2. \A h \in Hours :
          h >= BackfillStart /\ h <= wend[r] /\ h + Lookback < now[r] => raw'[Pair(r)][h] = eia'[Pair(r)][h]
    BY <1>1, <1>7 DEF Exact
  <2>3. Onward(r)
    BY DEF Mark
  <2> QED BY <1>1, <1>2, <2>1, <2>2, <2>3, OnwardReach
<1> QED BY <1>8, <1>9

\* An incremental run starts at most the lookback behind the watermark.
LEMMA OpenReach ==
  ASSUME TypeOK, NEW r \in Runs, Marked, Ahead(r), OpenPair(r)
  PROVE  Ahead(r)' /\ Behind(r)'
<1>1. Running(r) /\ Pair(r) \in Pairs /\ FirstHour(r) \in Int
      /\ UNCHANGED <<clock, eia, raw, wm, mode, now, idx>>
  BY FirstHourTyped, PairTyped DEF OpenPair, Running, world, store
<1>2. now[r] <= clock /\ mode[r] # "backfill" /\ \A p \in Pairs : wm[p] # None => wm[p] <= now[r]
  BY <1>1 DEF Ahead
<1>3. PICK e \in Int : e <= now[r] /\ OpenWindow(r, FirstHour(r), e)
  <2>1. now[r] \in Int /\ now[r] <= now[r] /\ \A e \in Ends : e \in Int
    BY ReachTyped, ConstantsTyped DEF Ends
  <2> QED BY <2>1 DEF OpenPair, WindowEnd
<1>4. ASSUME mode[r] # "replay", NEW h \in Hours, h >= BackfillStart, h < FirstHour(r)
      PROVE  Exact(Pair(r), h)
  <2>1. wm[Pair(r)] # None /\ h + Lookback < wm[Pair(r)]
    BY <1>1, <1>2, <1>4, ReachTyped DEF FirstHour
  <2> QED BY <1>1, <1>4, <2>1 DEF Marked
<1>5. mode[r] # "replay" => \A h \in Hours :
        h >= BackfillStart /\ h < FirstHour(r) /\ h + Lookback < now[r] => raw'[Pair(r)][h] = eia'[Pair(r)][h]
  BY <1>1, <1>4 DEF Exact
<1>6. now[r] <= clock' /\ \A p \in Pairs : wm'[p] # None => wm'[p] <= now[r]
  BY <1>1, <1>2
<1> QED BY <1>1, <1>2, <1>3, <1>5, <1>6, OpenedReach

LEMMA ReachOwn ==
  ASSUME InReach, IngestInv, NEW r \in Runs, Marked, Ahead(r), Behind(r), RunStep(r)
  PROVE  Marked' /\ Ahead(r)' /\ Behind(r)'
<1>t. TypeOK
  BY DEF IngestInv
<1>1. ASSUME NEW m \in Modes, NEW s \in Hours, Start(r, m, s)
      PROVE  Marked' /\ Ahead(r)' /\ Behind(r)'
  <2>1. UNCHANGED <<clock, eia, raw, wm>>
    BY <1>1 DEF Start, world, store
  <2>2. pc'[r] = "open" /\ now'[r] = clock /\ mode'[r] = m /\ m # "backfill"
    BY <1>1, <1>t DEF Start, TypeOK, InReach
  <2>3. Marked' /\ clock <= clock /\ \A p \in Pairs : wm[p] # None => wm[p] <= clock
    BY <1>t, <2>1, ReachTyped DEF Marked, Exact
  <2> QED BY <2>1, <2>2, <2>3 DEF Ahead, Behind
<1>2. CASE SkipPair(r)
  <2>1. UNCHANGED <<clock, eia, raw, wm, mode, now>> /\ Running(r)
    BY <1>2 DEF SkipPair, Running, world, store
  <2>2. pc'[r] \notin {"fetch", "mark"}
    BY <1>2, <1>t DEF SkipPair, NextPair, TypeOK
  <2> QED BY <2>1, <2>2 DEF Marked, Exact, Ahead, Behind
<1>3. CASE OpenPair(r)
  <2>1. Marked'
    BY <1>3 DEF OpenPair, world, store, Marked, Exact
  <2> QED BY <1>3, <1>t, <2>1, OpenReach
<1>4. CASE ReadPage(r) \/ \E b \in BAs, h \in Hours, v \in {1, Bogus} : ReadBadPage(r, b, h, v)
  <2>1. Marked'
    BY <1>4 DEF ReadPage, ReadBadPage, world, store, Marked, Exact
  <2> QED BY <1>4, <1>t, <2>1, ReadReach
<1>5. CASE Reject(r) \/ Refuse(r) \/ Crash(r) \/ Finish(r)
  <2>1. UNCHANGED <<clock, eia, raw, wm>>
    BY <1>5 DEF Reject, Refuse, Crash, Finish, world, store
  <2>2. pc'[r] \in {"failed", "done"}
    BY <1>5, <1>t DEF Reject, Refuse, Crash, Finish, Die, TypeOK
  <2> QED BY <2>1, <2>2 DEF Marked, Exact, Ahead, Behind, Running
<1>6. CASE Load(r)
  BY <1>6, LoadReach
<1>7. CASE Mark(r)
  BY <1>7, MarkReach
<1> QED BY <1>1, <1>2, <1>3, <1>4, <1>5, <1>6, <1>7 DEF RunStep, Step

ReachInv == Marked /\ \A r \in Runs : Ahead(r) /\ Behind(r)

LEMMA ReachStep == ASSUME InReach PROVE IngestInv /\ ReachInv /\ [Next]_vars => ReachInv'
<1> SUFFICES ASSUME IngestInv, ReachInv, [Next]_vars PROVE ReachInv'
  OBVIOUS
<1>t. TypeOK /\ Marked /\ \A r \in Runs : Ahead(r) /\ Behind(r)
  BY DEF IngestInv, ReachInv
<1>1. ASSUME NEW r \in Runs, RunStep(r) PROVE ReachInv'
  <2>1. Marked' /\ Ahead(r)' /\ Behind(r)'
    BY <1>1, <1>t, ReachOwn
  <2>2. \A q \in Runs : q = r
    BY DEF InReach, OneRun
  <2> QED BY <2>1, <2>2 DEF ReachInv
<1>2. ASSUME NEW p \in Pairs, NEW h \in Hours, Publish(p, h) PROVE ReachInv'
  BY <1>2, <1>t, PublishReach DEF ReachInv
<1>3. CASE Tick \/ UNCHANGED vars
  <2>1. UNCHANGED <<eia, raw, wm, pc, mode, now, idx, cur, wend, pg, resp>> /\ clock' \in {clock, clock + 1}
    BY <1>3 DEF Tick, store, job, vars
  <2>2. \A n \in Nat : n <= clock => n <= clock'
    BY <1>t, <2>1, ConstantsTyped DEF TypeOK, Hours
  <2>3. Marked'
    <3>1. \A p \in Pairs : wm[p] # None => wm[p] \in Nat
      BY <1>t, ConstantsTyped DEF TypeOK, Hours
    <3> QED BY <1>t, <2>1, <2>2, <3>1 DEF Marked, Exact
  <2>4. ASSUME NEW r \in Runs PROVE Ahead(r)' /\ Behind(r)'
    <3>1. now[r] \in Nat
      BY <1>t, ReachTyped
    <3>2. Ahead(r)'
      BY <1>t, <2>1, <2>2, <3>1 DEF Ahead, Running
    <3>3. Behind(r)'
      BY <1>t, <2>1 DEF Behind, Exact, Pair, BA, Window
    <3> QED BY <3>2, <3>3
  <2> QED BY <2>3, <2>4 DEF ReachInv
<1> QED BY <1>1, <1>2, <1>3 DEF Next, RunStep

\* Where one run at a time ingests without backfills, and the lookback is as long
\* as the archive may change an hour, whatever the warehouse still gets wrong lies
\* where the next nightly run looks (run_incremental's late-arrival lookback).
THEOREM StaleStaysInReach == ASSUME InReach PROVE Spec => []StaleIsReachable
<1>1. Init => ReachInv
  BY DEF Init, ReachInv, Marked, Ahead, Behind, Running
<1>2. TypeOK /\ ReachInv => StaleIsReachable
  <2> SUFFICES ASSUME TypeOK, ReachInv, NEW p \in Pairs, NEW h \in Hours,
                      h >= BackfillStart, raw[p][h] # eia[p][h], wm[p] # None
               PROVE  h >= wm[p] - Lookback
    BY DEF StaleIsReachable
  <2>1. wm[p] \in Nat /\ h \in Nat /\ Lookback \in Nat
    BY ConstantsTyped DEF TypeOK, Hours
  <2>2. ~(h + Lookback < wm[p])
    BY DEF ReachInv, Marked, Exact
  <2> QED BY <2>1, <2>2
<1>3. IngestInv => TypeOK
  BY DEF IngestInv
<1> QED BY <1>1, <1>2, <1>3, ReachStep, InvAlways, PTL DEF Spec
=============================================================================
