---------------------------- MODULE PublishProofs ----------------------------
(***************************************************************************)
(* Theorems about module Publish, for any window, any cap on the touched   *)
(* partitions and any number of days and nights.                           *)
(*                                                                         *)
(* The argument: as long as at most one night in a row has failed, every   *)
(* day that BigQuery shows wrongly has a raw row from after the last       *)
(* publish, and that is at most two nights ago: what touched_partitions    *)
(* looks for.                                                              *)
(***************************************************************************)
EXTENDS Publish, SetLemmas

LEMMA ConstantsTyped ==
  /\ MaxDay \in Nat /\ MaxNight \in Nat /\ WindowDays \in Nat \ {0} /\ TouchedNights = 2
  /\ Days \subseteq Int /\ IsFiniteSet(Days)
BY PublishAssumption, FS_Interval DEF PublishAssumption, Days

\* Days without data have no data anywhere; BigQuery is behind the fact, the fact
\* behind the raw tables, and those behind the calendar.
Ordered ==
  \A d \in Days : bq[d] <= fact[d] /\ fact[d] <= raw[d] /\ raw[d] <= night

TypeInv == TypeOK /\ Ordered

LEMMA TypeInit == Init => TypeInv
<1> SUFFICES ASSUME Init PROVE TypeInv
  OBVIOUS
<1>1. night = 0 /\ missed = 0 /\ pc = "idle" /\ full = FALSE /\ queue = {}
  BY DEF Init
<1>2. raw = [d \in Days |-> 0] /\ fact = raw /\ bq = raw /\ daily = raw
  BY DEF Init
<1>3. 0 \in Nights
  BY ConstantsTyped DEF Nights
<1>4. TypeOK
  <2>1. [d \in Days |-> 0] \in [Days -> Nights]
    BY <1>3
  <2>2. missed \in 0..2
    BY <1>1
  <2>3. full \in BOOLEAN
    BY <1>1, Zenon
  <2>4. /\ raw \in [Days -> Nights] /\ fact \in [Days -> Nights]
        /\ bq \in [Days -> Nights] /\ daily \in [Days -> Nights]
    BY <1>2, <2>1, Zenon
  <2> QED BY <1>1, <1>3, <2>2, <2>3, <2>4 DEF TypeOK
<1>5. Ordered
  BY <1>1, <1>2 DEF Ordered
<1> QED BY <1>4, <1>5 DEF TypeInv

LEMMA TypeStep == TypeInv /\ [Next]_vars => TypeInv'
<1> SUFFICES ASSUME TypeInv, [Next]_vars PROVE TypeInv'
  OBVIOUS
<1> USE ConstantsTyped DEF Nights
<1>1. ASSUME NEW f \in BOOLEAN, StartNight(f) PROVE TypeInv'
  BY <1>1 DEF StartNight, TypeInv, TypeOK, Ordered
<1>2. ASSUME NEW S \in SUBSET Days, Ingest(S) PROVE TypeInv'
  BY <1>2 DEF Ingest, TypeInv, TypeOK, Ordered
<1>3. ASSUME NEW S \in SUBSET Days, Fail(S) PROVE TypeInv'
  <2>1. /\ raw' \in [Days -> Nights]
        /\ \A d \in Days : raw[d] <= raw'[d] /\ raw'[d] <= night
    <3>1. CASE pc = "ingest"
      BY <1>3, <3>1 DEF Fail, TypeInv, TypeOK, Ordered
    <3> QED BY <1>3, <3>1 DEF Fail, TypeInv, TypeOK, Ordered
  <2>2. fact' \in {fact, raw}
    BY <1>3 DEF Fail
  <2>3. Ordered'
    BY <1>3, <2>1, <2>2 DEF Fail, TypeInv, TypeOK, Ordered
  <2> QED BY <1>3, <2>1, <2>2, <2>3 DEF Fail, TypeInv, TypeOK
<1>4. ASSUME Build PROVE TypeInv'
  BY <1>4 DEF Build, TypeInv, TypeOK, Ordered
<1>5. ASSUME Plan PROVE TypeInv'
  <2>1. queue' \subseteq Days /\ pc' \in {"send", "whole"}
    BY <1>5 DEF Plan, Touched, Window, Present
  <2> QED BY <1>5, <2>1 DEF Plan, TypeInv, TypeOK, Ordered
<1>6. ASSUME SendWhole PROVE TypeInv'
  BY <1>6 DEF SendWhole, TypeInv, TypeOK, Ordered
<1>7. ASSUME SendDay PROVE TypeInv'
  <2>1. PICK d \in queue : /\ bq' = IF fact[d] = 0 THEN bq ELSE [bq EXCEPT ![d] = fact[d]]
                           /\ queue' = queue \ {d}
    BY <1>7 DEF SendDay
  <2> QED BY <1>7, <2>1 DEF SendDay, TypeInv, TypeOK, Ordered
<1>8. ASSUME SendMarts PROVE TypeInv'
  BY <1>8 DEF SendMarts, TypeInv, TypeOK, Ordered
<1>9. CASE UNCHANGED vars
  BY <1>9 DEF vars, TypeInv, TypeOK, Ordered
<1> QED BY <1>1, <1>2, <1>3, <1>4, <1>5, <1>6, <1>7, <1>8, <1>9 DEF Next

\* The variables have their types, and the stages of the pipeline are never ahead
\* of one another.
THEOREM TypeCorrect == Spec => []TypeOK
<1>1. TypeInv => TypeOK
  BY DEF TypeInv
<1> QED BY <1>1, TypeInit, TypeStep, PTL DEF Spec

-----------------------------------------------------------------------------
\* The newest date is one of the fact's, and no date is beyond it.
LEMMA MaxDateIsLargest ==
  ASSUME Present # {}
  PROVE  MaxDate \in Present /\ \A d \in Present : d <= MaxDate
<1>1. Present \in SUBSET Int /\ IsFiniteSet(Present)
  BY ConstantsTyped, FS_Subset DEF Present
<1>2. \E d \in Present : \A e \in Present : e <= d
  BY <1>1, HasLargest
<1> QED BY <1>2 DEF MaxDate

\* The last night that published, where at most one has failed since.
Published == IF pc = "idle" THEN night - missed ELSE night - 1 - missed

\* A day that BigQuery shows wrongly was ingested after that night.
Behind ==
  missed < 2 => \A d \in Days : bq[d] = raw[d] \/ raw[d] > Published

\* A publish under way still has those days in its queue.
Queued ==
  /\ pc \in {"plan", "send", "whole"} => fact = raw
  /\ pc = "whole" => queue = {}
  /\ pc = "send" /\ (missed < 2 \/ full) => \A d \in Days \ queue : bq[d] = fact[d]

HealInv == Behind /\ Queued /\ OneMissedNightHeals

LEMMA HealInit == Init => HealInv
BY ConstantsTyped DEF Init, HealInv, Behind, Queued, OneMissedNightHeals

\* What a partial publish sends is enough, if at most one night has failed.
LEMMA PlanCovers ==
  ASSUME TypeInv, Behind, Queued, pc = "plan", missed < 2, Present # {},
         NEW d \in Days, bq[d] # fact[d]
  PROVE  d \in Touched \union Window
<1>1. raw[d] > night - TouchedNights /\ fact[d] = raw[d]
  BY ConstantsTyped DEF TypeInv, TypeOK, Nights, Behind, Queued, Published
<1>2. d \in Present
  BY DEF Present, TypeInv, TypeOK, Nights, Ordered
<1>3. MaxDate \in Int /\ d <= MaxDate /\ d \in Int
  BY <1>2, MaxDateIsLargest, ConstantsTyped DEF Present
<1> QED BY <1>1, <1>2, <1>3, ConstantsTyped DEF Touched, Window

LEMMA HealStep == HealInv /\ TypeInv /\ [Next]_vars => HealInv'
<1> SUFFICES ASSUME HealInv, TypeInv, [Next]_vars PROVE HealInv'
  OBVIOUS
<1>t. TypeInv'
  BY TypeStep
<1> USE ConstantsTyped DEF Nights
<1>1. ASSUME NEW f \in BOOLEAN, StartNight(f) PROVE HealInv'
  BY <1>1 DEF StartNight, TypeInv, TypeOK, HealInv, Behind, Queued, OneMissedNightHeals, Published
<1>2. ASSUME NEW S \in SUBSET Days, Ingest(S) PROVE HealInv'
  <2>1. Behind'
    BY <1>2 DEF Ingest, TypeInv, TypeOK, HealInv, Behind, Published
  <2> QED BY <1>2, <2>1 DEF Ingest, HealInv, Queued, OneMissedNightHeals
<1>3. ASSUME NEW S \in SUBSET Days, Fail(S) PROVE HealInv'
  <2>1. \A d \in Days : raw'[d] = raw[d] \/ raw'[d] = night
    <3>1. CASE pc = "ingest"
      BY <1>3, <3>1 DEF Fail
    <3> QED BY <1>3, <3>1 DEF Fail
  <2>2. pc' = "idle" /\ missed' # 0 /\ (missed' < 2 => missed = 0 /\ missed' = 1)
    BY <1>3 DEF Fail, TypeInv, TypeOK
  <2>3. Behind'
    BY <1>3, <2>1, <2>2 DEF Fail, TypeInv, TypeOK, HealInv, Behind, Published
  <2> QED BY <2>2, <2>3 DEF HealInv, Queued, OneMissedNightHeals
<1>4. ASSUME Build PROVE HealInv'
  BY <1>4 DEF Build, TypeInv, TypeOK, HealInv, Behind, Queued, OneMissedNightHeals, Published
<1>5. ASSUME Plan PROVE HealInv'
  <2>1. Behind' /\ OneMissedNightHeals'
    BY <1>5 DEF Plan, HealInv, Behind, OneMissedNightHeals, Published
  <2>2. fact' = raw' /\ (pc' = "whole" => queue' = {})
    BY <1>5 DEF Plan, HealInv, Queued
  <2>3. ASSUME pc' = "send", missed' < 2 \/ full', NEW d \in Days \ queue' PROVE bq'[d] = fact'[d]
    <3>1. UNCHANGED <<bq, fact, raw, missed, full>> /\ pc = "plan"
      BY <1>5 DEF Plan
    <3>2. CASE Present = {}
      BY <2>3, <3>1, <3>2 DEF Present, TypeInv, TypeOK, Ordered
    <3>3. CASE Present # {}
      <4>1. ~full /\ queue' = Touched \union Window
        BY <1>5, <2>3, <3>3 DEF Plan
      <4>2. missed < 2
        BY <2>3, <3>1, <4>1
      <4>3. bq[d] = fact[d]
        BY <2>3, <3>1, <3>3, <4>1, <4>2, PlanCovers DEF HealInv
      <4> QED BY <3>1, <4>3
    <3> QED BY <3>2, <3>3
  <2> QED BY <2>1, <2>2, <2>3 DEF HealInv, Queued
<1>6. ASSUME SendWhole PROVE HealInv'
  BY <1>6 DEF SendWhole, TypeInv, TypeOK, HealInv, Behind, Queued, OneMissedNightHeals, Published
<1>7. ASSUME SendDay PROVE HealInv'
  <2>1. PICK d \in queue : /\ bq' = IF fact[d] = 0 THEN bq ELSE [bq EXCEPT ![d] = fact[d]]
                           /\ queue' = queue \ {d}
    BY <1>7 DEF SendDay
  <2>2. pc = "send" /\ fact = raw /\ UNCHANGED <<night, pc, full, raw, fact, daily, missed>>
    BY <1>7 DEF SendDay, HealInv, Queued
  <2>3. d \in Days /\ bq'[d] = fact[d] /\ \A e \in Days \ {d} : bq'[e] = bq[e]
    BY <2>1 DEF TypeInv, TypeOK, Ordered
  <2>4. Behind'
    BY <2>2, <2>3 DEF HealInv, Behind, Published
  <2>5. Queued'
    BY <2>1, <2>2, <2>3 DEF HealInv, Queued
  <2> QED BY <2>2, <2>4, <2>5 DEF HealInv, OneMissedNightHeals
<1>8. ASSUME SendMarts PROVE HealInv'
  <2>1. /\ pc = "send" /\ queue = {} /\ fact = raw /\ daily' = fact
        /\ UNCHANGED <<night, full, raw, fact, bq, queue>> /\ pc' = "idle"
        /\ missed' < 2 => missed' = 0 /\ (missed < 2 \/ full)
    BY <1>8 DEF SendMarts, HealInv, Queued, TypeInv, TypeOK
  <2>2. missed' < 2 => \A d \in Days : bq'[d] = fact'[d]
    BY <2>1 DEF HealInv, Queued
  <2>3. missed' < 2 => bq' = fact'
    <3>1. bq' \in [Days -> 0..MaxNight] /\ fact' \in [Days -> 0..MaxNight]
      BY <1>t DEF TypeInv, TypeOK
    <3>2. bq' = [d \in Days |-> bq'[d]] /\ fact' = [d \in Days |-> fact'[d]]
      BY <3>1
    <3> QED BY <2>2, <3>2, Zenon
  <2>4. Behind' /\ OneMissedNightHeals'
    <3>1. missed' \in 0..2
      BY <1>t DEF TypeInv, TypeOK
    <3> QED BY <2>1, <2>2, <2>3, <3>1 DEF Behind, OneMissedNightHeals
  <2> QED BY <2>1, <2>4 DEF HealInv, Queued
<1>9. CASE UNCHANGED vars
  BY <1>9 DEF vars, HealInv, Behind, Queued, OneMissedNightHeals, Published
<1> QED BY <1>1, <1>2, <1>3, <1>4, <1>5, <1>6, <1>7, <1>8, <1>9 DEF Next

\* A night that publishes leaves BigQuery with exactly what the marts hold, though
\* the night before may have failed anywhere and left rows, a rebuilt fact or half
\* a publish behind; whatever WindowDays and MaxTouched are.
THEOREM OneNightHeals == Spec => []OneMissedNightHeals
<1>1. HealInv => OneMissedNightHeals
  BY DEF HealInv
<1> QED BY <1>1, HealInit, HealStep, TypeInit, TypeStep, PTL DEF Spec
=============================================================================
