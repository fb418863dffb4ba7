----------------------- MODULE FuelExpectationsProofs ------------------------
(***************************************************************************)
(* Theorems about module FuelExpectations, for any fuel types, seeds,      *)
(* months, floors and lookbacks.                                           *)
(*                                                                         *)
(* What the arguments rest on: reports only grow, and an hour that no      *)
(* build writes again does not change, nor does any month before its own.  *)
(***************************************************************************)
EXTENDS FuelExpectations, FiniteSetTheorems, TLAPS

LEMMA ConstantsTyped ==
  /\ MonthHours \in Nat \ {0} /\ MaxHour \in Nat \ {0} /\ Floor \in Nat \ {0}
  /\ Lookback \in Nat /\ MaxRestated \in Nat
  /\ Vre \subseteq Groups /\ Reports \subseteq SUBSET Codes
  /\ Retirements \subseteq Groups \X Months /\ Never \notin Int
  /\ Hours \subseteq Nat \ {0} /\ IsFiniteSet(Hours)
<1>1. IsFiniteSet(Hours) /\ Hours \subseteq Nat \ {0}
  BY FuelExpectationsAssumption, FS_Interval DEF FuelExpectationsAssumption, Hours
<1> QED BY <1>1, FuelExpectationsAssumption DEF FuelExpectationsAssumption

LEMMA DivMonotone ==
  ASSUME NEW a \in Nat, NEW b \in Nat, NEW d \in Nat \ {0}, a <= b
  PROVE  a \div d \in Nat /\ a \div d <= b \div d
OBVIOUS

\* Months are numbered in the order of their hours.
LEMMA MonthMonotone ==
  ASSUME NEW x \in Hours, NEW y \in Hours, x <= y
  PROVE  Month(x) \in Nat /\ Month(x) <= Month(y) /\ Month(x) \in Months /\ Month(y) \in Nat
<1>1. x - 1 \in Nat /\ y - 1 \in Nat /\ x - 1 <= y - 1
  BY ConstantsTyped
<1> QED BY <1>1, ConstantsTyped, DivMonotone DEF Month, Months

LEMMA MonthsTyped == Months \subseteq Nat
BY ConstantsTyped, MonthMonotone DEF Months

\* A pair is expected if there is a report for its month, and the group is
\* declared or was seen by then, and is not retired.
LEMMA ExpectedMember ==
  ASSUME NEW m, NEW g
  PROVE  <<m, g>> \in Expected <=>
           /\ m \in WarehouseMonths /\ g \in Groups
           /\ g \in Vre \cap declared \/ SeenBy(g, m)
           /\ InContract(g, m)
BY DEF Expected

LEMMA HoursInTyped ==
  ASSUME NEW g, NEW m
  PROVE  /\ IsFiniteSet({h \in Hours : Month(h) = m /\ g \in Present(h)})
         /\ HoursIn(g, m) \in Nat
<1>1. IsFiniteSet({h \in Hours : Month(h) = m /\ g \in Present(h)})
  BY ConstantsTyped, FS_Subset
<1> QED BY <1>1, FS_CardinalityType DEF HoursIn

-----------------------------------------------------------------------------
(* Types; what has not arrived has no report. *)

TypeInv ==
  /\ TypeOK
  /\ \A h \in Hours : h > clock => report[h] = {}
  /\ current => edge = clock

LEMMA TypeInit == Init => TypeInv
<1> SUFFICES ASSUME Init PROVE TypeInv
  OBVIOUS
<1> USE ConstantsTyped
<1>1. clock \in 0..MaxHour /\ edge \in 0..clock /\ restated \in 0..MaxRestated
  BY DEF Init
<1>2. report \in [Hours -> SUBSET Codes] /\ flagged \in [Hours -> SUBSET Groups]
      /\ retired \in [Groups -> Months \union {Never}]
  BY DEF Init
<1>3. declared \subseteq Vre /\ current = FALSE
  BY DEF Init
<1>4. current \in BOOLEAN
  BY <1>3, Zenon
<1>5. \A h \in Hours : flagged[h] = {} /\ report[h] = {}
  BY DEF Init
<1> QED BY <1>1, <1>2, <1>3, <1>4, <1>5 DEF TypeInv, TypeOK

LEMMA AbsentTyped ==
  ASSUME NEW expected, NEW h
  PROVE  Absent(expected, h) \in SUBSET Groups
BY DEF Absent

\* What the two kinds of build have in common.
Built(h) == flagged'[h] = Absent(Expected, h)

LEMMA BuildCases ==
  ASSUME TypeInv, Build \/ BuildFull
  PROVE  /\ edge' = clock /\ current' = TRUE
         /\ UNCHANGED <<clock, report, declared, retired, restated>>
         /\ flagged' \in [Hours -> SUBSET Groups]
         /\ \A h \in Hours :
              \/ h <= clock /\ Built(h)
              \/ h > clock /\ flagged'[h] = {}
              \/ h <= edge - Lookback /\ flagged'[h] = flagged[h]
<1> USE ConstantsTyped
<1>t. /\ flagged \in [Hours -> SUBSET Groups] /\ clock \in Nat /\ edge \in 0..clock
      /\ \A h \in Hours : flagged[h] # {} => h <= edge
  BY DEF TypeInv, TypeOK
<1>1. CASE Build
  <2>1. flagged' = [h \in Hours |-> IF Written(h) THEN Absent(Expected, h) ELSE flagged[h]]
    BY <1>1 DEF Build
  <2>2. flagged' \in [Hours -> SUBSET Groups]
    BY <1>t, <2>1, AbsentTyped
  <2>3. ASSUME NEW h \in Hours
        PROVE  \/ h <= clock /\ Built(h)
               \/ h > clock /\ flagged'[h] = {}
               \/ h <= edge - Lookback /\ flagged'[h] = flagged[h]
    <3>1. CASE Written(h)
      BY <2>1, <3>1 DEF Written, Built
    <3>2. CASE ~Written(h)
      BY <1>t, <2>1, <3>2 DEF Written
    <3> QED BY <3>1, <3>2
  <2> QED BY <1>1, <2>2, <2>3 DEF Build
<1>2. CASE BuildFull
  <2>1. flagged' = [h \in Hours |-> IF h <= clock THEN Absent(Expected, h) ELSE {}]
    BY <1>2 DEF BuildFull
  <2>2. flagged' \in [Hours -> SUBSET Groups]
    BY <2>1, AbsentTyped
  <2>3. \A h \in Hours : (h <= clock /\ Built(h)) \/ (h > clock /\ flagged'[h] = {})
    BY <1>t, <2>1 DEF Built
  <2> QED BY <1>2, <2>2, <2>3 DEF BuildFull
<1> QED BY <1>1, <1>2

\* What a report that comes, and one that comes late, have in common: reports
\* grow, and only for hours that the next build writes.
Grown ==
  /\ report' \in [Hours -> SUBSET Codes]
  /\ \A x \in Hours : report[x] \subseteq report'[x] /\ (x <= edge - Lookback => report'[x] = report[x])
  /\ \A x \in Hours : x > clock' => report'[x] = {}
  /\ clock' \in 0..MaxHour /\ edge \in 0..clock' /\ restated' \in 0..MaxRestated
  /\ current' = FALSE /\ UNCHANGED <<declared, retired, edge, flagged>>

LEMMA ReportCases ==
  ASSUME TypeInv, NEW codes \in Reports, Arrive(codes) \/ \E h \in Hours : Restate(h, codes)
  PROVE  Grown
<1> USE ConstantsTyped
<1>t. /\ report \in [Hours -> SUBSET Codes] /\ clock \in 0..MaxHour /\ edge \in 0..clock
      /\ codes \in SUBSET Codes /\ restated \in 0..MaxRestated
      /\ \A x \in Hours : x > clock => report[x] = {}
  BY DEF TypeInv, TypeOK
<1>1. CASE Arrive(codes)
  <2>1. clock' = clock + 1 /\ clock + 1 \in Hours /\ restated' = restated
    BY <1>1, <1>t DEF Arrive, Hours
  <2>2. report' \in [Hours -> SUBSET Codes] /\ \A x \in Hours \ {clock + 1} : report'[x] = report[x]
    BY <1>1, <1>t DEF Arrive
  <2>3. report[clock + 1] = {} /\ clock' \in 0..MaxHour /\ edge \in 0..clock'
    BY <1>1, <1>t, <2>1 DEF Arrive
  <2>4. \A x \in Hours : report[x] \subseteq report'[x] /\ (x <= edge - Lookback => report'[x] = report[x])
    BY <1>t, <2>1, <2>2, <2>3
  <2> QED BY <1>1, <1>t, <2>1, <2>2, <2>3, <2>4 DEF Arrive, Grown
<1>2. ASSUME NEW h \in Hours, Restate(h, codes) PROVE Grown
  <2>1. report' \in [Hours -> SUBSET Codes] /\ \A x \in Hours \ {h} : report'[x] = report[x]
    BY <1>2, <1>t DEF Restate
  <2>2. report[h] \subseteq report'[h] /\ h <= clock /\ h > edge - Lookback
    BY <1>2, <1>t DEF Restate
  <2>3. restated' \in 0..MaxRestated
    BY <1>2, <1>t DEF Restate
  <2> QED BY <1>2, <1>t, <2>1, <2>2, <2>3 DEF Restate, Grown
<1> QED BY <1>1, <1>2

LEMMA TypeStep == TypeInv /\ [Next]_vars => TypeInv'
<1> SUFFICES ASSUME TypeInv, [Next]_vars PROVE TypeInv'
  OBVIOUS
<1> USE ConstantsTyped
<1>1. ASSUME NEW codes \in Reports, Arrive(codes) \/ \E h \in Hours : Restate(h, codes)
      PROVE  TypeInv'
  <2>1. Grown
    BY <1>1, ReportCases
  <2>2. current' \in BOOLEAN
    BY <2>1, Zenon DEF Grown
  <2> QED BY <2>1, <2>2 DEF Grown, TypeInv, TypeOK
<1>2. ASSUME NEW g \in Groups, NEW m \in Months, Retire(g, m) PROVE TypeInv'
  <2>1. current' = FALSE /\ retired' \in [Groups -> Months \union {Never}]
    BY <1>2 DEF Retire, TypeInv, TypeOK
  <2>2. current' \in BOOLEAN
    BY <2>1, Zenon
  <2> QED BY <1>2, <2>1, <2>2 DEF Retire, TypeInv, TypeOK
<1>3. CASE Build \/ BuildFull
  <2>1. current' = TRUE
    BY <1>3, BuildCases
  <2>2. current' \in BOOLEAN
    BY <2>1, Zenon
  <2>3. /\ clock \in 0..MaxHour /\ edge \in 0..clock /\ restated \in 0..MaxRestated
        /\ report \in [Hours -> SUBSET Codes] /\ declared \subseteq Vre
        /\ retired \in [Groups -> Months \union {Never}]
        /\ \A h \in Hours : flagged[h] # {} => h <= edge
        /\ \A h \in Hours : h > clock => report[h] = {}
    BY DEF TypeInv, TypeOK
  <2>4. /\ edge' = clock /\ flagged' \in [Hours -> SUBSET Groups]
        /\ UNCHANGED <<clock, report, declared, retired, restated>>
    BY <1>3, BuildCases
  <2>5. ASSUME NEW h \in Hours PROVE flagged'[h] # {} => h <= clock
    <3>1. \/ h <= clock /\ Built(h)
          \/ h > clock /\ flagged'[h] = {}
          \/ h <= edge - Lookback /\ flagged'[h] = flagged[h]
      BY <1>3, BuildCases
    <3>2. clock \in Nat /\ edge \in Nat /\ edge <= clock /\ h \in Nat /\ (flagged[h] # {} => h <= edge)
      BY <2>3
    <3>3. CASE h <= edge - Lookback /\ flagged'[h] = flagged[h]
      BY <3>2, <3>3
    <3> QED BY <3>1, <3>2, <3>3
  <2>6. TypeOK'
    BY <2>2, <2>3, <2>4, <2>5 DEF TypeOK
  <2>7. (\A h \in Hours : h > clock' => report'[h] = {}) /\ edge' = clock'
    BY <2>3, <2>4
  <2> QED BY <2>6, <2>7 DEF TypeInv
<1>4. CASE UNCHANGED vars
  BY <1>4 DEF vars, TypeInv, TypeOK
<1> QED BY <1>1, <1>2, <1>3, <1>4 DEF Next

\* The variables have their types, and no hour beyond the fact's edge has a flag.
THEOREM TypeCorrect == Spec => []TypeOK
<1>1. TypeInv => TypeOK
  BY DEF TypeInv
<1> QED BY <1>1, TypeInit, TypeStep, PTL DEF Spec

-----------------------------------------------------------------------------
(* What is expected. *)

\* Where reports grow, so do the hours in which a group was reported.
LEMMA HoursInGrows ==
  ASSUME \A x \in Hours : report[x] \subseteq report'[x], NEW g, NEW m
  PROVE  HoursIn(g, m) <= HoursIn(g, m)'
<1> DEFINE old == {h \in Hours : Month(h) = m /\ g \in Present(h)}
           new == {h \in Hours : Month(h) = m /\ g \in {GroupOf[c] : c \in report'[h]}}
<1>1. old \subseteq new
  BY DEF Present
<1>2. IsFiniteSet(new)
  BY ConstantsTyped, FS_Subset
<1>3. Cardinality(old) <= Cardinality(new)
  BY <1>1, <1>2, FS_Subset
<1> QED BY <1>3 DEF HoursIn, Present

\* What was seen stays seen, and by every later month.
LEMMA SeenByGrows ==
  ASSUME \A x \in Hours : report[x] \subseteq report'[x], NEW g,
         NEW m \in Months, NEW n \in Months, m <= n, SeenBy(g, m)
  PROVE  SeenBy(g, n)'
<1>1. PICK k \in Months : k <= m /\ HoursIn(g, k) >= Floor
  BY DEF SeenBy
<1>2. HoursIn(g, k) <= HoursIn(g, k)'
  BY HoursInGrows
<1>3. HoursIn(g, k) \in Nat /\ HoursIn(g, k)' \in Nat
  <2>1. HoursIn(g, k) \in Nat
    BY HoursInTyped
  <2>2. IsFiniteSet({h \in Hours : Month(h) = k /\ g \in Present(h)'})
    BY ConstantsTyped, FS_Subset
  <2> QED BY <2>1, <2>2, FS_CardinalityType DEF HoursIn
<1>4. HoursIn(g, k)' >= Floor /\ k <= n
  BY <1>1, <1>2, <1>3, ConstantsTyped, MonthsTyped
<1> QED BY <1>4 DEF SeenBy

\* What is expected of a month stays expected of it and of every later month that
\* has reports, until the group itself is retired, whatever else happens: an outage
\* is not learned as normal.
THEOREM OutagesAreNotLearned == Spec => OutageIsNotLearned
<1>1. TypeInv /\ [Next]_vars => [Persists]_vars
  <2> SUFFICES ASSUME TypeInv, [Next]_vars, vars' # vars PROVE Persists
    OBVIOUS
  <2>1. /\ \A x \in Hours : report[x] \subseteq report'[x]
        /\ declared' = declared
    <3>1. ASSUME NEW codes \in Reports, Arrive(codes) \/ \E h \in Hours : Restate(h, codes)
          PROVE  (\A x \in Hours : report[x] \subseteq report'[x]) /\ declared' = declared
      BY <3>1, ReportCases DEF Grown
    <3>2. ASSUME NEW g \in Groups, NEW m \in Months, Retire(g, m)
          PROVE  report' = report /\ declared' = declared
      BY <3>2 DEF Retire
    <3>3. CASE Build \/ BuildFull
      BY <3>3, BuildCases
    <3> QED BY <3>1, <3>2, <3>3 DEF Next
  <2>2. ASSUME NEW e \in Expected, retired'[e[2]] = retired[e[2]],
               NEW n \in WarehouseMonths', n >= e[1], InContract(e[2], n)
        PROVE  <<n, e[2]>> \in Expected'
    <3>1. PICK m \in WarehouseMonths, g \in Groups : e = <<m, g>>
      BY DEF Expected
    <3>2. <<m, g>> \in Expected /\ n >= m /\ InContract(g, n)
      BY <2>2, <3>1
    <3>3. g \in Vre \cap declared \/ SeenBy(g, m)
      BY <3>2, ExpectedMember
    <3>4. m \in Months /\ n \in Months /\ m <= n
      BY <3>2, MonthsTyped DEF WarehouseMonths, Months
    <3>5. g \in Vre \cap declared' \/ SeenBy(g, n)'
      BY <2>1, <3>3, <3>4, SeenByGrows
    <3>6. InContract(g, n)'
      BY <2>2, <3>1, <3>2 DEF InContract
    <3> QED BY <3>1, <3>5, <3>6 DEF Expected
  <2> QED BY <2>2 DEF Persists
<1> QED BY <1>1, TypeInit, TypeStep, PTL DEF Spec, OutageIsNotLearned

-----------------------------------------------------------------------------
(* The flags the fact keeps. *)

LEMMA AbsentMember ==
  ASSUME NEW h \in Hours, NEW g
  PROVE  g \in Absent(Expected, h) <=>
           /\ report[h] # {} /\ g \in Groups \ Present(h)
           /\ g \in Vre \cap declared \/ SeenBy(g, Month(h))
           /\ InContract(g, Month(h))
<1>1. CASE report[h] = {}
  BY <1>1 DEF Absent
<1>2. CASE report[h] # {}
  <2>1. Month(h) \in WarehouseMonths
    BY <1>2 DEF WarehouseMonths
  <2>2. g \in Absent(Expected, h) <=> g \in Groups \ Present(h) /\ <<Month(h), g>> \in Expected
    BY <1>2 DEF Absent
  <2> QED BY <1>2, <2>1, <2>2, ExpectedMember
<1> QED BY <1>1, <1>2

LEMMA AbsentMemberNext ==
  ASSUME NEW h \in Hours, NEW g
  PROVE  g \in Absent(Expected, h)' <=>
           /\ report'[h] # {} /\ g \in Groups \ Present(h)'
           /\ g \in Vre \cap declared' \/ SeenBy(g, Month(h))'
           /\ InContract(g, Month(h))'
<1>1. CASE report'[h] = {}
  BY <1>1 DEF Absent
<1>2. CASE report'[h] # {}
  <2>1. Month(h) \in WarehouseMonths'
    BY <1>2 DEF WarehouseMonths
  <2>2. g \in Absent(Expected, h)' <=> g \in Groups \ Present(h)' /\ <<Month(h), g>> \in Expected'
    BY <1>2 DEF Absent
  <2>3. <<Month(h), g>> \in Expected' <=>
          /\ g \in Groups
          /\ g \in Vre \cap declared' \/ SeenBy(g, Month(h))'
          /\ InContract(g, Month(h))'
    BY <2>1 DEF Expected
  <2> QED BY <1>2, <2>2, <2>3
<1> QED BY <1>1, <1>2

\* The hours whose flags are what they will be: no build writes them again, or
\* the last step was a build.
Settled(h) == h <= edge - Lookback \/ (current /\ h <= clock)

Told(h, g) == report[h] # {} /\ retired[g] = Never => (g \in flagged[h] <=> g \notin Present(h))

DeclaredInv == \A h \in Hours, g \in declared : Settled(h) => Told(h, g)

\* Before the first build nothing is settled.
LEMMA NothingSettled == Init => \A h \in Hours : ~Settled(h)
<1> SUFFICES ASSUME Init, NEW h \in Hours PROVE ~Settled(h)
  OBVIOUS
<1>1. edge = 0 /\ current = FALSE /\ Lookback \in Nat /\ h \in Nat \ {0}
  BY ConstantsTyped DEF Init
<1>2. ~(h <= edge - Lookback)
  BY <1>1
<1> QED BY <1>1, <1>2 DEF Settled

\* A report leaves alone the settled hours that it does not unsettle.
LEMMA SettledReport ==
  ASSUME Grown, NEW h \in Hours, Settled(h)'
  PROVE  h <= edge - Lookback /\ Settled(h) /\ report'[h] = report[h] /\ flagged'[h] = flagged[h]
<1>1. h <= edge - Lookback
  BY DEF Grown, Settled
<1> QED BY <1>1 DEF Grown, Settled

LEMMA SettledBuild ==
  ASSUME TypeInv, Build \/ BuildFull, NEW h \in Hours, Settled(h)'
  PROVE  Built(h) \/ (h <= edge - Lookback /\ Settled(h) /\ flagged'[h] = flagged[h])
<1>1. clock \in Nat /\ Lookback \in Nat /\ h \in Nat
  BY ConstantsTyped DEF TypeInv, TypeOK
<1>2. edge' = clock /\ clock' = clock
  BY BuildCases
<1>3. h <= clock
  <2>1. h <= edge' - Lookback \/ h <= clock'
    BY DEF Settled
  <2> QED BY <1>1, <1>2, <2>1
<1>4. \/ h <= clock /\ Built(h)
      \/ h > clock /\ flagged'[h] = {}
      \/ h <= edge - Lookback /\ flagged'[h] = flagged[h]
  BY BuildCases
<1> QED BY <1>1, <1>3, <1>4 DEF Settled

LEMMA DeclaredStep == TypeInv /\ DeclaredInv /\ [Next]_vars => DeclaredInv'
<1> SUFFICES ASSUME TypeInv, DeclaredInv, [Next]_vars,
                    NEW h \in Hours, NEW g \in declared', Settled(h)',
                    report'[h] # {}, retired'[g] = Never
             PROVE  g \in flagged'[h] <=> g \notin Present(h)'
  BY DEF DeclaredInv, Told
<1>1. ASSUME NEW codes \in Reports, Arrive(codes) \/ \E x \in Hours : Restate(x, codes)
      PROVE  g \in flagged'[h] <=> g \notin Present(h)'
  <2>1. Grown
    BY <1>1, ReportCases
  <2>2. Settled(h) /\ report'[h] = report[h] /\ flagged'[h] = flagged[h]
    BY <2>1, SettledReport
  <2>3. declared' = declared /\ retired' = retired
    BY <2>1 DEF Grown
  <2> QED BY <2>2, <2>3 DEF DeclaredInv, Told, Present
<1>2. ASSUME NEW k \in Groups, NEW m \in Months, Retire(k, m)
      PROVE  g \in flagged'[h] <=> g \notin Present(h)'
  <2>1. retired[g] = Never
    BY <1>2, ConstantsTyped DEF Retire, TypeInv, TypeOK
  <2>2. Settled(h)
    BY <1>2 DEF Retire, Settled
  <2> QED BY <1>2, <2>1, <2>2 DEF Retire, DeclaredInv, Told, Present
<1>3. CASE Build \/ BuildFull
  <2>1. UNCHANGED <<clock, report, declared, retired, restated>>
    BY <1>3, BuildCases
  <2>2. CASE Built(h)
    <3>1. g \in Vre \cap declared /\ g \in Groups /\ InContract(g, Month(h)) /\ report[h] # {}
      BY <2>1, ConstantsTyped DEF TypeInv, TypeOK, InContract
    <3> QED BY <2>1, <2>2, <3>1, AbsentMember DEF Built, Present
  <2>3. CASE Settled(h) /\ flagged'[h] = flagged[h]
    BY <2>1, <2>3 DEF DeclaredInv, Told, Present
  <2> QED BY <1>3, <2>2, <2>3, SettledBuild
<1>4. CASE UNCHANGED vars
  BY <1>4 DEF vars, DeclaredInv, Told, Settled, Present
<1> QED BY <1>1, <1>2, <1>3, <1>4 DEF Next

\* The flags of a declared solar or wind group are never out of date after a
\* build, and no gap of it goes unflagged, while it is not retired.
THEOREM DeclaredStaysTrue == Spec => []DeclaredIsNeverStale
<1>1. Init => DeclaredInv
  BY NothingSettled DEF DeclaredInv
<1>2. TypeInv /\ DeclaredInv => DeclaredIsNeverStale
  <2> SUFFICES ASSUME TypeInv, DeclaredInv, current, NEW h \in 1..clock, NEW g \in declared
               PROVE  Told(h, g)
    BY DEF DeclaredIsNeverStale, Told
  <2>1. h \in Hours /\ h <= clock
    BY ConstantsTyped DEF TypeInv, TypeOK, Hours
  <2> QED BY <2>1 DEF DeclaredInv, Settled
<1> QED BY <1>1, <1>2, TypeInit, TypeStep, DeclaredStep, PTL DEF Spec

EvidenceInv == \A h \in Hours : \A g \in flagged[h] \ declared : SeenBy(g, Month(h))

LEMMA EvidenceStep == TypeInv /\ EvidenceInv /\ [Next]_vars => EvidenceInv'
<1> SUFFICES ASSUME TypeInv, EvidenceInv, [Next]_vars,
                    NEW h \in Hours, NEW g \in flagged'[h] \ declared'
             PROVE  SeenBy(g, Month(h))'
  BY DEF EvidenceInv
<1>m. Month(h) \in Months /\ Month(h) <= Month(h)
  BY ConstantsTyped, MonthMonotone
<1>1. ASSUME NEW codes \in Reports, Arrive(codes) \/ \E x \in Hours : Restate(x, codes)
      PROVE  SeenBy(g, Month(h))'
  <2>1. Grown
    BY <1>1, ReportCases
  <2>2. SeenBy(g, Month(h)) /\ \A x \in Hours : report[x] \subseteq report'[x]
    BY <2>1 DEF Grown, EvidenceInv
  <2> QED BY <1>m, <2>2, SeenByGrows
<1>2. ASSUME UNCHANGED <<report, flagged, declared>>
      PROVE  SeenBy(g, Month(h))'
  <2>1. SeenBy(g, Month(h))
    BY <1>2 DEF EvidenceInv
  <2> QED BY <1>2, <2>1 DEF SeenBy, HoursIn, Present
<1>3. CASE Build \/ BuildFull
  <2>1. report' = report /\ declared' = declared
    BY <1>3, BuildCases
  <2>2. SeenBy(g, Month(h))
    <3>1. \/ h <= clock /\ Built(h)
          \/ h > clock /\ flagged'[h] = {}
          \/ h <= edge - Lookback /\ flagged'[h] = flagged[h]
      BY <1>3, BuildCases
    <3>2. CASE Built(h)
      BY <2>1, <3>2, AbsentMember DEF Built
    <3>3. CASE flagged'[h] = flagged[h]
      BY <2>1, <3>3 DEF EvidenceInv
    <3> QED BY <3>1, <3>2, <3>3
  <2> QED BY <2>1, <2>2 DEF SeenBy, HoursIn, Present
<1> QED BY <1>1, <1>2, <1>3 DEF Next, vars, Retire

\* Whatever night the fact recorded it on, an absence of a group that is not
\* declared has a month behind it, not after the hour's own, in which the group
\* reported in the floor's number of distinct hours.
THEOREM BlipsFlagNothing == Spec => []FlagsHaveEvidence
<1>1. Init => EvidenceInv
  BY DEF Init, EvidenceInv
<1>2. TypeInv /\ EvidenceInv => FlagsHaveEvidence
  <2> SUFFICES ASSUME TypeInv, EvidenceInv, NEW h \in Hours, NEW g \in flagged[h] \ declared
               PROVE  \E m \in 0..Month(h) :
                        Cardinality({k \in Hours : Month(k) = m /\ \E c \in report[k] : GroupOf[c] = g}) >= Floor
    BY DEF FlagsHaveEvidence
  <2>1. PICK m \in Months : m <= Month(h) /\ HoursIn(g, m) >= Floor
    BY DEF EvidenceInv, SeenBy
  <2>2. {k \in Hours : Month(k) = m /\ g \in Present(k)}
          = {k \in Hours : Month(k) = m /\ \E c \in report[k] : GroupOf[c] = g}
    BY DEF Present
  <2>3. m \in 0..Month(h)
    BY <2>1, MonthsTyped, MonthMonotone, ConstantsTyped
  <2> QED BY <2>1, <2>2, <2>3 DEF HoursIn
<1> QED BY <1>1, <1>2, TypeInit, TypeStep, EvidenceStep, PTL DEF Spec

-----------------------------------------------------------------------------
(* Flags that are out of date. *)

Outdated(h, g) == ~(g \in flagged[h] <=> g \in Absent(Expected, h))

Explained(h, g) ==
  \/ retired[g] # Never /\ Month(h) >= retired[g]
  \/ FirstSeen(g) = {Month(h)} /\ g \in Absent(Expected, h) /\ h <= edge - Lookback

StaleInv == \A h \in Hours, g \in Groups : Settled(h) /\ Outdated(h, g) => Explained(h, g)

\* A report for a later hour leaves the months before a settled hour alone.
LEMMA EarlierMonthsStay ==
  ASSUME TypeInv, Grown, NEW h \in Hours, h <= edge - Lookback,
         NEW g, NEW n \in Months, n < Month(h)
  PROVE  HoursIn(g, n)' = HoursIn(g, n)
<1>1. ASSUME NEW x \in Hours, Month(x) = n
      PROVE  report'[x] = report[x]
  <2>1. x <= h
    <3>1. x \in Nat /\ h \in Nat /\ Month(x) \in Nat /\ Month(h) \in Nat
      BY ConstantsTyped, MonthMonotone
    <3>2. ~(h <= x)
      BY <1>1, <3>1, MonthMonotone
    <3> QED BY <3>1, <3>2
  <2>2. x <= edge - Lookback
    BY <2>1, ConstantsTyped DEF TypeInv, TypeOK
  <2> QED BY <2>2 DEF Grown
<1>2. {x \in Hours : Month(x) = n /\ g \in {GroupOf[c] : c \in report'[x]}}
        = {x \in Hours : Month(x) = n /\ g \in Present(x)}
  BY <1>1 DEF Present
<1> QED BY <1>2 DEF HoursIn, Present

\* Where a group is seen by now and was not, it was first seen this month.
LEMMA NewlySeen ==
  ASSUME TypeInv, Grown, NEW h \in Hours, h <= edge - Lookback, NEW g,
         \/ FirstSeen(g) = {Month(h)}
         \/ ~SeenBy(g, Month(h)) /\ SeenBy(g, Month(h))'
  PROVE  FirstSeen(g)' = {Month(h)}
<1> DEFINE m == Month(h)
<1>m. m \in Months /\ m \in Nat /\ Months \subseteq Nat /\ Floor \in Nat
  BY MonthMonotone, MonthsTyped, ConstantsTyped
<1>t. \A n \in Months : HoursIn(g, n) \in Nat /\ HoursIn(g, n)' \in Nat
  <2>1. \A n \in Months : HoursIn(g, n) \in Nat
    BY HoursInTyped
  <2>2. ASSUME NEW n \in Months PROVE HoursIn(g, n)' \in Nat
    <3>1. IsFiniteSet({x \in Hours : Month(x) = n /\ g \in Present(x)'})
      BY ConstantsTyped, FS_Subset
    <3> QED BY <3>1, FS_CardinalityType DEF HoursIn
  <2> QED BY <2>1, <2>2
<1>1. \A n \in Months : n < m => HoursIn(g, n)' = HoursIn(g, n)
  BY EarlierMonthsStay
<1>2. HoursIn(g, m) <= HoursIn(g, m)'
  BY HoursInGrows DEF Grown
<1>3. HoursIn(g, m)' >= Floor /\ \A n \in Months : n < m => HoursIn(g, n) < Floor
  <2>1. CASE FirstSeen(g) = {m}
    <3>1. m \in FirstSeen(g)
      BY <2>1
    <3>2. HoursIn(g, m) >= Floor /\ \A n \in Months : n < m => HoursIn(g, n) < Floor
      BY <3>1 DEF FirstSeen
    <3>3. HoursIn(g, m) \in Nat /\ HoursIn(g, m)' \in Nat
      BY <1>t, <1>m
    <3> HIDE DEF m
    <3> QED BY <1>m, <1>2, <3>2, <3>3
  <2>2. CASE ~SeenBy(g, m) /\ SeenBy(g, m)'
    <3>1. PICK n \in Months : n <= m /\ HoursIn(g, n)' >= Floor
      BY <2>2 DEF SeenBy
    <3>2. ASSUME NEW k \in Months, k <= m PROVE HoursIn(g, k) < Floor
      <4>1. ~(HoursIn(g, k) >= Floor)
        BY <2>2, <3>2 DEF SeenBy
      <4> QED BY <1>t, <1>m, <4>1
    <3>3. ~(n < m)
      <4>1. HoursIn(g, n) < Floor /\ HoursIn(g, n) \in Nat
        BY <1>t, <3>1, <3>2
      <4>2. ~(HoursIn(g, n) >= Floor)
        BY <1>m, <4>1
      <4> QED BY <1>1, <3>1, <4>2
    <3>4. n \in Nat /\ \A k \in Months : k \in Nat
      BY <1>m
    <3>5. n = m
      BY <1>m, <3>1, <3>3, <3>4
    <3>6. \A k \in Months : k < m => HoursIn(g, k) < Floor
      BY <1>m, <3>2, <3>4
    <3> QED BY <3>1, <3>5, <3>6
  <2> QED BY <2>1, <2>2
<1>4. \A n \in Months : n < m => HoursIn(g, n)' < Floor
  BY <1>1, <1>3
<1>5. ASSUME NEW n \in Months, HoursIn(g, n)' >= Floor, \A k \in Months : k < n => HoursIn(g, k)' < Floor
      PROVE  n = m
  <2>1. ~(n < m)
    BY <1>4, <1>5, <1>t, <1>m
  <2>2. ~(m < n)
    BY <1>3, <1>5, <1>t, <1>m
  <2>3. n \in Nat
    BY <1>m
  <2> HIDE DEF m
  <2> QED BY <2>1, <2>2, <2>3, <1>m
<1> HIDE DEF m
<1>6. FirstSeen(g)' = {m}
  BY <1>3, <1>4, <1>5, <1>m DEF FirstSeen
<1> QED BY <1>6 DEF m

\* A report makes a settled hour's flags out of date only for a group that it
\* makes expected, and then the group is first seen in that month.
LEMMA StaleReport ==
  ASSUME TypeInv, StaleInv, Grown,
         NEW h \in Hours, NEW g \in Groups, Settled(h)', Outdated(h, g)'
  PROVE  Explained(h, g)'
<1>1. /\ h <= edge - Lookback /\ Settled(h)
      /\ report'[h] = report[h] /\ flagged'[h] = flagged[h]
  BY SettledReport
<1>2. /\ declared' = declared /\ retired' = retired /\ edge' = edge
      /\ \A x \in Hours : report[x] \subseteq report'[x]
  BY DEF Grown
<1>3. Present(h)' = Present(h) /\ InContract(g, Month(h))' = InContract(g, Month(h))
  BY <1>1, <1>2 DEF Present, InContract
<1>m. Month(h) \in Months /\ Month(h) <= Month(h)
  BY MonthMonotone, ConstantsTyped
<1>4. SeenBy(g, Month(h)) => SeenBy(g, Month(h))'
  BY <1>2, <1>m, SeenByGrows
<1>5. CASE g \in Absent(Expected, h)' <=> g \in Absent(Expected, h)
  <2>1. Outdated(h, g)
    BY <1>1, <1>5 DEF Outdated
  <2>2. Explained(h, g)
    BY <1>1, <2>1 DEF StaleInv
  <2>3. CASE retired[g] # Never /\ Month(h) >= retired[g]
    BY <1>2, <2>3 DEF Explained
  <2>4. CASE FirstSeen(g) = {Month(h)} /\ g \in Absent(Expected, h) /\ h <= edge - Lookback
    <3>1. FirstSeen(g)' = {Month(h)}
      BY <1>1, <2>4, NewlySeen
    <3> QED BY <1>2, <1>5, <2>4, <3>1 DEF Explained
  <2> QED BY <2>2, <2>3, <2>4 DEF Explained
<1>6. CASE ~(g \in Absent(Expected, h)' <=> g \in Absent(Expected, h))
  <2>1. ~SeenBy(g, Month(h)) /\ SeenBy(g, Month(h))' /\ g \in Absent(Expected, h)'
    BY <1>1, <1>2, <1>3, <1>4, <1>6, AbsentMember, AbsentMemberNext
  <2>2. FirstSeen(g)' = {Month(h)}
    BY <1>1, <2>1, NewlySeen
  <2> QED BY <1>1, <1>2, <2>1, <2>2 DEF Explained
<1> QED BY <1>5, <1>6

\* A retirement changes what is expected of its group from its month on.
LEMMA StaleRetire ==
  ASSUME TypeInv, StaleInv, NEW k \in Groups, NEW m \in Months, Retire(k, m),
         NEW h \in Hours, NEW g \in Groups, Settled(h)', Outdated(h, g)'
  PROVE  Explained(h, g)'
<1>1. /\ UNCHANGED <<clock, report, declared, edge, flagged>>
      /\ retired[k] = Never /\ retired' = [retired EXCEPT ![k] = m] /\ current' = FALSE
  BY DEF Retire
<1>2. retired \in [Groups -> Months \union {Never}] /\ m # Never /\ m \in Nat /\ Month(h) \in Nat
  BY ConstantsTyped, MonthsTyped, MonthMonotone DEF TypeInv, TypeOK
<1>3. Settled(h)
  BY <1>1 DEF Settled
<1>4. FirstSeen(g)' = FirstSeen(g) /\ Present(h)' = Present(h) /\ SeenBy(g, Month(h))' = SeenBy(g, Month(h))
  BY <1>1 DEF FirstSeen, HoursIn, Present, SeenBy
<1>5. CASE g = k /\ Month(h) >= m
  BY <1>1, <1>2, <1>5 DEF Explained
<1>6. CASE ~(g = k /\ Month(h) >= m)
  <2>1. InContract(g, Month(h))' <=> InContract(g, Month(h))
    <3>1. CASE g # k
      BY <1>1, <1>2, <3>1 DEF InContract
    <3>2. CASE g = k
      <4>1. retired'[g] = m /\ Month(h) < m
        BY <1>1, <1>2, <1>6, <3>2
      <4> QED BY <1>1, <3>2, <4>1 DEF InContract
    <3> QED BY <3>1, <3>2
  <2>2. g \in Absent(Expected, h)' <=> g \in Absent(Expected, h)
    BY <1>1, <1>4, <2>1, AbsentMember, AbsentMemberNext
  <2>3. Explained(h, g)
    BY <1>1, <1>3, <2>2 DEF Outdated, StaleInv
  <2>4. CASE retired[g] # Never /\ Month(h) >= retired[g]
    <3>1. retired'[g] = retired[g]
      BY <1>1, <1>2, <2>4
    <3> QED BY <2>4, <3>1 DEF Explained
  <2>5. CASE FirstSeen(g) = {Month(h)} /\ g \in Absent(Expected, h) /\ h <= edge - Lookback
    BY <1>1, <1>4, <2>2, <2>5 DEF Explained
  <2> QED BY <2>3, <2>4, <2>5 DEF Explained
<1> QED BY <1>5, <1>6

LEMMA StaleStep == TypeInv /\ StaleInv /\ [Next]_vars => StaleInv'
<1> SUFFICES ASSUME TypeInv, StaleInv, [Next]_vars,
                    NEW h \in Hours, NEW g \in Groups, Settled(h)', Outdated(h, g)'
             PROVE  Explained(h, g)'
  BY DEF StaleInv
<1>1. ASSUME NEW codes \in Reports, Arrive(codes) \/ \E x \in Hours : Restate(x, codes)
      PROVE  Explained(h, g)'
  BY <1>1, ReportCases, StaleReport
<1>2. ASSUME NEW k \in Groups, NEW m \in Months, Retire(k, m)
      PROVE  Explained(h, g)'
  BY <1>2, StaleRetire
<1>3. CASE Build \/ BuildFull
  <2>1. UNCHANGED <<clock, report, declared, retired, restated>> /\ edge' = clock
    BY <1>3, BuildCases
  <2>2. /\ g \in Absent(Expected, h)' <=> g \in Absent(Expected, h)
        /\ FirstSeen(g)' = FirstSeen(g)
    BY <2>1 DEF Absent, Expected, WarehouseMonths, SeenBy, InContract, FirstSeen, HoursIn, Present
  <2>3. CASE Built(h)
    BY <2>2, <2>3 DEF Built, Outdated
  <2>4. CASE h <= edge - Lookback /\ Settled(h) /\ flagged'[h] = flagged[h]
    <3>1. Explained(h, g)
      BY <2>2, <2>4 DEF Outdated, StaleInv
    <3>2. h <= edge' - Lookback
      BY <2>1, <2>4, ConstantsTyped DEF TypeInv, TypeOK
    <3> QED BY <2>1, <2>2, <3>1, <3>2 DEF Explained
  <2> QED BY <1>3, <2>3, <2>4, SettledBuild
<1>4. CASE UNCHANGED vars
  <2>1. UNCHANGED <<clock, report, declared, retired, edge, flagged, current>>
    BY <1>4 DEF vars
  <2>2. /\ g \in Absent(Expected, h)' <=> g \in Absent(Expected, h)
        /\ FirstSeen(g)' = FirstSeen(g)
    BY <2>1 DEF Absent, Expected, WarehouseMonths, SeenBy, InContract, FirstSeen, HoursIn, Present
  <2>3. Settled(h) /\ Outdated(h, g)
    BY <2>1, <2>2 DEF Settled, Outdated
  <2> QED BY <2>1, <2>2, <2>3 DEF StaleInv, Explained
<1> QED BY <1>1, <1>2, <1>3, <1>4 DEF Next

\* After a build a row's flags are out of date only from the month its group was
\* retired, or in the month in which the group was first seen, for an hour that no
\* build writes again.
THEOREM StaleFlagsHaveAReason == Spec => []StaleFlagsAreExplained
<1>1. Init => StaleInv
  BY NothingSettled DEF StaleInv
<1>2. TypeInv /\ StaleInv => StaleFlagsAreExplained
  <2> SUFFICES ASSUME TypeInv, StaleInv, current, NEW h \in 1..clock,
                      NEW g \in (flagged[h] \union Absent(Expected, h)) \ (flagged[h] \cap Absent(Expected, h))
               PROVE  Explained(h, g)
    BY DEF StaleFlagsAreExplained, Explained
  <2>1. h \in Hours /\ h <= clock
    BY ConstantsTyped DEF TypeInv, TypeOK, Hours
  <2>2. g \in Groups /\ Outdated(h, g)
    BY <2>1, AbsentTyped DEF TypeInv, TypeOK, Outdated
  <2> QED BY <2>1, <2>2 DEF StaleInv, Settled
<1> QED BY <1>1, <1>2, TypeInit, TypeStep, StaleStep, PTL DEF Spec
=============================================================================
