-------------------------- MODULE ProvenanceProofs --------------------------
(***************************************************************************)
(* Theorems about module Provenance, for any processes, databases, paths   *)
(* and command lines.                                                      *)
(*                                                                         *)
(* The guard looks at a database once, when a command starts.  What makes  *)
(* one look enough is that whoever could change the verdict afterwards is  *)
(* kept out: of a local file by DuckDB's lock, of a cloud database by the  *)
(* refusal to load fixtures there.                                         *)
(***************************************************************************)
EXTENDS Provenance, TLAPS

\* A process that has a database open.
Active(p) == ~Idle(p) /\ ~Generating(p)

Places == {"idle", "load", "mark", "meta", "wipe", "pages",
           "unlink", "write", "fct", "marts", "draw", "export"}

-----------------------------------------------------------------------------
(* Types, with the range of the loop counter at each place. *)

Counters ==
  \A p \in Procs :
    \/ k[p] = 1
    \/ k[p] = 2 /\ pc[p] \in {"load", "mark", "write", "wipe"}
    \/ k[p] \in {3, 4} /\ pc[p] = "wipe"

TypeInv == TypeOK /\ Counters

LEMMA ConstantsTyped ==
  /\ MaxEra \in Nat /\ MaxEra >= 1 /\ Generated \in 0..MaxEra
  /\ DbOf \in [Paths -> Databases] /\ RealPath \in Paths /\ DevPath \in Paths
  /\ DotEnvs \subseteq Paths \union {Unset}
  /\ \A c \in CommandLines : c[1] \in Modes /\ c[2] \in Paths \union {Unset}
  /\ TableSet = {Tables[1], Tables[2]} /\ Tables[1] # Tables[2]
BY ProvenanceAssumption DEF ProvenanceAssumption, Tables, TableSet

\* A table is one of the two that the counter runs over.
LEMMA TableTyped ==
  ASSUME TypeInv, NEW p \in Procs, pc[p] \in {"load", "mark", "write"}
  PROVE  /\ k[p] \in {1, 2} /\ Table(p) \in TableSet /\ PageTable(p) \in TableSet
         /\ Tables[k[p]] = Table(p)
<1>1. k[p] \in {1, 2}
  BY DEF TypeInv, Counters
<1> QED BY <1>1, ConstantsTyped DEF Table, PageTable

\* Whatever GRID_DB_PATH and .env say, a command opens one of the paths.
LEMMA PathTyped ==
  ASSUME TypeInv, NEW c \in CommandLines
  PROVE  /\ ResolveDbPath(c[1], c[2]) \in Paths
         /\ DbOf[ResolveDbPath(c[1], c[2])] \in Databases
<1>1. dotenv \in Paths \union {Unset}
  BY ConstantsTyped DEF TypeInv, TypeOK
<1>2. Env(c[1], c[2]) \in Paths \union {Unset}
  BY <1>1, ConstantsTyped DEF Env
<1> QED BY <1>2, ConstantsTyped DEF ResolveDbPath

\* What End leaves behind.
LEMMA EndTyped ==
  ASSUME TypeInv, NEW p \in Procs, End(p)
  PROVE  /\ pc' \in [Procs -> Places] /\ mode' \in [Procs -> Modes]
         /\ db' \in [Procs -> Databases] /\ k' \in [Procs -> 1..4]
         /\ Counters' /\ emptied' \subseteq Databases
<1>0. emptied' \subseteq Databases
  BY DEF TypeInv, TypeOK, End
<1>1. /\ pc' \in [Procs -> Places] /\ mode' \in [Procs -> Modes]
      /\ db' \in [Procs -> Databases] /\ k' \in [Procs -> 1..4]
  BY ConstantsTyped DEF TypeInv, TypeOK, End, Goto, Places, Modes
<1>2. k'[p] = 1 /\ pc'[p] = "idle"
  BY DEF TypeInv, TypeOK, End, Goto
<1>3. \A q \in Procs \ {p} : k'[q] = k[q] /\ pc'[q] = pc[q]
  BY DEF TypeInv, TypeOK, End, Goto
<1> QED BY <1>0, <1>1, <1>2, <1>3 DEF TypeInv, Counters

LEMMA NextTableTyped ==
  ASSUME TypeInv, NEW p \in Procs, pc[p] \in {"load", "mark"},
         NEW after \in {"mark", "meta"}, NextTable(p, after)
  PROVE  /\ pc' \in [Procs -> Places] /\ mode' \in [Procs -> Modes]
         /\ db' \in [Procs -> Databases] /\ k' \in [Procs -> 1..4]
         /\ Counters' /\ emptied' \subseteq Databases
<1>0. emptied' \subseteq Databases
  BY DEF TypeInv, TypeOK, NextTable
<1>1. /\ pc' \in [Procs -> Places] /\ mode' \in [Procs -> Modes]
      /\ db' \in [Procs -> Databases] /\ k' \in [Procs -> 1..4]
  BY DEF TypeInv, TypeOK, NextTable, Goto, Places
<1>2. k[p] \in {1, 2}
  BY TableTyped
<1>3. /\ k[p] = 1 => k'[p] = 2 /\ pc'[p] = "load"
      /\ k[p] = 2 => k'[p] = 1 /\ pc'[p] = after
  BY DEF TypeInv, TypeOK, NextTable, Goto
<1>4. \A q \in Procs \ {p} : k'[q] = k[q] /\ pc'[q] = pc[q]
  BY DEF TypeInv, TypeOK, NextTable, Goto
<1> QED BY <1>0, <1>1, <1>2, <1>3, <1>4 DEF TypeInv, Counters

\* One entry of a table of tables changes.
LEMMA EntryTyped ==
  ASSUME NEW S, NEW T, NEW V, NEW f \in [S -> [T -> V]], NEW x \in S, NEW y \in T, NEW v \in V
  PROVE  [f EXCEPT ![x][y] = v] \in [S -> [T -> V]]
OBVIOUS

LEMMA FirstTyped ==
  /\ First("real") = "load" /\ First("fixtures") = "wipe"
  /\ First("build") = "fct" /\ First("rebuild") = "fct"
  /\ First("charts") = "draw" /\ First("publish") = "export"
<1>1. First("real") = "load"
  BY Zenon DEF First
<1> QED BY DEF First

LEMMA TypeInit == Init => TypeInv
<1> SUFFICES ASSUME Init PROVE TypeInv
  OBVIOUS
<1> USE ConstantsTyped
<1>1. /\ raw \in [Databases -> [TableSet -> SUBSET Sources]]
      /\ gens \in [Databases -> [TableSet -> SUBSET (1..MaxEra)]]
      /\ marks \in [Databases -> [TableSet -> {"none", "eia_api", "dev_fixtures"}]]
  BY DEF Init, Sources
<1>2. /\ meta \in [Databases -> {"none", "eia_api", "dev_fixtures"}]
      /\ fct \in [Databases -> SUBSET Sources] /\ marts \in [Databases -> SUBSET Sources]
      /\ disk \in [TableSet -> 0..Torn] /\ era \in 0..MaxEra /\ dotenv \in DotEnvs
  BY DEF Init, Torn
<1>3. /\ chart \in [OutDirs -> [clean : BOOLEAN, shows : SUBSET Sources, of : Databases]]
      /\ published \in SUBSET Sources /\ emptied \subseteq Databases
  BY DEF Init
<1>4. /\ pc \in [Procs -> Places] /\ mode \in [Procs -> Modes]
      /\ db \in [Procs -> Databases] /\ k \in [Procs -> 1..4] /\ Counters
  BY DEF Init, Modes, Places, Counters
<1> QED BY <1>1, <1>2, <1>3, <1>4 DEF TypeInv, TypeOK, Places

\* A step of p that moves only p.
Moved(p) ==
  /\ pc' \in [Procs -> Places] /\ mode' \in [Procs -> Modes]
  /\ db' \in [Procs -> Databases] /\ k' \in [Procs -> 1..4]
  /\ Counters' /\ emptied' \subseteq Databases

LEMMA TypeStep == TypeInv /\ [Next]_vars => TypeInv'
<1> SUFFICES ASSUME TypeInv, [Next]_vars PROVE TypeInv'
  OBVIOUS
<1> USE ConstantsTyped DEF tables, pages
<1>1. ASSUME NEW p \in Procs, NEW c \in CommandLines, Start(p, c[1], c[2]) PROVE TypeInv'
  <2>1. First(c[1]) \in {"load", "wipe", "fct", "draw", "export"}
    BY FirstTyped DEF Modes
  <2>2. DbOf[ResolveDbPath(c[1], c[2])] \in Databases /\ c[1] \in Modes
    BY PathTyped
  <2>3. Moved(p)
    BY <1>1, <2>1, <2>2 DEF Start, Goto, TypeInv, TypeOK, Counters, Places, Moved
  <2> QED BY <1>1, <2>3 DEF Start, TypeInv, TypeOK, Places, Moved
<1>2. ASSUME NEW p \in Procs, Generate(p) PROVE TypeInv'
  <2>1. Moved(p)
    BY <1>2 DEF Generate, Idle, Goto, TypeInv, TypeOK, Counters, Places, Moved
  <2>2. era' \in 0..MaxEra
    BY <1>2 DEF Generate, TypeInv, TypeOK
  <2> QED BY <1>2, <2>1, <2>2 DEF Generate, TypeInv, TypeOK, Places, Moved
<1>3. ASSUME NEW p \in Procs, Unlink(p) PROVE TypeInv'
  <2>1. Moved(p)
    <3>1. pc[p] = "unlink" /\ pc' \in {pc, [pc EXCEPT ![p] = "write"]} /\ UNCHANGED <<mode, db, k, emptied>>
      BY <1>3 DEF Unlink, Goto
    <3> QED BY <3>1 DEF TypeInv, TypeOK, Counters, Places, Moved
  <2>2. disk' \in [TableSet -> 0..Torn]
    BY <1>3 DEF Unlink, TypeInv, TypeOK, Torn
  <2> QED BY <1>3, <2>1, <2>2 DEF Unlink, TypeInv, TypeOK, Places, Moved
<1>4. ASSUME NEW p \in Procs, WritePages(p) PROVE TypeInv'
  <2>1. Moved(p)
    <3>1. CASE k[p] = 1 /\ k' = [k EXCEPT ![p] = 2] /\ UNCHANGED <<pc, mode, db, emptied>>
      BY <1>4, <3>1 DEF WritePages, TypeInv, TypeOK, Counters, Places, Moved
    <3> QED BY <1>4, <3>1, EndTyped DEF WritePages, Moved
  <2>2. disk' \in [TableSet -> 0..Torn]
    <3>1. disk \in [TableSet -> 0..Torn] /\ era \in 0..Torn
      BY DEF TypeInv, TypeOK, Torn
    <3> QED BY <1>4, <3>1 DEF WritePages
  <2> QED BY <1>4, <2>1, <2>2 DEF WritePages, TypeInv, TypeOK, Places, Moved
<1>5. ASSUME NEW p \in Procs, LoadReal(p) PROVE TypeInv'
  <2>1. Moved(p)
    <3>1. CASE Goto(p, "mark") /\ UNCHANGED <<mode, db, k, emptied>>
      BY <1>5, <3>1 DEF LoadReal, Goto, TypeInv, TypeOK, Counters, Places, Moved
    <3> QED BY <1>5, <3>1, NextTableTyped DEF LoadReal, Moved
  <2>2. raw' \in [Databases -> [TableSet -> SUBSET Sources]]
    <3>1. raw \in [Databases -> [TableSet -> SUBSET Sources]] /\ db[p] \in Databases
      BY DEF TypeInv, TypeOK
    <3>2. Table(p) \in TableSet
      BY <1>5, TableTyped DEF LoadReal
    <3>3. CASE raw' = raw
      BY <3>1, <3>3
    <3>4. CASE raw' = [raw EXCEPT ![db[p]][Table(p)] = @ \union {"eia_api"}]
      <4>1. raw[db[p]][Table(p)] \union {"eia_api"} \in SUBSET Sources
        BY <3>1, <3>2 DEF Sources
      <4>2. PICK rows \in SUBSET Sources : rows = raw[db[p]][Table(p)] \union {"eia_api"}
        BY <4>1
      <4>3. raw' = [raw EXCEPT ![db[p]][Table(p)] = rows]
        BY <3>1, <3>2, <3>4, <4>2
      <4>4. [raw EXCEPT ![db[p]][Table(p)] = rows] \in [Databases -> [TableSet -> SUBSET Sources]]
        BY <3>1, <3>2, EntryTyped, Zenon
      <4> QED BY <4>3, <4>4, Zenon
    <3> QED BY <1>5, <3>3, <3>4 DEF LoadReal
  <2> QED BY <1>5, <2>1, <2>2 DEF LoadReal, TypeInv, TypeOK, Places, Moved
<1>6. ASSUME NEW p \in Procs, MarkReal(p) PROVE TypeInv'
  <2>1. Moved(p)
    BY <1>6, NextTableTyped DEF MarkReal, Moved
  <2>2. marks' \in [Databases -> [TableSet -> {"none", "eia_api", "dev_fixtures"}]]
    <3>1. Table(p) \in TableSet /\ db[p] \in Databases
      BY <1>6, TableTyped DEF MarkReal, TypeInv, TypeOK
    <3>2. marks[db[p]][Table(p)] \in {"none", "eia_api", "dev_fixtures"}
      BY <3>1 DEF TypeInv, TypeOK
    <3>3. PICK m \in {"none", "eia_api", "dev_fixtures"} :
            marks' = [marks EXCEPT ![db[p]][Table(p)] = m]
      BY <1>6, <3>2 DEF MarkReal
    <3>4. marks \in [Databases -> [TableSet -> {"none", "eia_api", "dev_fixtures"}]]
      BY DEF TypeInv, TypeOK
    <3> QED BY <3>1, <3>3, <3>4, EntryTyped
  <2> QED BY <1>6, <2>1, <2>2 DEF MarkReal, TypeInv, TypeOK, Places, Moved
<1>7. ASSUME NEW p \in Procs, StampMeta(p) PROVE TypeInv'
  <2>1. Moved(p)
    BY <1>7, EndTyped DEF StampMeta, Moved
  <2>2. meta' \in [Databases -> {"none", "eia_api", "dev_fixtures"}]
    BY <1>7 DEF StampMeta, TypeInv, TypeOK
  <2> QED BY <1>7, <2>1, <2>2 DEF StampMeta, TypeInv, TypeOK, Places, Moved
<1>8. ASSUME NEW p \in Procs, Wipe(p) PROVE TypeInv'
  <2>1. Moved(p)
    <3>1. /\ pc' = [pc EXCEPT ![p] = IF k[p] = 4 THEN "pages" ELSE "wipe"]
          /\ k' = [k EXCEPT ![p] = IF k[p] = 4 THEN 1 ELSE k[p] + 1]
          /\ UNCHANGED <<mode, db, emptied>>
      BY <1>8 DEF Wipe, Goto
    <3>2. k[p] \in 1..4 /\ pc[p] = "wipe" /\ pc \in [Procs -> Places] /\ k \in [Procs -> 1..4]
      BY <1>8 DEF Wipe, TypeInv, TypeOK, Places
    <3>3. pc' \in [Procs -> Places] /\ k' \in [Procs -> 1..4]
      BY <3>1, <3>2 DEF Places
    <3>4. Counters'
      BY <3>1, <3>2 DEF TypeInv, Counters
    <3> QED BY <3>1, <3>3, <3>4 DEF TypeInv, TypeOK, Moved
  <2>2. db[p] \in Databases
    BY DEF TypeInv, TypeOK
  <2>3. raw' \in [Databases -> [TableSet -> SUBSET Sources]]
    BY <1>8, <2>2 DEF Wipe, TypeInv, TypeOK
  <2>4. gens' \in [Databases -> [TableSet -> SUBSET (1..MaxEra)]]
    BY <1>8, <2>2 DEF Wipe, TypeInv, TypeOK
  <2>5. marks' \in [Databases -> [TableSet -> {"none", "eia_api", "dev_fixtures"}]]
    BY <1>8, <2>2 DEF Wipe, TypeInv, TypeOK
  <2>6. meta' \in [Databases -> {"none", "eia_api", "dev_fixtures"}]
    BY <1>8 DEF Wipe, TypeInv, TypeOK
  <2> QED BY <1>8, <2>1, <2>3, <2>4, <2>5, <2>6 DEF Wipe, TypeInv, TypeOK, Places, Moved
<1>9. ASSUME NEW p \in Procs, ListPages(p) PROVE TypeInv'
  <2>1. Moved(p)
    <3>1. CASE Goto(p, "load") /\ UNCHANGED <<mode, db, k, emptied>>
      BY <1>9, <3>1 DEF ListPages, Goto, TypeInv, TypeOK, Counters, Places, Moved
    <3> QED BY <1>9, <3>1, EndTyped DEF ListPages, Moved
  <2> QED BY <1>9, <2>1 DEF ListPages, TypeInv, TypeOK, Places, Moved
<1>10. ASSUME NEW p \in Procs, TornPage(p) PROVE TypeInv'
  BY <1>10, EndTyped DEF TornPage, TypeInv, TypeOK, Places
<1>11. ASSUME NEW p \in Procs, LoadPages(p) PROVE TypeInv'
  <2>1. Moved(p)
    BY <1>11, NextTableTyped DEF LoadPages, Moved
  <2>2. /\ PageTable(p) \in TableSet /\ db[p] \in Databases
        /\ raw \in [Databases -> [TableSet -> SUBSET Sources]]
        /\ gens \in [Databases -> [TableSet -> SUBSET (1..MaxEra)]]
    BY <1>11, TableTyped DEF LoadPages, TypeInv, TypeOK
  <2>3. raw' \in [Databases -> [TableSet -> SUBSET Sources]]
    <3>1. raw[db[p]][PageTable(p)] \union {"dev_fixtures"} \in SUBSET Sources
      BY <2>2 DEF Sources
    <3>2. PICK rows \in SUBSET Sources : rows = raw[db[p]][PageTable(p)] \union {"dev_fixtures"}
      BY <3>1
    <3>3. raw' = raw \/ raw' = [raw EXCEPT ![db[p]][PageTable(p)] = rows]
      BY <1>11, <3>2 DEF LoadPages
    <3>4. [raw EXCEPT ![db[p]][PageTable(p)] = rows] \in [Databases -> [TableSet -> SUBSET Sources]]
      BY <2>2, EntryTyped, Zenon
    <3> QED BY <2>2, <3>3, <3>4, Zenon
  <2>4. gens' \in [Databases -> [TableSet -> SUBSET (1..MaxEra)]]
    <3>1. disk[PageTable(p)] \in 0..Torn /\ disk[PageTable(p)] # Torn
      BY <1>11, <2>2 DEF LoadPages, TypeInv, TypeOK
    <3>2. {disk[PageTable(p)]} \ {0} \subseteq 1..MaxEra
      BY <3>1 DEF Torn
    <3>3. gens[db[p]][PageTable(p)] \union ({disk[PageTable(p)]} \ {0}) \in SUBSET (1..MaxEra)
      BY <2>2, <3>2
    <3>4. PICK g \in SUBSET (1..MaxEra) :
            g = gens[db[p]][PageTable(p)] \union ({disk[PageTable(p)]} \ {0})
      BY <3>3
    <3>5. gens' = [gens EXCEPT ![db[p]][PageTable(p)] = g]
      BY <1>11, <3>4 DEF LoadPages
    <3>6. [gens EXCEPT ![db[p]][PageTable(p)] = g]
            \in [Databases -> [TableSet -> SUBSET (1..MaxEra)]]
      BY <2>2, EntryTyped, Zenon
    <3> QED BY <3>5, <3>6, Zenon
  <2> QED BY <1>11, <2>1, <2>3, <2>4 DEF LoadPages, TypeInv, TypeOK, Places, Moved
<1>12. ASSUME NEW p \in Procs, MarkFixtures(p) PROVE TypeInv'
  <2>1. Moved(p)
    BY <1>12, TableTyped DEF MarkFixtures, Goto, TypeInv, TypeOK, Counters, Places, Moved
  <2>2. marks' \in [Databases -> [TableSet -> {"none", "eia_api", "dev_fixtures"}]]
    BY <1>12 DEF MarkFixtures, TypeInv, TypeOK
  <2> QED BY <1>12, <2>1, <2>2 DEF MarkFixtures, TypeInv, TypeOK, Places, Moved
<1>13. ASSUME NEW p \in Procs, BuildFct(p) PROVE TypeInv'
  <2>1. Moved(p)
    BY <1>13 DEF BuildFct, Goto, TypeInv, TypeOK, Counters, Places, Moved
  <2>2. RawSources(db[p]) \subseteq Sources /\ fct[db[p]] \subseteq Sources
    BY DEF RawSources, TypeInv, TypeOK, TableSet
  <2>3. fct' \in [Databases -> SUBSET Sources]
    BY <1>13, <2>2 DEF BuildFct, TypeInv, TypeOK
  <2> QED BY <1>13, <2>1, <2>3 DEF BuildFct, TypeInv, TypeOK, Places, Moved
<1>14. ASSUME NEW p \in Procs, BuildMarts(p) PROVE TypeInv'
  <2>1. Moved(p)
    BY <1>14, EndTyped DEF BuildMarts, Moved
  <2>2. marts' \in [Databases -> SUBSET Sources]
    BY <1>14 DEF BuildMarts, TypeInv, TypeOK
  <2> QED BY <1>14, <2>1, <2>2 DEF BuildMarts, TypeInv, TypeOK, Places, Moved
<1>15. ASSUME NEW p \in Procs, Draw(p) PROVE TypeInv'
  <2>1. Moved(p)
    BY <1>15, EndTyped DEF Draw, Moved
  <2>2. chart' \in [OutDirs -> [clean : BOOLEAN, shows : SUBSET Sources, of : Databases]]
    <3>1. marts[db[p]] \in SUBSET Sources /\ db[p] \in Databases /\ (Verdict(db[p]) = "real") \in BOOLEAN
      BY DEF TypeInv, TypeOK
    <3> QED BY <1>15, <3>1 DEF Draw, TypeInv, TypeOK
  <2> QED BY <1>15, <2>1, <2>2 DEF Draw, TypeInv, TypeOK, Places, Moved
<1>16. ASSUME NEW p \in Procs, Export(p) PROVE TypeInv'
  <2>1. Moved(p)
    BY <1>16, EndTyped DEF Export, Moved
  <2>2. published' \in SUBSET Sources
    BY <1>16 DEF Export, TypeInv, TypeOK
  <2> QED BY <1>16, <2>1, <2>2 DEF Export, TypeInv, TypeOK, Places, Moved
<1>17. ASSUME NEW p \in Procs, Crash(p) PROVE TypeInv'
  <2>1. Moved(p)
    BY <1>17, EndTyped DEF Crash, Moved
  <2>2. disk' \in [TableSet -> 0..Torn]
    BY <1>17 DEF Crash, TypeInv, TypeOK, Torn
  <2> QED BY <1>17, <2>1, <2>2 DEF Crash, TypeInv, TypeOK, Places, Moved
<1>18. CASE UNCHANGED vars
  BY <1>18 DEF vars, TypeInv, TypeOK, Counters
<1> QED BY <1>1, <1>2, <1>3, <1>4, <1>5, <1>6, <1>7, <1>8, <1>9, <1>10, <1>11, <1>12, <1>13,
           <1>14, <1>15, <1>16, <1>17, <1>18 DEF Next, Step

\* The variables always have their types, and a statement counter never runs past
\* its command's tables.
THEOREM TypeCorrect == Spec => []TypeOK
<1>1. TypeInv => TypeOK
  BY DEF TypeInv
<1> QED BY <1>1, TypeInit, TypeStep, PTL DEF Spec

-----------------------------------------------------------------------------
(* What one step of a process may do. *)

\* A command is at a place of its own code.
AtPlace(p) ==
  /\ pc[p] \in {"idle", "unlink", "write"} => mode[p] = "build"
  /\ pc[p] \in {"load", "mark", "meta"} => mode[p] \in {"real", "fixtures"}
  /\ pc[p] \in {"wipe", "pages"} => mode[p] = "fixtures"
  /\ pc[p] \in {"fct", "marts"} => mode[p] \in {"build", "rebuild"}
  /\ pc[p] = "draw" => mode[p] = "charts"
  /\ pc[p] = "export" => mode[p] = "publish"

Others(p) ==
  \A q \in Procs \ {p} : pc'[q] = pc[q] /\ mode'[q] = mode[q] /\ db'[q] = db[q] /\ k'[q] = k[q]

\* It keeps its database and its command until it ends.
Keeps(p) ==
  /\ Others(p) /\ AtPlace(p)'
  /\ Active(p)' => Active(p) /\ mode'[p] = mode[p] /\ db'[p] = db[p]

\* It adds rows of its own kind to its own database; only fixture mode deletes.
Rows(p, d) ==
  \/ raw'[d] = raw[d]
  \/ /\ Active(p) /\ db[p] = d /\ mode[p] = "real"
     /\ RawSources(d) \subseteq RawSources(d)' /\ RawSources(d)' \subseteq RawSources(d) \union {"eia_api"}
  \/ /\ Active(p) /\ db[p] = d /\ mode[p] = "fixtures"
     /\ RawSources(d)' \subseteq RawSources(d) \union {"dev_fixtures"}

\* The same for watermarks.
Watermarks(p, d) ==
  \/ marks'[d] = marks[d]
  \/ /\ Active(p) /\ db[p] = d /\ mode[p] = "real"
     /\ \A t \in TableSet : marks'[d][t] \in {"eia_api", marks[d][t]}
  \/ Active(p) /\ db[p] = d /\ mode[p] = "fixtures"

\* The fact takes from raw, the marts from the fact.
Built(d) ==
  /\ fct'[d] \subseteq fct[d] \union RawSources(d)
  /\ marts'[d] \in {marts[d], fct[d]}

Contained(p) ==
  Keeps(p) /\ \A d \in Databases : Rows(p, d) /\ Watermarks(p, d) /\ Built(d)

LEMMA EndKeeps ==
  ASSUME TypeInv, NEW p \in Procs, End(p)
  PROVE  Keeps(p)
BY DEF TypeInv, TypeOK, End, Goto, Keeps, Others, AtPlace, Active, Idle, Generating

LEMMA NextTableKeeps ==
  ASSUME TypeInv, NEW p \in Procs, AtPlace(p), pc[p] \in {"load", "mark"},
         NEW after \in {"mark", "meta"}, NextTable(p, after)
  PROVE  Keeps(p)
<1>1. pc'[p] \in {"load", "mark", "meta"} /\ mode' = mode /\ db' = db
  BY DEF TypeInv, TypeOK, NextTable, Goto
<1>2. Others(p)
  BY DEF TypeInv, TypeOK, NextTable, Goto, Others
<1> QED BY <1>1, <1>2 DEF Keeps, AtPlace, Active, Idle, Generating

\* A process that stays with its command and goes on to another place of it.
LEMMA GotoKeeps ==
  ASSUME TypeInv, NEW p \in Procs, AtPlace(p), NEW place,
         pc' = [pc EXCEPT ![p] = place], mode' = mode, db' = db,
         \A q \in Procs \ {p} : k'[q] = k[q],
         \/ pc[p] \in {"idle", "unlink"} /\ place \in {"unlink", "write"}
         \/ pc[p] \in {"load", "mark"} /\ place \in {"load", "mark", "meta"}
         \/ pc[p] \in {"wipe", "pages"} /\ place \in {"wipe", "pages", "load"}
         \/ pc[p] = "fct" /\ place = "marts"
  PROVE  Keeps(p)
<1>1. pc'[p] = place /\ Others(p)
  BY DEF TypeInv, TypeOK, Others
<1> QED BY <1>1 DEF Keeps, AtPlace, Active, Idle, Generating

LEMMA StepContained ==
  ASSUME TypeInv, NEW p \in Procs, AtPlace(p), Step(p) \/ Generate(p) \/ Crash(p)
  PROVE  Contained(p)
<1>a. db[p] \in Databases
  BY DEF TypeInv, TypeOK
<1>b. ASSUME tables' = tables, Keeps(p) PROVE Contained(p)
  BY <1>b DEF tables, Contained, Rows, Watermarks, Built
<1>1. CASE LoadReal(p)
  <2>1. Keeps(p)
    <3>1. CASE Goto(p, "mark") /\ UNCHANGED <<mode, db, k, emptied>>
      BY <1>1, <3>1, GotoKeeps DEF LoadReal, Goto
    <3> QED BY <1>1, <3>1, NextTableKeeps DEF LoadReal
  <2>2. ASSUME NEW d \in Databases PROVE Rows(p, d)
    <3>1. CASE raw' = [raw EXCEPT ![db[p]][Table(p)] = @ \union {"eia_api"}]
      <4>1. Table(p) \in TableSet
        BY <1>1, TableTyped DEF LoadReal
      <4>2. Active(p) /\ mode[p] = "real"
        BY <1>1 DEF LoadReal, Active, Idle, Generating
      <4>3. \A t \in TableSet : /\ raw[db[p]][t] \subseteq raw'[db[p]][t]
                                /\ raw'[db[p]][t] \subseteq raw[db[p]][t] \union {"eia_api"}
        BY <1>a, <3>1, <4>1 DEF TypeInv, TypeOK
      <4>4. d # db[p] => raw'[d] = raw[d]
        BY <1>a, <3>1 DEF TypeInv, TypeOK
      <4> QED BY <4>2, <4>3, <4>4 DEF Rows, RawSources, TableSet
    <3> QED BY <1>1, <3>1 DEF LoadReal, Rows
  <2> QED BY <1>1, <2>1, <2>2 DEF LoadReal, Contained, Watermarks, Built
<1>2. CASE MarkReal(p)
  <2>1. Keeps(p)
    BY <1>2, NextTableKeeps DEF MarkReal
  <2>2. ASSUME NEW d \in Databases PROVE Watermarks(p, d)
    <3>1. Active(p) /\ mode[p] = "real"
      BY <1>2 DEF MarkReal, Active, Idle, Generating
    <3>2. PICK m \in {"eia_api", marks[db[p]][Table(p)]} :
            marks' = [marks EXCEPT ![db[p]][Table(p)] = m]
      BY <1>2 DEF MarkReal
    <3>3. /\ d # db[p] => marks'[d] = marks[d]
          /\ \A t \in TableSet : marks'[db[p]][t] \in {"eia_api", marks[db[p]][t]}
      BY <1>a, <3>2 DEF TypeInv, TypeOK
    <3> QED BY <3>1, <3>3 DEF Watermarks
  <2> QED BY <1>2, <2>1, <2>2 DEF MarkReal, Contained, Rows, Built
<1>3. CASE StampMeta(p)
  BY <1>3, EndKeeps DEF StampMeta, Contained, Rows, Watermarks, Built
<1>4. CASE Unlink(p)
  <2>1. Keeps(p)
    <3>1. CASE Goto(p, "write")
      BY <1>4, <3>1, GotoKeeps DEF Unlink, Goto
    <3> QED BY <1>4, <3>1 DEF Unlink, Keeps, Others, AtPlace, Active, Idle, Generating
  <2> QED BY <1>4, <1>b, <2>1 DEF Unlink
<1>5. CASE WritePages(p)
  <2>1. Keeps(p)
    <3>1. CASE k' = [k EXCEPT ![p] = 2] /\ UNCHANGED <<pc, mode, db, emptied>>
      BY <1>5, <3>1 DEF WritePages, Keeps, Others, AtPlace, Active, Idle, Generating, TypeInv, TypeOK
    <3> QED BY <1>5, <3>1, EndKeeps DEF WritePages
  <2> QED BY <1>5, <1>b, <2>1 DEF WritePages
<1>6. CASE Wipe(p)
  <2>1. Keeps(p)
    BY <1>6, GotoKeeps DEF Wipe, Goto, TypeInv, TypeOK
  <2>2. Active(p) /\ mode[p] = "fixtures"
    BY <1>6 DEF Wipe, AtPlace, Active, Idle, Generating
  <2>3. ASSUME NEW d \in Databases PROVE Rows(p, d)
    <3>1. d # db[p] => raw'[d] = raw[d]
      BY <1>6, <1>a DEF Wipe, TypeInv, TypeOK
    <3>2. \A t \in TableSet : raw'[db[p]][t] \subseteq raw[db[p]][t]
      BY <1>6, <1>a DEF Wipe, TypeInv, TypeOK
    <3> QED BY <2>2, <3>1, <3>2 DEF Rows, RawSources, TableSet
  <2>4. ASSUME NEW d \in Databases PROVE Watermarks(p, d)
    <3>1. d # db[p] => marks'[d] = marks[d]
      BY <1>6, <1>a DEF Wipe, TypeInv, TypeOK
    <3> QED BY <2>2, <3>1 DEF Watermarks
  <2> QED BY <1>6, <2>1, <2>3, <2>4 DEF Wipe, Contained, Built
<1>7. CASE ListPages(p)
  <2>1. Keeps(p)
    <3>1. CASE Goto(p, "load") /\ UNCHANGED <<mode, db, k, emptied>>
      BY <1>7, <3>1, GotoKeeps DEF ListPages, Goto
    <3> QED BY <1>7, <3>1, EndKeeps DEF ListPages
  <2> QED BY <1>7, <1>b, <2>1 DEF ListPages
<1>8. CASE TornPage(p)
  BY <1>8, <1>b, EndKeeps DEF TornPage
<1>9. CASE LoadPages(p)
  <2>1. Keeps(p)
    BY <1>9, NextTableKeeps DEF LoadPages
  <2>2. Active(p) /\ mode[p] = "fixtures"
    BY <1>9 DEF LoadPages, Active, Idle, Generating
  <2>3. ASSUME NEW d \in Databases PROVE Rows(p, d)
    <3>1. CASE raw' = [raw EXCEPT ![db[p]][PageTable(p)] = @ \union {"dev_fixtures"}]
      <4>1. PageTable(p) \in TableSet
        BY <1>9, TableTyped DEF LoadPages
      <4>2. \A t \in TableSet : raw'[db[p]][t] \subseteq raw[db[p]][t] \union {"dev_fixtures"}
        BY <1>a, <3>1, <4>1 DEF TypeInv, TypeOK
      <4>3. d # db[p] => raw'[d] = raw[d]
        BY <1>a, <3>1 DEF TypeInv, TypeOK
      <4> QED BY <2>2, <4>2, <4>3 DEF Rows, RawSources, TableSet
    <3> QED BY <1>9, <3>1 DEF LoadPages, Rows
  <2> QED BY <1>9, <2>1, <2>3 DEF LoadPages, Contained, Watermarks, Built
<1>10. CASE MarkFixtures(p)
  <2>1. Keeps(p)
    BY <1>10, GotoKeeps DEF MarkFixtures, Goto, TypeInv, TypeOK
  <2>2. ASSUME NEW d \in Databases PROVE Watermarks(p, d)
    <3>1. Active(p) /\ mode[p] = "fixtures"
      BY <1>10 DEF MarkFixtures, Active, Idle, Generating
    <3>2. d # db[p] => marks'[d] = marks[d]
      BY <1>10, <1>a DEF MarkFixtures, TypeInv, TypeOK
    <3> QED BY <3>1, <3>2 DEF Watermarks
  <2> QED BY <1>10, <2>1, <2>2 DEF MarkFixtures, Contained, Rows, Built
<1>11. CASE BuildFct(p)
  <2>1. Keeps(p)
    BY <1>11, GotoKeeps DEF BuildFct, Goto
  <2>2. ASSUME NEW d \in Databases PROVE fct'[d] \subseteq fct[d] \union RawSources(d)
    BY <1>11, <1>a DEF BuildFct, TypeInv, TypeOK
  <2> QED BY <1>11, <2>1, <2>2 DEF BuildFct, Contained, Rows, Watermarks, Built
<1>12. CASE BuildMarts(p)
  <2>1. ASSUME NEW d \in Databases PROVE marts'[d] \in {marts[d], fct[d]}
    BY <1>12, <1>a DEF BuildMarts, TypeInv, TypeOK
  <2> QED BY <1>12, <2>1, EndKeeps DEF BuildMarts, Contained, Rows, Watermarks, Built
<1>13. CASE Draw(p)
  BY <1>13, <1>b, EndKeeps DEF Draw
<1>14. CASE Export(p)
  BY <1>14, <1>b, EndKeeps DEF Export
<1>15. CASE Generate(p)
  <2>1. Keeps(p)
    BY <1>15, GotoKeeps DEF Generate, Idle, Goto
  <2> QED BY <1>15, <1>b, <2>1 DEF Generate
<1>16. CASE Crash(p)
  BY <1>16, <1>b, EndKeeps DEF Crash
<1> QED BY <1>1, <1>2, <1>3, <1>4, <1>5, <1>6, <1>7, <1>8, <1>9, <1>10, <1>11, <1>12, <1>13,
           <1>14, <1>15, <1>16 DEF Step

-----------------------------------------------------------------------------
(* What the guard establishes, and the lock and the refusal keep up. *)

\* A local file is open in one process at a time.
Exclusive ==
  \A p, q \in Procs :
    p # q /\ Active(p) /\ Active(q) /\ db[p] = db[q] => db[p] \in Cloud

\* The rows a process may meet while it has its database open.
Guarded(p) ==
  Active(p) =>
    /\ mode[p] = "fixtures" => db[p] \notin Cloud /\ RawSources(db[p]) \subseteq {"dev_fixtures"}
    /\ mode[p] \in {"real", "publish"} => RawSources(db[p]) \subseteq {"eia_api"}
    /\ mode[p] = "publish" => db[p] \in Cloud \/ AllowLocal

GuardInv ==
  /\ TypeInv /\ Exclusive
  /\ \A p \in Procs : AtPlace(p) /\ Guarded(p)

\* What the guard lets in.
LEMMA Admitted ==
  ASSUME NEW m, NEW path \in Paths, ~Refused(m, path)
  PROVE  /\ m = "fixtures" =>
              DbOf[path] \notin Cloud /\ RawSources(DbOf[path]) \subseteq {"dev_fixtures"}
         /\ m \in {"real", "publish"} => RawSources(DbOf[path]) \subseteq {"eia_api"}
         /\ m = "publish" => DbOf[path] \in Cloud \/ AllowLocal
<1>1. \A d : /\ Verdict(d) \notin {"real", "mixed", "unknown"} => RawSources(d) \subseteq {"dev_fixtures"}
             /\ Verdict(d) \notin {"fixtures", "mixed", "unknown"} => RawSources(d) \subseteq {"eia_api"}
  BY DEF Verdict
<1>2. DbOf[path] \in Cloud <=> path \in CloudPaths
  BY ProvenanceAssumption DEF ProvenanceAssumption, Cloud
<1> QED BY <1>1, <1>2 DEF Refused, IsCloudPath

\* What a command is when it has started.
Started(p, c) ==
  /\ Others(p) /\ AtPlace(p)' /\ tables' = tables
  /\ ~Active(p) /\ Active(p)' /\ mode'[p] = c[1]
  /\ db'[p] = DbOf[ResolveDbPath(c[1], c[2])]
  /\ Free(db'[p]) /\ ~Refused(c[1], ResolveDbPath(c[1], c[2]))

LEMMA StartStarts ==
  ASSUME TypeInv, NEW p \in Procs, NEW c \in CommandLines, Start(p, c[1], c[2])
  PROVE  Started(p, c)
<1>1. /\ pc' = [pc EXCEPT ![p] = First(c[1])] /\ mode' = [mode EXCEPT ![p] = c[1]]
      /\ db' = [db EXCEPT ![p] = DbOf[ResolveDbPath(c[1], c[2])]]
      /\ k' = [k EXCEPT ![p] = 1]
  BY DEF Start, Goto
<1>2. /\ pc'[p] = First(c[1]) /\ mode'[p] = c[1]
      /\ db'[p] = DbOf[ResolveDbPath(c[1], c[2])] /\ Others(p)
  BY <1>1 DEF TypeInv, TypeOK, Others
<1>3. c[1] \in Modes
  BY ConstantsTyped
<1>4. AtPlace(p)' /\ Active(p)'
  BY <1>2, <1>3, FirstTyped DEF Modes, AtPlace, Active, Idle, Generating
<1> QED BY <1>2, <1>4 DEF Start, Started, tables, Active

LEMMA GuardStart ==
  ASSUME GuardInv, TypeInv', NEW p \in Procs, NEW c \in CommandLines, Started(p, c)
  PROVE  GuardInv'
<1>1. PICK path \in Paths : db'[p] = DbOf[path] /\ ~Refused(c[1], path)
  BY PathTyped DEF GuardInv, Started
<1>2. \A d : RawSources(d)' = RawSources(d)
  BY DEF Started, tables, RawSources
<1>3. Guarded(p)'
  BY <1>1, <1>2, Admitted DEF Started, Guarded
<1>4. ASSUME NEW q \in Procs \ {p} PROVE AtPlace(q)' /\ Guarded(q)' /\ (Active(q)' <=> Active(q))
  BY <1>2 DEF GuardInv, Guarded, AtPlace, Started, Others, Active, Idle, Generating
<1>5. ASSUME NEW q \in Procs \ {p}, Active(q), db[q] = db'[p] PROVE db'[p] \in Cloud
  BY <1>5 DEF Started, Free, Active
<1>6. Exclusive'
  BY <1>4, <1>5 DEF GuardInv, Exclusive, Started, Others
<1> QED BY <1>3, <1>4, <1>6 DEF GuardInv, Started

\* Nobody else can spoil what a process was let in for.
LEMMA GuardContained ==
  ASSUME GuardInv, TypeInv', NEW p \in Procs, Contained(p)
  PROVE  GuardInv'
<1>1. ASSUME NEW q \in Procs \ {p}
      PROVE  AtPlace(q)' /\ (Active(q)' <=> Active(q)) /\ mode'[q] = mode[q] /\ db'[q] = db[q]
  BY DEF GuardInv, AtPlace, Contained, Keeps, Others, Active, Idle, Generating
<1>2. Active(p)' => Active(p) /\ mode'[p] = mode[p] /\ db'[p] = db[p]
  BY DEF Contained, Keeps
<1>3. Exclusive'
  BY <1>1, <1>2 DEF GuardInv, Exclusive
<1>4. ASSUME NEW q \in Procs PROVE Guarded(q)'
  <2> SUFFICES ASSUME Active(q)' PROVE Guarded(q)'
    BY DEF Guarded
  <2>1. Active(q) /\ mode'[q] = mode[q] /\ db'[q] = db[q] /\ db[q] \in Databases
    BY <1>1, <1>2 DEF GuardInv, TypeInv, TypeOK
  <2>2. PICK d \in Databases : d = db[q] /\ d = db'[q]
    BY <2>1
  <2>3. Rows(p, d) /\ (raw'[d] = raw[d] => RawSources(d)' = RawSources(d))
    BY DEF Contained, RawSources
  <2>4. Guarded(p) /\ Guarded(q) /\ (p # q /\ Active(p) /\ db[p] = d => d \in Cloud)
    BY <2>1, <2>2 DEF GuardInv, Exclusive
  <2>5. mode[q] = "fixtures" => d \notin Cloud /\ RawSources(d)' \subseteq {"dev_fixtures"}
    BY <2>1, <2>2, <2>3, <2>4 DEF Guarded, Rows
  <2>6. mode[q] \in {"real", "publish"} => RawSources(d)' \subseteq {"eia_api"}
    BY <2>1, <2>2, <2>3, <2>4 DEF Guarded, Rows
  <2> QED BY <2>1, <2>2, <2>4, <2>5, <2>6 DEF Guarded
<1>5. AtPlace(p)'
  BY DEF Contained, Keeps
<1> QED BY <1>1, <1>3, <1>4, <1>5 DEF GuardInv

LEMMA GuardInit == Init => GuardInv
<1> SUFFICES ASSUME Init PROVE GuardInv
  OBVIOUS
<1>1. \A p \in Procs : pc[p] = "idle" /\ mode[p] = "build"
  BY DEF Init
<1> QED BY <1>1, TypeInit DEF GuardInv, Exclusive, Guarded, AtPlace, Active, Idle

\* Every step is a start or is contained; the rest of the state stands still.
LEMMA StepCases ==
  ASSUME GuardInv, Next
  PROVE  \E p \in Procs :
           \/ \E c \in CommandLines : Start(p, c[1], c[2]) /\ Started(p, c)
           \/ (Step(p) \/ Generate(p) \/ Crash(p)) /\ Contained(p)
BY StartStarts, StepContained DEF Next, GuardInv

LEMMA GuardStep == GuardInv /\ [Next]_vars => GuardInv'
<1> SUFFICES ASSUME GuardInv, [Next]_vars PROVE GuardInv'
  OBVIOUS
<1>1. TypeInv'
  BY TypeStep DEF GuardInv
<1>2. CASE Next
  BY <1>1, <1>2, StepCases, GuardStart, GuardContained
<1>3. CASE UNCHANGED vars
  BY <1>1, <1>3 DEF vars, GuardInv, Exclusive, Guarded, AtPlace, Active, Idle, Generating, RawSources
<1> QED BY <1>2, <1>3

\* At no moment does a process have a database open whose rows the guard would
\* have refused it, unless they are its own: what guard_against_contamination and
\* refuse_unsafe_source saw stays true until the command ends.
THEOREM GuardHolds == Spec => []GuardInv
BY GuardInit, GuardStep, PTL DEF Spec

\* Real and synthetic rows never share a database: a run only ever adds rows of
\* the kind that the guard found there, and the guard's answer stays true.
THEOREM RowsNeverMix == Spec => []NeverMixed
<1>1. Init => NeverMixed
  BY ConstantsTyped DEF Init, NeverMixed, RawSources, TableSet
<1>2. NeverMixed /\ GuardInv /\ [Next]_vars => NeverMixed'
  <2> SUFFICES ASSUME NeverMixed, GuardInv, [Next]_vars, NEW d \in Databases
               PROVE  ~({"eia_api", "dev_fixtures"} \subseteq RawSources(d)')
    BY DEF NeverMixed
  <2>1. raw'[d] = raw[d] \/ \E p \in Procs : Rows(p, d)
    <3>1. CASE Next
      BY <3>1, StepCases DEF Started, tables, Contained
    <3> QED BY <3>1 DEF vars
  <2>2. raw'[d] = raw[d] => RawSources(d)' = RawSources(d)
    BY DEF RawSources
  <2>3. ASSUME NEW p \in Procs, Rows(p, d), raw'[d] # raw[d]
        PROVE  RawSources(d)' \subseteq {"eia_api"} \/ RawSources(d)' \subseteq {"dev_fixtures"}
    BY <2>3 DEF Rows, GuardInv, Guarded
  <2> QED BY <2>1, <2>2, <2>3 DEF NeverMixed
<1> QED BY <1>1, <1>2, GuardInit, GuardStep, PTL DEF Spec

LEMMA UnknownStep == GuardInv /\ [Next]_vars => [NothingTouchesUnknown]_vars
<1> SUFFICES ASSUME GuardInv, Next, NEW d \in Databases, "unlabelled" \in RawSources(d)
             PROVE  raw'[d] = raw[d] /\ marks'[d] = marks[d]
  BY DEF NothingTouchesUnknown
<1>1. PICK p \in Procs : tables' = tables \/ (Rows(p, d) /\ Watermarks(p, d))
  BY StepCases DEF Started, Contained
<1>2. Guarded(p)
  BY DEF GuardInv
<1> QED BY <1>1, <1>2 DEF tables, Guarded, Rows, Watermarks

\* A database with a row of unknown origin keeps its rows and its watermarks,
\* whatever runs: the verdict "unknown" turns both kinds of ingestion away.
THEOREM UnknownStays == Spec => UnknownIsLeftAlone
<1>1. GuardInv /\ [Next]_vars => [NothingTouchesUnknown]_vars
  BY UnknownStep
<1> QED BY <1>1, GuardInit, GuardStep, PTL DEF Spec, UnknownIsLeftAlone

LEMMA CloudStep == CloudIsNeverSynthetic /\ GuardInv /\ [Next]_vars => CloudIsNeverSynthetic'
<1> SUFFICES ASSUME CloudIsNeverSynthetic, GuardInv, [Next]_vars, NEW d \in Cloud
             PROVE  /\ "dev_fixtures" \notin RawSources(d)' \union fct'[d] \union marts'[d]
                    /\ \A t \in TableSet : marks'[d][t] # "dev_fixtures"
  BY DEF CloudIsNeverSynthetic
<1>1. d \in Databases
  BY ProvenanceAssumption DEF ProvenanceAssumption, Cloud
<1>2. /\ "dev_fixtures" \notin RawSources(d) \union fct[d] \union marts[d]
      /\ \A t \in TableSet : marks[d][t] # "dev_fixtures"
  BY DEF CloudIsNeverSynthetic
<1>3. tables' = tables \/ \E p \in Procs : Contained(p)
  <2>1. CASE Next
    BY <2>1, StepCases DEF Started
  <2> QED BY <2>1 DEF vars, tables
<1>4. CASE tables' = tables
  BY <1>2, <1>4 DEF tables, RawSources
<1>5. ASSUME NEW p \in Procs, Contained(p)
      PROVE  /\ "dev_fixtures" \notin RawSources(d)' \union fct'[d] \union marts'[d]
             /\ \A t \in TableSet : marks'[d][t] # "dev_fixtures"
  <2>1. Rows(p, d) /\ Watermarks(p, d) /\ Built(d)
    BY <1>1, <1>5 DEF Contained
  <2>2. ~(Active(p) /\ db[p] = d /\ mode[p] = "fixtures")
    BY DEF GuardInv, Guarded
  <2>3. raw'[d] = raw[d] => RawSources(d)' = RawSources(d)
    BY DEF RawSources
  <2>4. "dev_fixtures" \notin RawSources(d)'
    BY <1>2, <2>1, <2>2, <2>3 DEF Rows
  <2>5. "dev_fixtures" \notin fct'[d] \union marts'[d]
    BY <1>2, <2>1 DEF Built
  <2>6. \A t \in TableSet : marks'[d][t] # "dev_fixtures"
    BY <1>2, <2>1, <2>2 DEF Watermarks
  <2> QED BY <2>4, <2>5, <2>6
<1> QED BY <1>3, <1>4, <1>5

LEMMA CloudInit == Init => CloudIsNeverSynthetic
<1> SUFFICES ASSUME Init, NEW d \in Cloud
             PROVE  /\ "dev_fixtures" \notin RawSources(d) \union fct[d] \union marts[d]
                    /\ \A t \in TableSet : marks[d][t] # "dev_fixtures"
  BY DEF CloudIsNeverSynthetic
<1>1. d \in Databases
  BY ProvenanceAssumption DEF ProvenanceAssumption, Cloud
<1>2. PICK old \in SUBSET Migrated : raw = [x \in Databases |-> [t \in TableSet |->
                                           IF x \in old THEN {"unlabelled"} ELSE {}]]
  BY DEF Init
<1>3. "dev_fixtures" \notin RawSources(d)
  BY <1>1, <1>2 DEF RawSources, TableSet
<1> QED BY <1>1, <1>3 DEF Init

\* No cloud database ever holds a synthetic row, mart or watermark: is_cloud_path
\* knows every spelling that DuckDB sends to MotherDuck.
THEOREM CloudStaysClean == Spec => []CloudIsNeverSynthetic
BY CloudInit, CloudStep, GuardInit, GuardStep, PTL DEF Spec

-----------------------------------------------------------------------------
(* The verdict looks at the raw tables, a publish exports the fact and the *)
(* marts.  What connects them is that rows of unknown origin never leave a *)
(* database, and that synthetic rows never reach a cloud one.              *)

Traceable ==
  \A d \in Databases :
    "unlabelled" \in fct[d] \union marts[d] => "unlabelled" \in RawSources(d)

LEMMA TraceableInit == Init => Traceable
BY DEF Init, Traceable

LEMMA TraceableStep == Traceable /\ GuardInv /\ [Next]_vars => Traceable'
<1> SUFFICES ASSUME Traceable, GuardInv, [Next]_vars, NEW d \in Databases,
                    "unlabelled" \in fct'[d] \union marts'[d]
             PROVE  "unlabelled" \in RawSources(d)'
  BY DEF Traceable
<1>1. fct'[d] \union marts'[d] \subseteq fct[d] \union marts[d] \union RawSources(d)
  <2>1. CASE Next
    BY <2>1, StepCases DEF Started, tables, Contained, Built
  <2> QED BY <2>1 DEF vars
<1>2. "unlabelled" \in RawSources(d)
  BY <1>1 DEF Traceable
<1>3. raw'[d] = raw[d]
  BY <1>2, UnknownStep DEF NothingTouchesUnknown, vars
<1> QED BY <1>2, <1>3 DEF RawSources

\* Without --allow-local the public tables show EIA data only, though anybody may
\* build and load while the publish runs.
THEOREM PublicIsReal == ~AllowLocal => (Spec => []PublicTablesAreReal)
<1> SUFFICES ASSUME ~AllowLocal PROVE Spec => []PublicTablesAreReal
  OBVIOUS
<1>1. Init => PublicTablesAreReal
  BY DEF Init, PublicTablesAreReal
<1>2. /\ PublicTablesAreReal /\ GuardInv /\ CloudIsNeverSynthetic /\ Traceable
      /\ [Next]_vars
      => PublicTablesAreReal'
  <2> SUFFICES ASSUME PublicTablesAreReal, GuardInv, CloudIsNeverSynthetic, Traceable, [Next]_vars
               PROVE  PublicTablesAreReal'
    OBVIOUS
  <2>1. CASE published' = published
    BY <2>1 DEF PublicTablesAreReal
  <2>2. ASSUME NEW p \in Procs, Export(p) PROVE PublicTablesAreReal'
    <3>1. Active(p) /\ mode[p] = "publish"
      BY <2>2 DEF Export, GuardInv, AtPlace, Active, Idle, Generating
    <3>2. db[p] \in Cloud /\ db[p] \in Databases /\ RawSources(db[p]) \subseteq {"eia_api"}
      BY <3>1 DEF GuardInv, Guarded, TypeInv, TypeOK
    <3>3. fct[db[p]] \union marts[db[p]] \subseteq Sources \ {"dev_fixtures", "unlabelled"}
      BY <3>2 DEF CloudIsNeverSynthetic, Traceable, GuardInv, TypeInv, TypeOK
    <3> QED BY <2>2, <3>3 DEF Export, PublicTablesAreReal, Sources
  <2>3. ASSUME NEW p \in Procs, Step(p) \/ Generate(p) \/ Crash(p), ~Export(p)
        PROVE  published' = published
    BY <2>3 DEF Step, Generate, Crash, LoadReal, MarkReal, StampMeta, Unlink, WritePages, Wipe, ListPages,
                TornPage, LoadPages, MarkFixtures, BuildFct, BuildMarts, Draw
  <2>4. ASSUME NEW p \in Procs, NEW c \in CommandLines, Start(p, c[1], c[2])
        PROVE  published' = published
    BY <2>4 DEF Start
  <2>5. UNCHANGED vars => published' = published
    BY DEF vars
  <2> QED BY <2>1, <2>2, <2>3, <2>4, <2>5 DEF Next
<1> QED BY <1>1, <1>2, GuardInit, GuardStep, CloudInit, CloudStep, TraceableInit, TraceableStep,
           PTL DEF Spec

-----------------------------------------------------------------------------
(* The guard tells a database's past by its rows.  That is enough unless a *)
(* fixture load ended without leaving a row: while it runs it has the file *)
(* for itself, and once it has loaded a page the rows tell on it.          *)

Synthetic(d) ==
  \/ "dev_fixtures" \in RawSources(d) \union fct[d] \union marts[d]
  \/ \E t \in TableSet : marks[d][t] = "dev_fixtures"

FixtureLoad(p, d) == Active(p) /\ mode[p] = "fixtures" /\ db[p] = d

PastInv ==
  \A d \in Databases \ emptied : Synthetic(d) =>
    "dev_fixtures" \in RawSources(d) \/ \E p \in Procs : FixtureLoad(p, d)

\* What is synthetic in a database shows in its rows to all but its own load.
LEMMA PastShows ==
  ASSUME PastInv, GuardInv, NEW p \in Procs, Active(p), mode[p] # "fixtures",
         db[p] \notin emptied, RawSources(db[p]) \subseteq {"eia_api"}
  PROVE  ~Synthetic(db[p])
<1> SUFFICES ASSUME Synthetic(db[p]) PROVE FALSE
  OBVIOUS
<1>1. db[p] \in Databases \ emptied
  BY DEF GuardInv, TypeInv, TypeOK
<1>2. PICK q \in Procs : FixtureLoad(q, db[p])
  BY <1>1 DEF PastInv
<1>3. q # p /\ db[q] \notin Cloud
  BY <1>2 DEF FixtureLoad, GuardInv, Guarded
<1> QED BY <1>2, <1>3 DEF FixtureLoad, GuardInv, Exclusive

\* A fixture load that ends leaves a row, or is remembered.
LEMMA EndsRemembered ==
  ASSUME TypeInv, NEW p \in Procs, AtPlace(p), Step(p) \/ Generate(p) \/ Crash(p)
  PROVE  \/ End(p) /\ raw' = raw
         \/ emptied' = emptied /\ (Active(p) => Active(p)')
<1>g. \A place : Goto(p, place) => pc'[p] = place
  BY DEF Goto, TypeInv, TypeOK
<1>n. ASSUME NEW after \in {"mark", "meta"}, NextTable(p, after)
      PROVE  emptied' = emptied /\ Active(p)'
  BY <1>g, <1>n DEF NextTable, Active, Idle, Generating
<1>1. CASE LoadReal(p)
  BY <1>1, <1>g, <1>n DEF LoadReal, Active, Idle, Generating
<1>2. CASE MarkReal(p)
  BY <1>2, <1>n DEF MarkReal
<1>3. CASE StampMeta(p)
  BY <1>3 DEF StampMeta
<1>4. CASE Unlink(p) \/ Generate(p)
  BY <1>4 DEF Unlink, Generate, Active, Idle, Generating
<1>5. CASE WritePages(p)
  BY <1>5 DEF WritePages, tables, Active, Idle, Generating
<1>6. CASE Wipe(p)
  BY <1>6, <1>g DEF Wipe, Active, Idle, Generating
<1>7. CASE ListPages(p)
  BY <1>7, <1>g DEF ListPages, tables, Active, Idle, Generating
<1>8. CASE TornPage(p)
  BY <1>8 DEF TornPage, tables
<1>9. CASE LoadPages(p)
  BY <1>9, <1>n DEF LoadPages
<1>10. CASE MarkFixtures(p)
  BY <1>10, <1>g DEF MarkFixtures, Active, Idle, Generating
<1>11. CASE BuildFct(p)
  BY <1>11, <1>g DEF BuildFct, Active, Idle, Generating
<1>12. CASE BuildMarts(p)
  BY <1>12 DEF BuildMarts
<1>13. CASE Draw(p) \/ Export(p) \/ Crash(p)
  BY <1>13 DEF Draw, Export, Crash, tables
<1> QED BY <1>1, <1>2, <1>3, <1>4, <1>5, <1>6, <1>7, <1>8, <1>9, <1>10, <1>11, <1>12, <1>13 DEF Step

LEMMA PastInit == Init => PastInv
<1> SUFFICES ASSUME Init, NEW d \in Databases PROVE ~Synthetic(d)
  BY DEF PastInv
<1>1. PICK old \in SUBSET Migrated : raw = [x \in Databases |-> [t \in TableSet |->
                                           IF x \in old THEN {"unlabelled"} ELSE {}]]
  BY DEF Init
<1>2. RawSources(d) \subseteq {"unlabelled"}
  BY <1>1 DEF RawSources, TableSet
<1> QED BY <1>2 DEF Synthetic, Init

LEMMA PastStep == PastInv /\ GuardInv /\ [Next]_vars => PastInv'
<1> SUFFICES ASSUME PastInv, GuardInv, [Next]_vars,
                    NEW d \in Databases, d \notin emptied', Synthetic(d)'
             PROVE  "dev_fixtures" \in RawSources(d)' \/ \E p \in Procs : FixtureLoad(p, d)'
  BY DEF PastInv
<1>1. ASSUME tables' = tables, emptied' = emptied,
             \A p \in Procs : FixtureLoad(p, d) => FixtureLoad(p, d)'
      PROVE  "dev_fixtures" \in RawSources(d)' \/ \E p \in Procs : FixtureLoad(p, d)'
  <2>1. Synthetic(d) /\ RawSources(d)' = RawSources(d)
    BY <1>1 DEF tables, RawSources, Synthetic
  <2> QED BY <1>1, <2>1 DEF PastInv
<1>2. CASE UNCHANGED vars
  BY <1>1, <1>2 DEF vars, tables, FixtureLoad, Active, Idle, Generating
<1>3. ASSUME NEW p \in Procs, NEW c \in CommandLines, Start(p, c[1], c[2]), Started(p, c)
      PROVE  "dev_fixtures" \in RawSources(d)' \/ \E q \in Procs : FixtureLoad(q, d)'
  <2>1. emptied' = emptied
    BY <1>3 DEF Start
  <2>2. ASSUME NEW q \in Procs, FixtureLoad(q, d) PROVE FixtureLoad(q, d)'
    BY <1>3, <2>2 DEF Started, Others, FixtureLoad, Active, Idle, Generating
  <2> QED BY <1>1, <1>3, <2>1, <2>2 DEF Started
<1>4. ASSUME NEW p \in Procs, Step(p) \/ Generate(p) \/ Crash(p), Contained(p)
      PROVE  "dev_fixtures" \in RawSources(d)' \/ \E q \in Procs : FixtureLoad(q, d)'
  <2>1. Rows(p, d) /\ Watermarks(p, d) /\ Built(d) /\ (raw'[d] = raw[d] => RawSources(d)' = RawSources(d))
    BY <1>4 DEF Contained, RawSources
  <2>2. \/ End(p) /\ raw' = raw
        \/ emptied' = emptied /\ (Active(p) => Active(p)')
    BY <1>4, EndsRemembered DEF GuardInv
  <2>3. d \notin emptied \/ FixtureLoad(p, d)
    <3>1. CASE End(p) /\ d \in emptied
      <4>1. mode[p] = "fixtures" /\ db[p] = d
        BY <3>1 DEF End
      <4>2. Active(p)
        BY <4>1 DEF GuardInv, AtPlace, Active, Idle, Generating
      <4> QED BY <4>1, <4>2 DEF FixtureLoad
    <3> QED BY <2>2, <3>1
  <2>4. CASE FixtureLoad(p, d)
    <3>1. CASE End(p) /\ raw' = raw
      <4>1. RawSources(d) # {}
        BY <2>4, <3>1 DEF End, FixtureLoad
      <4>2. RawSources(d) \subseteq {"dev_fixtures"}
        BY <2>4 DEF FixtureLoad, GuardInv, Guarded
      <4> QED BY <2>1, <3>1, <4>1, <4>2
    <3>2. CASE Active(p)'
      BY <1>4, <2>4, <3>2 DEF Contained, Keeps, FixtureLoad
    <3> QED BY <2>2, <2>4, <3>1, <3>2 DEF FixtureLoad
  <2>5. CASE ~FixtureLoad(p, d)
    <3>1. Synthetic(d)
      BY <2>1, <2>5 DEF Rows, Watermarks, Built, Synthetic, FixtureLoad
    <3>2. CASE "dev_fixtures" \in RawSources(d)
      BY <2>1, <2>5, <3>2 DEF Rows, FixtureLoad
    <3>3. ASSUME NEW q \in Procs, FixtureLoad(q, d) PROVE FixtureLoad(q, d)'
      BY <1>4, <2>5, <3>3 DEF Contained, Keeps, Others, FixtureLoad, Active, Idle, Generating
    <3> QED BY <2>3, <2>5, <3>1, <3>2, <3>3 DEF PastInv
  <2> QED BY <2>4, <2>5
<1> QED BY <1>2, <1>3, <1>4, StepCases

\* No real run resumes from a watermark that a fixture load left behind, with one
\* file for both modes as well as with two, in any order of loads, deaths and
\* builds, unless the last fixture load ended without leaving a row in that database.
THEOREM ResumesAreReal == Spec => []NoSyntheticResume
<1>1. PastInv /\ GuardInv => NoSyntheticResume
  <2> SUFFICES ASSUME PastInv, GuardInv, NEW p \in Procs, pc[p] = "load", mode[p] = "real",
                      db[p] \notin emptied
               PROVE  marks[db[p]][Table(p)] # "dev_fixtures"
    BY DEF NoSyntheticResume
  <2>1. Table(p) \in TableSet
    BY TableTyped DEF GuardInv
  <2>2. Active(p) /\ RawSources(db[p]) \subseteq {"eia_api"}
    BY DEF Active, Idle, Generating, GuardInv, Guarded
  <2> QED BY <2>1, <2>2, PastShows DEF Synthetic
<1> QED BY <1>1, PastInit, PastStep, GuardInit, GuardStep, PTL DEF Spec

\* What was drawn without a watermark of a database that a fixture load had left
\* empty stays excused: real rows keep every later fixture load out.
Excused == {d \in emptied : "eia_api" \in RawSources(d)}

ChartInv ==
  \A o \in OutDirs : o = "docs/img" \/ chart[o].clean =>
    chart[o].shows \subseteq {"eia_api"} \/ chart[o].of \in Excused

LEMMA ExcusedStays ==
  ASSUME GuardInv, [Next]_vars, NEW d \in Databases, d \in Excused
  PROVE  d \in Excused'
<1>0. \A p \in Procs : ~FixtureLoad(p, d)
  BY DEF Excused, FixtureLoad, GuardInv, Guarded
<1>1. ASSUME raw'[d] = raw[d], emptied' = emptied PROVE d \in Excused'
  BY <1>1 DEF Excused, RawSources
<1>2. ASSUME NEW p \in Procs, NEW c \in CommandLines, Start(p, c[1], c[2]) PROVE d \in Excused'
  BY <1>1, <1>2 DEF Start, tables
<1>3. ASSUME NEW p \in Procs, Step(p) \/ Generate(p) \/ Crash(p), Contained(p) PROVE d \in Excused'
  <2>1. "eia_api" \in RawSources(d)'
    <3>1. Rows(p, d)
      BY <1>3 DEF Contained
    <3>2. raw'[d] = raw[d] => RawSources(d)' = RawSources(d)
      BY DEF RawSources
    <3> QED BY <1>0, <3>1, <3>2 DEF Rows, FixtureLoad, Excused
  <2>2. d \in emptied'
    <3>1. CASE End(p)
      <4>1. mode[p] = "fixtures" => Active(p)
        BY DEF GuardInv, AtPlace, Active, Idle, Generating
      <4> QED BY <1>0, <3>1, <4>1 DEF End, FixtureLoad, Excused
    <3>2. CASE emptied' = emptied
      BY <3>2 DEF Excused
    <3> QED BY <1>3, <3>1, <3>2, EndsRemembered DEF GuardInv
  <2> QED BY <2>1, <2>2 DEF Excused
<1> QED BY <1>1, <1>2, <1>3, StepCases DEF vars

\* A chart without a watermark, and every chart in docs/img, shows real data only,
\* with the same exception, though the verdict that decides it reads the raw tables
\* and the chart draws marts that were built at another time.
THEOREM ChartsAreLabelled == Spec => []CleanChartsAreReal
<1>1. Init => ChartInv
  BY DEF Init, ChartInv
<1>2. ChartInv => CleanChartsAreReal
  BY DEF ChartInv, Excused, CleanChartsAreReal
<1>3. ChartInv /\ PastInv /\ GuardInv /\ Traceable /\ [Next]_vars => ChartInv'
  <2> SUFFICES ASSUME ChartInv, PastInv, GuardInv, Traceable, [Next]_vars
               PROVE  ChartInv'
    OBVIOUS
  <2>0. \A d \in Databases : d \in Excused => d \in Excused'
    BY ExcusedStays
  <2>t. chart \in [OutDirs -> [clean : BOOLEAN, shows : SUBSET Sources, of : Databases]]
    BY DEF GuardInv, TypeInv, TypeOK
  <2>1. CASE chart' = chart
    <3> SUFFICES ASSUME NEW o \in OutDirs, o = "docs/img" \/ chart[o].clean
                 PROVE  chart[o].shows \subseteq {"eia_api"} \/ chart[o].of \in Excused'
      BY <2>1 DEF ChartInv, Excused, RawSources
    <3>1. chart[o].of \in Databases
      BY <2>t
    <3> QED BY <2>0, <3>1 DEF ChartInv
  <2>c. ASSUME NEW p \in Procs, NEW out \in OutDirs, NEW shows, NEW clean \in BOOLEAN,
               chart' = [chart EXCEPT ![out] = [clean |-> clean, shows |-> shows, of |-> db[p]]],
               \/ out # "docs/img" /\ ~clean
               \/ shows \subseteq {"eia_api"} \/ db[p] \in Excused'
        PROVE  ChartInv'
    <3>1. ASSUME NEW o \in OutDirs, o # out, o = "docs/img" \/ chart[o].clean
          PROVE  chart[o].shows \subseteq {"eia_api"} \/ chart[o].of \in Excused'
      <4>1. chart[o].of \in Databases
        BY <2>t
      <4> QED BY <2>0, <3>1, <4>1 DEF ChartInv
    <3>2. \A o \in OutDirs : chart'[o] = IF o = out THEN [clean |-> clean, shows |-> shows, of |-> db[p]]
                                          ELSE chart[o]
      BY <2>c, <2>t
    <3> QED BY <2>c, <3>1, <3>2 DEF ChartInv, Excused, RawSources
  <2>2. ASSUME NEW p \in Procs, Draw(p) PROVE ChartInv'
    <3>1. db[p] \in Databases /\ marts[db[p]] \subseteq Sources
          /\ chart \in [OutDirs -> [clean : BOOLEAN, shows : SUBSET Sources, of : Databases]]
      BY DEF GuardInv, TypeInv, TypeOK
    <3>2. CASE Verdict(db[p]) = "real"
      <4>1. RawSources(db[p]) = {"eia_api"}
        BY <3>2 DEF Verdict
      <4>2. "unlabelled" \notin marts[db[p]]
        BY <3>1, <4>1 DEF Traceable
      <4>3. db[p] \notin emptied => "dev_fixtures" \notin marts[db[p]]
        <5>1. Active(p) /\ mode[p] = "charts"
          BY <2>2 DEF Draw, GuardInv, AtPlace, Active, Idle, Generating
        <5> QED BY <4>1, <5>1, PastShows DEF Synthetic
      <4>4. db[p] \notin emptied => marts[db[p]] \subseteq {"eia_api"}
        BY <3>1, <4>2, <4>3 DEF Sources
      <4>5. chart' = [chart EXCEPT !["docs/img"] =
                        [clean |-> TRUE, shows |-> marts[db[p]], of |-> db[p]]]
        BY <2>2, <3>2 DEF Draw
      <4>6. marts[db[p]] \subseteq {"eia_api"} \/ db[p] \in Excused'
        BY <2>0, <3>1, <4>1, <4>4 DEF Excused
      <4> QED BY <2>c, <4>5, <4>6 DEF OutDirs
    <3>3. CASE Verdict(db[p]) # "real"
      <4>1. chart' = [chart EXCEPT !["data/charts"] =
                        [clean |-> FALSE, shows |-> marts[db[p]], of |-> db[p]]]
        BY <2>2, <3>3 DEF Draw
      <4> QED BY <2>c, <4>1 DEF OutDirs
    <3> QED BY <3>2, <3>3
  <2>3. ASSUME NEW p \in Procs, Step(p) \/ Generate(p) \/ Crash(p), ~Draw(p)
        PROVE  chart' = chart
    BY <2>3 DEF Step, Generate, Crash, LoadReal, MarkReal, StampMeta, Unlink, WritePages, Wipe, ListPages,
                TornPage, LoadPages, MarkFixtures, BuildFct, BuildMarts, Export
  <2>4. ASSUME NEW p \in Procs, NEW c \in CommandLines, Start(p, c[1], c[2])
        PROVE  chart' = chart
    BY <2>4 DEF Start
  <2>5. UNCHANGED vars => chart' = chart
    BY DEF vars
  <2> QED BY <2>1, <2>2, <2>3, <2>4, <2>5 DEF Next
<1> QED BY <1>1, <1>2, <1>3, PastInit, PastStep, GuardInit, GuardStep, TraceableInit, TraceableStep,
           PTL DEF Spec

-----------------------------------------------------------------------------
(* One process at a time: what a fixture load finds on disk is of one      *)
(* generation, and the database is empty when it starts.                   *)

OneProcess == \A p, q \in Procs : p = q

\* Whole pages on disk are of one generation.
PagesAgree ==
  \A s, t \in TableSet :
    disk[s] \in 1..MaxEra /\ disk[t] \in 1..MaxEra => disk[s] = disk[t]

\* How far the generator is.
Writing(p) ==
  pc[p] = "write" =>
    /\ disk["fuel_mix"] = 0
    /\ k[p] = 1 => disk["region_data"] = 0
    /\ k[p] = 2 => disk["region_data"] = era

\* How far the fixture load is.
Loading(p) ==
  /\ pc[p] = "wipe" /\ k[p] \in {2, 3, 4} => gens[db[p]]["region_data"] = {}
  /\ pc[p] = "wipe" /\ k[p] \in {3, 4} => gens[db[p]]["fuel_mix"] = {}
  /\ pc[p] = "pages" => gens[db[p]]["region_data"] = {} /\ gens[db[p]]["fuel_mix"] = {}
  /\ pc[p] = "load" /\ mode[p] = "fixtures" =>
       /\ gens[db[p]]["region_data"] = {}
       /\ k[p] = 1 => gens[db[p]]["fuel_mix"] = {}
       /\ k[p] = 2 => gens[db[p]]["fuel_mix"] \subseteq {disk["fuel_mix"]}

GenerationInv ==
  /\ OneGeneration /\ PagesAgree
  /\ \A p \in Procs : Writing(p) /\ Loading(p)

LEMMA GenerationInit == Init => GenerationInv
BY DEF Init, GenerationInv, OneGeneration, PagesAgree, Writing, Loading, TableSet

\* A step that neither loads, wipes nor writes pages, to a place without a claim.
LEMMA QuietStep ==
  ASSUME OneProcess, GenerationInv, NEW p \in Procs, gens' = gens, disk' = disk,
         Writing(p)', Loading(p)'
  PROVE  GenerationInv'
BY DEF OneProcess, GenerationInv, OneGeneration, PagesAgree

LEMMA EndQuiet ==
  ASSUME TypeInv, NEW p \in Procs, End(p)
  PROVE  Writing(p)' /\ Loading(p)'
BY DEF TypeInv, TypeOK, End, Goto, Writing, Loading

\* A step changes the generations of one database only, and its own.
LEMMA OwnGenerations ==
  ASSUME OneProcess, TypeInv, GenerationInv, NEW p \in Procs, PagesAgree',
         \A d \in Databases \ {db[p]} : gens'[d] = gens[d],
         \A g, h \in gens'[db[p]]["region_data"] \union gens'[db[p]]["fuel_mix"] : g = h,
         Writing(p)', Loading(p)'
  PROVE  GenerationInv'
<1>1. ASSUME NEW d \in Databases,
             NEW g \in gens'[d]["region_data"] \union gens'[d]["fuel_mix"],
             NEW h \in gens'[d]["region_data"] \union gens'[d]["fuel_mix"]
      PROVE  g = h
  BY DEF GenerationInv, OneGeneration
<1> QED BY <1>1 DEF OneProcess, GenerationInv, OneGeneration

LEMMA GenerationStep ==
  ASSUME OneProcess
  PROVE  GenerationInv /\ GuardInv /\ [Next]_vars => GenerationInv'
<1> SUFFICES ASSUME GenerationInv, GuardInv, [Next]_vars PROVE GenerationInv'
  OBVIOUS
<1>t. TypeInv /\ TypeInv'
  BY TypeStep DEF GuardInv
<1>a. \A p \in Procs : Writing(p) /\ Loading(p) /\ AtPlace(p) /\ db[p] \in Databases
  BY <1>t DEF GenerationInv, GuardInv, TypeInv, TypeOK
<1>0. CASE UNCHANGED vars
  BY <1>0 DEF vars, GenerationInv, OneGeneration, PagesAgree, Writing, Loading
<1>1. ASSUME NEW p \in Procs, NEW c \in CommandLines, Start(p, c[1], c[2]) PROVE GenerationInv'
  <2>1. pc'[p] = First(c[1]) /\ mode'[p] = c[1] /\ k'[p] = 1 /\ c[1] \in Modes
    BY <1>1, <1>t, ConstantsTyped DEF Start, Goto, TypeInv, TypeOK
  <2>2. Writing(p)' /\ Loading(p)'
    BY <2>1, FirstTyped DEF Modes, Writing, Loading
  <2> QED BY <1>1, <2>2, QuietStep DEF Start, tables, pages
<1>2. ASSUME NEW p \in Procs, Generate(p) PROVE GenerationInv'
  <2>1. pc'[p] = "unlink"
    BY <1>2, <1>t DEF Generate, Goto, TypeInv, TypeOK
  <2> QED BY <1>2, <2>1, QuietStep DEF Generate, tables, Writing, Loading
<1>3. ASSUME NEW p \in Procs, Unlink(p) PROVE GenerationInv'
  <2>1. CASE (\E t \in TableSet : disk' = [disk EXCEPT ![t] = 0]) /\ UNCHANGED pc
    <3>1. PagesAgree'
      BY <2>1, <1>t DEF GenerationInv, PagesAgree, TypeInv, TypeOK
    <3>2. pc'[p] = "unlink" /\ gens' = gens
      BY <1>3, <2>1 DEF Unlink, tables
    <3>3. Writing(p)' /\ Loading(p)'
      BY <3>2 DEF Writing, Loading
    <3> QED BY <1>t, <1>a, <3>1, <3>2, <3>3, OwnGenerations DEF GenerationInv, OneGeneration
  <2>2. CASE (\A t \in TableSet : disk[t] = 0) /\ Goto(p, "write") /\ UNCHANGED disk
    <3>1. pc'[p] = "write" /\ Loading(p)'
      BY <2>2, <1>t DEF Goto, TypeInv, TypeOK, Loading
    <3>2. Writing(p)'
      BY <1>3, <2>2, <1>t DEF Unlink, Writing, TableSet, TypeInv, Counters
    <3> QED BY <1>3, <2>2, <3>1, <3>2, QuietStep DEF Unlink, tables
  <2> QED BY <1>3, <2>1, <2>2 DEF Unlink
<1>4. ASSUME NEW p \in Procs, WritePages(p) PROVE GenerationInv'
  <2>1. disk' = [disk EXCEPT ![Table(p)] = era] /\ gens' = gens /\ era' = era /\ pc[p] = "write"
    BY <1>4 DEF WritePages, tables, Table
  <2>2. disk \in [TableSet -> 0..Torn] /\ k[p] \in {1, 2} /\ disk["fuel_mix"] = 0
    BY <1>t, <1>a, <2>1, TableTyped DEF TypeInv, TypeOK, Writing
  <2>3. CASE k[p] = 1
    <3>1. Table(p) = "region_data" /\ k'[p] = 2 /\ pc' = pc
      BY <1>4, <2>3, <1>t DEF WritePages, Table, Tables, TypeInv, TypeOK
    <3>2. disk'["region_data"] = era /\ disk'["fuel_mix"] = 0
      BY <2>1, <2>2, <3>1 DEF TableSet
    <3>3. PagesAgree' /\ Writing(p)' /\ Loading(p)'
      BY <2>1, <3>1, <3>2 DEF PagesAgree, TableSet, Writing, Loading
    <3> QED BY <2>1, <3>3, OwnGenerations, <1>t, <1>a DEF GenerationInv, OneGeneration
  <2>4. CASE k[p] = 2
    <3>1. Table(p) = "fuel_mix" /\ End(p)
      BY <1>4, <2>4 DEF WritePages, Table, Tables
    <3>2. disk'["fuel_mix"] = era /\ disk'["region_data"] = era
      BY <1>a, <2>1, <2>2, <2>4, <3>1 DEF Writing, TableSet
    <3>3. PagesAgree' /\ Writing(p)' /\ Loading(p)'
      BY <1>t, <3>1, <3>2, EndQuiet DEF PagesAgree, TableSet
    <3> QED BY <2>1, <3>3, OwnGenerations, <1>t, <1>a DEF GenerationInv, OneGeneration
  <2> QED BY <2>2, <2>3, <2>4
<1>5. ASSUME NEW p \in Procs, Wipe(p) PROVE GenerationInv'
  <2>1. /\ \A d \in Databases \ {db[p]} : gens'[d] = gens[d]
        /\ \A t \in TableSet :
             gens'[db[p]][t] = IF k[p] <= 2 /\ t = Tables[k[p]] THEN {} ELSE gens[db[p]][t]
    BY <1>5, <1>t, <1>a DEF Wipe, TypeInv, TypeOK
  <2>2. /\ k[p] \in 1..4 /\ pc[p] = "wipe" /\ db'[p] = db[p]
        /\ k[p] = 4 => pc'[p] = "pages" /\ k'[p] = 1
        /\ k[p] # 4 => pc'[p] = "wipe" /\ k'[p] = k[p] + 1
    BY <1>5, <1>t DEF Wipe, Goto, TypeInv, TypeOK
  <2>3. /\ k[p] = 1 => gens'[db[p]]["region_data"] = {}
        /\ k[p] = 2 => /\ gens'[db[p]]["region_data"] = gens[db[p]]["region_data"]
                       /\ gens'[db[p]]["fuel_mix"] = {}
        /\ k[p] \in {3, 4} => /\ gens'[db[p]]["region_data"] = gens[db[p]]["region_data"]
                              /\ gens'[db[p]]["fuel_mix"] = gens[db[p]]["fuel_mix"]
    BY <2>1 DEF TableSet, Tables
  <2>4. Loading(p)' /\ Writing(p)'
    BY <1>a, <2>2, <2>3 DEF Loading, Writing
  <2>5. gens'[db[p]]["region_data"] \union gens'[db[p]]["fuel_mix"]
          \subseteq gens[db[p]]["region_data"] \union gens[db[p]]["fuel_mix"]
    BY <2>1 DEF TableSet
  <2>6. \A g, h \in gens'[db[p]]["region_data"] \union gens'[db[p]]["fuel_mix"] : g = h
    BY <1>a, <2>5 DEF GenerationInv, OneGeneration
  <2>7. PagesAgree'
    BY <1>5 DEF Wipe, pages, GenerationInv, PagesAgree
  <2> QED BY <1>t, <2>1, <2>4, <2>6, <2>7, OwnGenerations
<1>6. ASSUME NEW p \in Procs, ListPages(p) PROVE GenerationInv'
  <2>1. gens' = gens /\ disk' = disk /\ pc[p] = "pages"
    BY <1>6 DEF ListPages, tables, pages
  <2>2. CASE End(p)
    BY <1>t, <2>1, <2>2, EndQuiet, QuietStep
  <2>3. CASE Goto(p, "load") /\ UNCHANGED <<mode, db, k, emptied>>
    <3>1. pc'[p] = "load" /\ k'[p] = 1 /\ db'[p] = db[p]
      BY <1>t, <2>1, <2>3 DEF Goto, TypeInv, TypeOK, Counters
    <3>2. Writing(p)' /\ Loading(p)'
      BY <1>a, <2>1, <3>1 DEF Loading, Writing
    <3> QED BY <2>1, <3>2, QuietStep
  <2> QED BY <1>6, <2>2, <2>3 DEF ListPages
<1>7. ASSUME NEW p \in Procs, LoadPages(p) PROVE GenerationInv'
  <2>1. /\ PageTable(p) \in TableSet /\ k[p] \in {1, 2} /\ db[p] \in Databases
        /\ gens \in [Databases -> [TableSet -> SUBSET (1..MaxEra)]] /\ disk \in [TableSet -> 0..Torn]
        /\ pc[p] = "load" /\ mode[p] = "fixtures" /\ disk[PageTable(p)] # Torn
    BY <1>7, <1>t, TableTyped DEF LoadPages, TypeInv, TypeOK
  <2>2. /\ disk' = disk
        /\ gens' = [gens EXCEPT ![db[p]][PageTable(p)] = @ \union ({disk[PageTable(p)]} \ {0})]
    BY <1>7 DEF LoadPages, pages
  <2>3. /\ \A d \in Databases \ {db[p]} : gens'[d] = gens[d]
        /\ gens'[db[p]] = [gens[db[p]] EXCEPT ![PageTable(p)] = @ \union ({disk[PageTable(p)]} \ {0})]
    BY <2>1, <2>2
  <2>4. /\ k[p] = 1 => pc'[p] = "load" /\ k'[p] = 2 /\ db'[p] = db[p]
        /\ k[p] = 2 => pc'[p] = "mark"
    BY <1>7, <1>t DEF LoadPages, NextTable, Goto, TypeInv, TypeOK
  <2>5. gens[db[p]] \in [TableSet -> SUBSET (1..MaxEra)] /\ gens[db[p]]["region_data"] = {}
    BY <1>a, <2>1 DEF Loading
  <2>6. PagesAgree'
    BY <2>2 DEF GenerationInv, PagesAgree
  <2>7. CASE k[p] = 1
    <3>1. PageTable(p) = "fuel_mix" /\ gens[db[p]]["fuel_mix"] = {}
      BY <1>a, <2>1, <2>7 DEF PageTable, Tables, Loading
    <3>2. gens'[db[p]]["region_data"] = {} /\ gens'[db[p]]["fuel_mix"] \subseteq {disk["fuel_mix"]}
      BY <2>3, <2>5, <3>1 DEF TableSet
    <3>3. Loading(p)' /\ Writing(p)'
      BY <2>2, <2>4, <2>7, <3>2 DEF Loading, Writing
    <3> QED BY <1>t, <2>3, <2>6, <3>2, <3>3, OwnGenerations
  <2>8. CASE k[p] = 2
    <3>1. PageTable(p) = "region_data" /\ gens[db[p]]["fuel_mix"] \subseteq {disk["fuel_mix"]}
      BY <1>a, <2>1, <2>8 DEF PageTable, Tables, Loading
    <3>2. /\ gens'[db[p]]["region_data"] \subseteq {disk["region_data"]} \ {0}
          /\ gens'[db[p]]["fuel_mix"] = gens[db[p]]["fuel_mix"]
      BY <2>3, <2>5, <3>1 DEF TableSet
    <3>3. \A g \in gens[db[p]]["fuel_mix"] : g = disk["fuel_mix"] /\ g \in 1..MaxEra
      BY <2>5, <3>1 DEF TableSet
    <3>4. \A g \in {disk["region_data"]} \ {0} : g \in 1..MaxEra
      BY <2>1, <3>1, ConstantsTyped DEF Torn
    <3>5. \A g, h \in gens'[db[p]]["region_data"] \union gens'[db[p]]["fuel_mix"] : g = h
      BY <3>2, <3>3, <3>4 DEF GenerationInv, PagesAgree, TableSet
    <3>6. Loading(p)' /\ Writing(p)'
      BY <2>4, <2>8 DEF Loading, Writing
    <3> QED BY <1>t, <2>3, <2>6, <3>5, <3>6, OwnGenerations
  <2> QED BY <2>1, <2>7, <2>8
<1>8. ASSUME NEW p \in Procs, Crash(p) PROVE GenerationInv'
  <2>1. Writing(p)' /\ Loading(p)' /\ gens' = gens
    BY <1>8, <1>t, EndQuiet DEF Crash, tables
  <2>2. PagesAgree'
    <3>1. CASE disk' = disk
      BY <3>1 DEF GenerationInv, PagesAgree
    <3>2. CASE disk' = [disk EXCEPT ![Tables[k[p]]] = Torn]
      <4>1. Torn \notin 1..MaxEra /\ disk \in [TableSet -> 0..Torn]
        BY <1>t, ConstantsTyped DEF Torn, TypeInv, TypeOK
      <4>2. \A t \in TableSet : disk'[t] = disk[t] \/ disk'[t] = Torn
        BY <3>2, <4>1
      <4> QED BY <4>1, <4>2 DEF GenerationInv, PagesAgree
    <3> QED BY <1>8, <3>1, <3>2 DEF Crash
  <2> QED BY <1>t, <1>a, <2>1, <2>2, OwnGenerations DEF GenerationInv, OneGeneration
<1>9. ASSUME NEW p \in Procs, End(p), gens' = gens, disk' = disk PROVE GenerationInv'
  BY <1>9, <1>t, EndQuiet, QuietStep
<1>10. ASSUME NEW p \in Procs, gens' = gens, disk' = disk,
              \/ pc'[p] \in {"mark", "meta", "marts"}
              \/ pc'[p] = "load" /\ mode'[p] = "real"
       PROVE  GenerationInv'
  BY <1>10, QuietStep DEF Writing, Loading
<1>11. ASSUME NEW p \in Procs, LoadReal(p) \/ MarkReal(p) PROVE GenerationInv'
  <2>1. gens' = gens /\ disk' = disk /\ mode' = mode /\ mode[p] = "real"
    BY <1>11 DEF LoadReal, MarkReal, NextTable, pages
  <2>2. pc'[p] \in {"load", "mark", "meta"}
    BY <1>11, <1>t DEF LoadReal, MarkReal, NextTable, Goto, TypeInv, TypeOK
  <2> QED BY <1>10, <2>1, <2>2
<1>12. ASSUME NEW p \in Procs, MarkFixtures(p) \/ BuildFct(p) PROVE GenerationInv'
  <2>1. gens' = gens /\ disk' = disk /\ pc'[p] \in {"mark", "meta", "marts"}
    BY <1>12, <1>t DEF MarkFixtures, BuildFct, Goto, pages, TypeInv, TypeOK
  <2> QED BY <1>10, <2>1
<1>13. ASSUME NEW p \in Procs, StampMeta(p) \/ TornPage(p) \/ BuildMarts(p) \/ Draw(p) \/ Export(p)
       PROVE  GenerationInv'
  BY <1>9, <1>13 DEF StampMeta, TornPage, BuildMarts, Draw, Export, tables, pages
<1> QED BY <1>0, <1>1, <1>2, <1>3, <1>4, <1>5, <1>6, <1>7, <1>8, <1>11, <1>12, <1>13 DEF Next, Step

\* With one process at a time, the synthetic rows of a database are always of one
\* generation of pages, wherever the generator and the load are killed.
THEOREM GenerationsNeverMix == OneProcess => (Spec => []OneGeneration)
<1> SUFFICES ASSUME OneProcess PROVE Spec => []OneGeneration
  OBVIOUS
<1>1. GenerationInv /\ GuardInv /\ [Next]_vars => GenerationInv'
  BY GenerationStep
<1>2. GenerationInv => OneGeneration
  BY DEF GenerationInv
<1> QED BY <1>1, <1>2, GenerationInit, GuardInit, GuardStep, PTL DEF Spec
=============================================================================
