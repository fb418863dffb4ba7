----------------------------- MODULE Provenance -----------------------------
(***************************************************************************)
(* Real and synthetic data in the warehouses: ingest.py's choice of a      *)
(* database, its contamination guard and its fixture mode, provenance.py's *)
(* verdict, the generator of the fixture pages, the dbt build,             *)
(* make_charts.py and export_to_cloud.py.                                  *)
(*                                                                         *)
(* A table is the set of row sources found in it.  Every statement commits *)
(* on its own and a process may die between any two.  A local database     *)
(* file admits one process at a time (DuckDB's lock); a cloud one many.    *)
(***************************************************************************)
EXTENDS Naturals, FiniteSets

CONSTANTS
  Procs,        \* processes
  Databases,    \* the databases there are
  Migrated,     \* those that may begin with unlabelled rows, from before _source
  Paths,        \* the strings GRID_DB_PATH may hold
  DbOf,         \* DbOf[path]: the database a path opens
  MdPaths,      \* the paths spelled "md:..."
  CloudPaths,   \* the paths DuckDB sends to MotherDuck: "md:", "MD:", ...
  RealPath,     \* cfg.db_path
  DevPath,      \* FIXTURES_DB_DEFAULT
  Unset,        \* GRID_DB_PATH is not set
  DotEnvs,      \* what the file .env may set GRID_DB_PATH to
  Generated,    \* the generation of pages on disk to begin with, 0 for none
  MaxEra,       \* bound: how often the fixture pages are generated
  CommandLines, \* the <<command, GRID_DB_PATH>> pairs in use
  AllowLocal    \* export_to_cloud.py --allow-local is in use

Tables  == <<"region_data", "fuel_mix">>
TableSet == {"region_data", "fuel_mix"}
Sources == {"eia_api", "dev_fixtures", "unlabelled"}
Cloud   == {DbOf[path] : path \in CloudPaths}
Modes   == {"real", "fixtures", "build", "rebuild", "charts", "publish"}
OutDirs == {"docs/img", "data/charts"}
Torn    == MaxEra + 1   \* a page whose writing was cut short

ASSUME ProvenanceAssumption ==
  /\ DbOf \in [Paths -> Databases]
  /\ Migrated \subseteq Databases
  /\ MdPaths \subseteq CloudPaths /\ CloudPaths \subseteq Paths
  /\ \A path \in Paths : DbOf[path] \in Cloud => path \in CloudPaths
  /\ RealPath \in Paths /\ DevPath \in Paths \ CloudPaths
  /\ DbOf[RealPath] # DbOf[DevPath]
  /\ CommandLines \subseteq Modes \X (Paths \union {Unset})
  /\ AllowLocal \in BOOLEAN
  /\ DotEnvs \subseteq Paths \union {Unset} /\ MaxEra \in Nat \ {0} /\ Generated \in 0..MaxEra

VARIABLES
  raw,        \* raw[d][t]: the sources of the rows of raw table t
  gens,       \* gens[d][t]: the page generations its fixture rows are from
  marks,      \* marks[d][t]: what the stored watermark was derived from
  meta,       \* meta[d]: the "source" key of raw._load_meta
  fct,        \* fct[d]: the sources behind the rows of fct_grid_hourly
  marts,      \* marts[d]: the same for the marts built from it
  disk,       \* disk[t]: the generation of table t's fixture pages, 0 for none
  era,        \* how often the pages have been generated
  dotenv,     \* GRID_DB_PATH in the file .env
  chart,      \* chart[o]: the charts in the directory o, and what they were drawn of
  published,  \* the sources behind the public tables in BigQuery
  emptied,    \* history: databases the last fixture load left without a raw row
  pc, mode, db, k   \* per process: place, command, database, loop counter

pages  == <<disk, era, dotenv>>
tables == <<raw, gens, marks, meta, fct, marts>>
vars   == <<raw, gens, marks, meta, fct, marts, disk, era, dotenv, chart, published,
            emptied, pc, mode, db, k>>

RawSources(d) == raw[d]["region_data"] \union raw[d]["fuel_mix"]

\* Mistake: the verdict looks at one of the two raw tables.
VerdictOfRegion(d) ==
  LET s == raw[d]["region_data"] IN
  IF s = {} THEN "empty"
  ELSE IF s \ {"eia_api", "dev_fixtures"} # {} THEN "unknown"
  ELSE IF s = {"eia_api"} THEN "real"
  ELSE IF s = {"dev_fixtures"} THEN "fixtures" ELSE "mixed"

\* Mistake: the verdict believes the stamp of the last run that ended.
VerdictOfMeta(d) ==
  IF meta[d] = "none" THEN "empty" ELSE IF meta[d] = "eia_api" THEN "real" ELSE "fixtures"

\* data_provenance: the verdict on a database, from its rows alone.
Verdict(d) ==
  LET s == RawSources(d) IN
  IF s = {} THEN "empty"
  ELSE IF s \ {"eia_api", "dev_fixtures"} # {} THEN "unknown"
  ELSE IF s = {"eia_api"} THEN "real"
  ELSE IF s = {"dev_fixtures"} THEN "fixtures" ELSE "mixed"

\* GRID_DB_PATH as a command sees it: only the ingester reads .env, and what
\* the shell has set wins over it.
Env(m, env) == IF env = Unset /\ m \in {"real", "fixtures"} THEN dotenv ELSE env

\* resolve_db_path: the environment wins, else each mode has its own file.
ResolveDbPath(m, env) ==
  IF Env(m, env) # Unset THEN Env(m, env) ELSE IF m = "fixtures" THEN DevPath ELSE RealPath

\* Mistake: only "md:" in lower case is a cloud path.
IsMdPath(path) == path \in MdPaths

IsCloudPath(path) == path \in CloudPaths

\* Mistake: a publish refuses synthetic data instead of all that is not real.
RefusedUnlessSynthetic(m, path) ==
  LET v == Verdict(DbOf[path]) IN
  \/ m = "fixtures" /\ (IsCloudPath(path) \/ v \in {"real", "mixed", "unknown"})
  \/ m = "real" /\ v \in {"fixtures", "mixed", "unknown"}
  \/ m = "publish" /\ (v \in {"fixtures", "mixed"} \/ ~(IsCloudPath(path) \/ AllowLocal))

\* Mistake: rows of unknown origin pass for real ones.
RefusedUnlessKnown(m, path) ==
  LET v == Verdict(DbOf[path]) IN
  \/ m = "fixtures" /\ (IsCloudPath(path) \/ v \in {"real", "mixed", "unknown"})
  \/ m = "real" /\ v \in {"fixtures", "mixed"}
  \/ m = "publish" /\ (v # "real" \/ ~(IsCloudPath(path) \/ AllowLocal))

\* guard_against_contamination and refuse_unsafe_source.
Refused(m, path) ==
  LET v == Verdict(DbOf[path]) IN
  \/ m = "fixtures" /\ (IsCloudPath(path) \/ v \in {"real", "mixed", "unknown"})
  \/ m = "real" /\ v \in {"fixtures", "mixed", "unknown"}
  \/ m = "publish" /\ (v # "real" \/ ~(IsCloudPath(path) \/ AllowLocal))

Idle(p) == pc[p] = "idle"
Generating(p) == pc[p] \in {"unlink", "write"}
Free(d) == d \in Cloud \/ \A p \in Procs : Idle(p) \/ Generating(p) \/ db[p] # d

Goto(p, place) == pc' = [pc EXCEPT ![p] = place]

\* A fixture load that dies between its DELETEs and its first page leaves no row;
\* the next one makes up for it.
End(p) ==
  /\ emptied' = IF mode[p] # "fixtures" THEN emptied
                ELSE IF RawSources(db[p]) = {} THEN emptied \union {db[p]}
                ELSE emptied \ {db[p]}
  /\ Goto(p, "idle")
  /\ mode' = [mode EXCEPT ![p] = "build"]
  /\ db' = [db EXCEPT ![p] = DbOf[RealPath]]
  /\ k' = [k EXCEPT ![p] = 1]

First(m) == CASE m = "real" -> "load" [] m = "fixtures" -> "wipe"
              [] m \in {"build", "rebuild"} -> "fct"
              [] m = "charts" -> "draw" [] m = "publish" -> "export"

\* Open the database; the guard comes first, and a refusal exits.
Start(p, m, env) ==
  LET path == ResolveDbPath(m, env) IN
  /\ Idle(p) /\ Free(DbOf[path])
  /\ ~Refused(m, path)
  /\ Goto(p, First(m))
  /\ mode' = [mode EXCEPT ![p] = m]
  /\ db' = [db EXCEPT ![p] = DbOf[path]]
  /\ k' = [k EXCEPT ![p] = 1]
  /\ UNCHANGED <<tables, pages, chart, published, emptied>>

-----------------------------------------------------------------------------
(* generate_dev_fixtures.py. *)

\* Mistake: the pages of an earlier generation are left where they are.
GenerateOver(p) ==
  /\ Idle(p) /\ era < MaxEra
  /\ era' = era + 1
  /\ Goto(p, "write")
  /\ UNCHANGED <<tables, disk, dotenv, chart, published, mode, db, k, emptied>>

Generate(p) ==
  /\ Idle(p) /\ era < MaxEra
  /\ era' = era + 1
  /\ Goto(p, "unlink")
  /\ UNCHANGED <<tables, disk, dotenv, chart, published, mode, db, k, emptied>>

\* The stale pages go first, in whatever order glob lists them.
Unlink(p) ==
  /\ pc[p] = "unlink"
  /\ \/ /\ \E t \in TableSet : disk[t] # 0 /\ disk' = [disk EXCEPT ![t] = 0]
        /\ UNCHANGED pc
     \/ /\ \A t \in TableSet : disk[t] = 0
        /\ Goto(p, "write")
        /\ UNCHANGED disk
  /\ UNCHANGED <<tables, era, dotenv, chart, published, mode, db, k, emptied>>

\* region_data first, then fuel_mix.
WritePages(p) ==
  /\ pc[p] = "write"
  /\ disk' = [disk EXCEPT ![Tables[k[p]]] = era]
  /\ IF k[p] = 1
       THEN k' = [k EXCEPT ![p] = 2] /\ UNCHANGED <<pc, mode, db, emptied>>
       ELSE End(p)
  /\ UNCHANGED <<tables, era, dotenv, chart, published>>

-----------------------------------------------------------------------------
(* ingest.py. *)

Table(p) == Tables[k[p]]

NextTable(p, after) ==
  /\ Goto(p, IF k[p] = 1 THEN "load" ELSE after)
  /\ k' = [k EXCEPT ![p] = IF k[p] = 1 THEN 2 ELSE 1]
  /\ UNCHANGED <<mode, db, emptied>>

\* A real run loads a window of a route; an empty response loads nothing.
LoadReal(p) ==
  /\ pc[p] = "load" /\ mode[p] = "real"
  /\ \/ /\ raw' = [raw EXCEPT ![db[p]][Table(p)] = @ \union {"eia_api"}]
        /\ Goto(p, "mark")
        /\ UNCHANGED <<mode, db, k, emptied>>
     \/ /\ NextTable(p, "meta")
        /\ UNCHANGED raw
  /\ UNCHANGED <<gens, marks, meta, fct, marts, pages, chart, published>>

\* greatest(): a stored watermark that is later stays.
MarkReal(p) ==
  /\ pc[p] = "mark" /\ mode[p] = "real"
  /\ \E m \in {"eia_api", marks[db[p]][Table(p)]} \ {"none"} :
       marks' = [marks EXCEPT ![db[p]][Table(p)] = m]
  /\ NextTable(p, "meta")
  /\ UNCHANGED <<raw, gens, meta, fct, marts, pages, chart, published>>

\* set_load_meta at the end of a run; both kinds of run write the same key.
StampMeta(p) ==
  /\ pc[p] = "meta"
  /\ meta' = [meta EXCEPT ![db[p]] =
                IF mode[p] = "real" THEN "eia_api" ELSE "dev_fixtures"]
  /\ End(p)
  /\ UNCHANGED <<raw, gens, marks, fct, marts, pages, chart, published>>

\* run_fixtures: four DELETEs, each a statement of its own.
Wipe(p) ==
  /\ pc[p] = "wipe"
  /\ raw' = [raw EXCEPT ![db[p]] =
               [t \in TableSet |-> IF k[p] <= 2 /\ t = Tables[k[p]] THEN {} ELSE @[t]]]
  /\ gens' = [gens EXCEPT ![db[p]] =
               [t \in TableSet |-> IF k[p] <= 2 /\ t = Tables[k[p]] THEN {} ELSE @[t]]]
  /\ marks' = IF k[p] = 3 THEN [marks EXCEPT ![db[p]] = [t \in TableSet |-> "none"]]
                          ELSE marks
  /\ meta' = IF k[p] = 4 THEN [meta EXCEPT ![db[p]] = "none"] ELSE meta
  /\ Goto(p, IF k[p] = 4 THEN "pages" ELSE "wipe")
  /\ k' = [k EXCEPT ![p] = IF k[p] = 4 THEN 1 ELSE k[p] + 1]
  /\ UNCHANGED <<fct, marts, pages, chart, published, mode, db, emptied>>

\* glob: without a page on disk it is SystemExit, after the DELETEs.
ListPages(p) ==
  /\ pc[p] = "pages"
  /\ IF \A t \in TableSet : disk[t] = 0
       THEN End(p)
       ELSE Goto(p, "load") /\ UNCHANGED <<mode, db, k, emptied>>
  /\ UNCHANGED <<tables, pages, chart, published>>

\* The order of the sorted file names: fuel_mix before region_data.
PageTable(p) == Tables[3 - k[p]]

\* A page that is not JSON: the process dies of it.
TornPage(p) ==
  /\ pc[p] = "load" /\ mode[p] = "fixtures"
  /\ disk[PageTable(p)] = Torn
  /\ End(p)
  /\ UNCHANGED <<tables, pages, chart, published>>

\* Mistake: a page cut short is loaded as far as it goes.
LoadTornPages(p) ==
  /\ pc[p] = "load" /\ mode[p] = "fixtures"
  /\ LET g == {disk[PageTable(p)]} \ {0} IN
       /\ gens' = [gens EXCEPT ![db[p]][PageTable(p)] = @ \union g]
       /\ raw' = IF g = {} THEN raw
                 ELSE [raw EXCEPT ![db[p]][PageTable(p)] = @ \union {"dev_fixtures"}]
  /\ NextTable(p, "mark")
  /\ UNCHANGED <<marks, meta, fct, marts, pages, chart, published>>

\* Upsert the pages; the watermarks follow the last page.
LoadPages(p) ==
  /\ pc[p] = "load" /\ mode[p] = "fixtures"
  /\ disk[PageTable(p)] # Torn
  /\ LET g == {disk[PageTable(p)]} \ {0} IN
       /\ gens' = [gens EXCEPT ![db[p]][PageTable(p)] = @ \union g]
       /\ raw' = IF g = {} THEN raw
                 ELSE [raw EXCEPT ![db[p]][PageTable(p)] = @ \union {"dev_fixtures"}]
  /\ NextTable(p, "mark")
  /\ UNCHANGED <<marks, meta, fct, marts, pages, chart, published>>

\* For the routes that had a page.
MarkFixtures(p) ==
  /\ pc[p] = "mark" /\ mode[p] = "fixtures"
  /\ marks' = IF raw[db[p]][PageTable(p)] = {} THEN marks
              ELSE [marks EXCEPT ![db[p]][PageTable(p)] = "dev_fixtures"]
  /\ k' = [k EXCEPT ![p] = IF k[p] = 1 THEN 2 ELSE 1]
  /\ Goto(p, IF k[p] = 1 THEN "mark" ELSE "meta")
  /\ UNCHANGED <<raw, gens, meta, fct, marts, pages, chart, published, mode, db, emptied>>

-----------------------------------------------------------------------------
\* dbt: a full refresh rebuilds the fact from raw, an incremental run keeps
\* every row whose key it does not write again.
BuildFct(p) ==
  /\ pc[p] = "fct"
  /\ \E kept \in SUBSET fct[db[p]] :
       /\ mode[p] = "rebuild" => kept = {}
       /\ fct' = [fct EXCEPT ![db[p]] = kept \union RawSources(db[p])]
  /\ Goto(p, "marts")
  /\ UNCHANGED <<raw, gens, marks, meta, marts, pages, chart, published, mode, db, k, emptied>>

\* The marts are tables rebuilt from the fact.
BuildMarts(p) ==
  /\ pc[p] = "marts"
  /\ marts' = [marts EXCEPT ![db[p]] = fct[db[p]]]
  /\ End(p)
  /\ UNCHANGED <<raw, gens, marks, meta, fct, pages, chart, published>>

\* make_charts.py: the verdict decides the watermark and the directory, the
\* marts the picture.
Draw(p) ==
  LET real == Verdict(db[p]) = "real" IN
  /\ pc[p] = "draw" /\ marts[db[p]] # {}
  /\ chart' = [chart EXCEPT ![IF real THEN "docs/img" ELSE "data/charts"] =
                 [clean |-> real, shows |-> marts[db[p]], of |-> db[p]]]
  /\ End(p)
  /\ UNCHANGED <<tables, pages, published>>

\* export_to_cloud.py, once its source was accepted.
Export(p) ==
  /\ pc[p] = "export"
  /\ published' = published \union fct[db[p]] \union marts[db[p]]
  /\ End(p)
  /\ UNCHANGED <<tables, pages, chart>>

\* A process that fails, or is killed, anywhere; a page may be half written.
Crash(p) ==
  /\ ~Idle(p)
  /\ disk' \in {disk} \union
       (IF pc[p] = "write" THEN {[disk EXCEPT ![Tables[k[p]]] = Torn]} ELSE {})
  /\ End(p)
  /\ UNCHANGED <<tables, era, dotenv, chart, published>>

-----------------------------------------------------------------------------
\* A database may be new, or be left from before rows were labelled.
Init ==
  /\ \E old \in SUBSET Migrated :
       raw = [d \in Databases |-> [t \in TableSet |->
                IF d \in old THEN {"unlabelled"} ELSE {}]]
  /\ gens = [d \in Databases |-> [t \in TableSet |-> {}]]
  /\ marks = [d \in Databases |-> [t \in TableSet |-> "none"]]
  /\ meta = [d \in Databases |-> "none"]
  /\ fct = [d \in Databases |-> {}]
  /\ marts = [d \in Databases |-> {}]
  /\ disk = [t \in TableSet |-> Generated] /\ era = Generated
  /\ dotenv \in DotEnvs
  /\ chart = [o \in OutDirs |-> [clean |-> FALSE, shows |-> {}, of |-> DbOf[RealPath]]]
  /\ published = {}
  /\ emptied = {}
  /\ pc = [p \in Procs |-> "idle"]
  /\ mode = [p \in Procs |-> "build"]
  /\ db = [p \in Procs |-> DbOf[RealPath]]
  /\ k = [p \in Procs |-> 1]

Step(p) ==
  \/ LoadReal(p) \/ MarkReal(p) \/ StampMeta(p)
  \/ Unlink(p) \/ WritePages(p)
  \/ Wipe(p) \/ ListPages(p) \/ TornPage(p) \/ LoadPages(p) \/ MarkFixtures(p)
  \/ BuildFct(p) \/ BuildMarts(p) \/ Draw(p) \/ Export(p)

Next ==
  \E p \in Procs :
    \/ \E c \in CommandLines : Start(p, c[1], c[2])
    \/ Generate(p)
    \/ Step(p)
    \/ Crash(p)

Spec == Init /\ [][Next]_vars

-----------------------------------------------------------------------------
TypeOK ==
  /\ raw \in [Databases -> [TableSet -> SUBSET Sources]]
  /\ gens \in [Databases -> [TableSet -> SUBSET (1..MaxEra)]]
  /\ marks \in [Databases -> [TableSet -> {"none", "eia_api", "dev_fixtures"}]]
  /\ meta \in [Databases -> {"none", "eia_api", "dev_fixtures"}]
  /\ fct \in [Databases -> SUBSET Sources]
  /\ marts \in [Databases -> SUBSET Sources]
  /\ disk \in [TableSet -> 0..Torn] /\ era \in 0..MaxEra
  /\ dotenv \in DotEnvs
  /\ chart \in [OutDirs -> [clean : BOOLEAN, shows : SUBSET Sources, of : Databases]]
  /\ published \in SUBSET Sources /\ emptied \subseteq Databases
  /\ pc \in [Procs -> {"idle", "load", "mark", "meta", "wipe", "pages",
                       "unlink", "write", "fct", "marts", "draw", "export"}]
  /\ mode \in [Procs -> Modes]
  /\ db \in [Procs -> Databases]
  /\ k \in [Procs -> 1..4]

\* Synthetic and real rows never meet in one database, whatever GRID_DB_PATH
\* says and wherever a run dies (guard_against_contamination: "Fixture data and
\* real data must never share a warehouse").
NeverMixed ==
  \A d \in Databases : ~({"eia_api", "dev_fixtures"} \subseteq RawSources(d))

\* No synthetic row, watermark or mart ever exists in a cloud database, however
\* its path is spelled (is_cloud_path).
CloudIsNeverSynthetic ==
  \A d \in Cloud :
    /\ "dev_fixtures" \notin RawSources(d) \union fct[d] \union marts[d]
    /\ \A t \in TableSet : marks[d][t] # "dev_fixtures"

\* The public tables show EIA data only: neither a synthetic row nor one of
\* unknown origin is published, though the publish looks at the raw tables and
\* exports the marts (refuse_unsafe_source, without --allow-local).
PublicTablesAreReal == published \subseteq {"eia_api"}

\* A database with a row of unknown origin is never written to by ingestion
\* (provenance.py: "Missing metadata is never interpreted as probably fine").
NothingTouchesUnknown ==
  \A d \in Databases :
    "unlabelled" \in RawSources(d) => raw'[d] = raw[d] /\ marks'[d] = marks[d]
UnknownIsLeftAlone == [][NothingTouchesUnknown]_vars

\* A real run never resumes from a watermark that synthetic rows left behind: it
\* would skip the real history before it.  So it is for one file in both modes,
\* loaded, marked, built or cut short anywhere, unless the last fixture load left it
\* without a row: the guard knows the past by the rows (ingest.py: "a warehouse that
\* ever held synthetic rows").
NoSyntheticResume ==
  \A p \in Procs : pc[p] = "load" /\ mode[p] = "real" /\ db[p] \notin emptied =>
    marks[db[p]][Table(p)] # "dev_fixtures"

\* Charts without a watermark show real data only, and so does what stands in
\* docs/img, though the verdict reads the raw tables and the chart marts built at
\* another time; with the same exception (make_charts.py: "so watermarked previews
\* never overwrite the README charts").
CleanChartsAreReal ==
  \A o \in OutDirs :
    (o = "docs/img" \/ chart[o].clean) /\ chart[o].of \notin emptied =>
      chart[o].shows \subseteq {"eia_api"}

\* The synthetic rows of a database are of one generation of pages, wherever the
\* generator and the fixture load die (run_fixtures: "Without this, repeated dev
\* runs accumulate history beyond the advertised fixture window").
OneGeneration ==
  \A d \in Databases : \A g, h \in gens[d]["region_data"] \union gens[d]["fuel_mix"] : g = h
=============================================================================
