------------------------------- MODULE Ingest -------------------------------
(***************************************************************************)
(* The ingestion runs of src/grid_pipeline/ingest.py against the EIA       *)
(* archive and the raw tables of src/grid_pipeline/db.py.                  *)
(*                                                                         *)
(* A run walks the (route, balancing authority) pairs in a fixed order.    *)
(* For each pair it reads the stored watermark, derives the hours to ask   *)
(* for, and goes through them window by window: fetch page by page,        *)
(* validate, upsert, advance the watermark.  Every database statement      *)
(* commits on its own, so a run may die between any two of them, and the   *)
(* archive publishes and restates hours while a run is under way.          *)
(*                                                                         *)
(* All rows of one pair and hour are one version number: 0 is an hour that *)
(* is absent, a restatement is a larger number.                            *)
(***************************************************************************)
EXTENDS Integers, Sequences, FiniteSets

CONSTANTS
  Routes,         \* the API routes ("region_data", "fuel_mix")
  BAs,            \* the balancing authorities
  Walk,           \* the pairs in the order of the two nested for loops
  Runs,           \* processes that may ingest into the same warehouse
  Modes,          \* the command lines in use: "incremental", "backfill", "replay"
  None,           \* no watermark stored
  BackfillStart,  \* backfill.start of config/pipeline.yml, as an hour
  StartHour,      \* the hour at which the history of this model begins
  MaxHour,        \* bound: the last hour of the clock
  MaxVersion,     \* bound: how often an hour is published and restated
  MaxFaults,      \* bound: crashes, failed requests and bad responses
  MaxSick,        \* bound: pairs whose every response is refused
  MonthStarts,    \* the hours at which a calendar month begins
  Lookback,       \* incremental.lookback_hours
  MaxSpan,        \* MAX_SINGLE_REQUEST_SPAN, in hours
  PageHours,      \* how many hours one page of a response holds
  Settle,         \* how long after an hour the archive may still change it
  Backlog         \* TRUE: that delay counts from the newest published hour

Hours    == 0..MaxHour
Ends     == (0 - Lookback)..MaxHour   \* a lookback may reach before hour 0
Pairs    == Routes \X BAs
Bogus    == MaxVersion + 1      \* a row in an unexpected unit
Versions == 0..Bogus
NoRows   == [b \in BAs |-> [h \in Hours |-> 0]]

ASSUME IngestAssumption ==
  /\ Walk \in Seq(Pairs) /\ Len(Walk) >= 1 /\ Pairs = {Walk[k] : k \in 1..Len(Walk)}
  /\ \A j, k \in 1..Len(Walk) : Walk[j] = Walk[k] => j = k
  /\ None \notin Int
  /\ MaxHour \in Nat /\ BackfillStart \in Hours /\ StartHour \in Hours
  /\ BackfillStart <= StartHour
  /\ MaxVersion \in Nat \ {0} /\ MaxFaults \in Nat /\ MaxSick \in Nat
  /\ Lookback \in Nat /\ MaxSpan \in Nat /\ Settle \in Nat
  /\ PageHours \in Nat \ {0} /\ MonthStarts \subseteq Int
  /\ Modes \subseteq {"incremental", "backfill", "replay"}
  /\ Backlog \in BOOLEAN

VARIABLES
  clock,   \* the current hour, truncated as datetime.now is
  eia,     \* eia[p][h]: the version the archive holds of pair p's hour h
  sick,    \* the pairs whose every response is refused
  raw,     \* raw[p][h]: the version in raw.eia_region_data / raw.eia_fuel_mix
  wm,      \* wm[p]: raw._ingest_watermarks
  meta,    \* the completion stamps present in raw._load_meta
  faults,  \* how many faults have happened
  asked,   \* history: asked[p] is the hours a loaded window has asked for
  pc, mode, now, since,   \* per run: its place, command line and clock reading
  idx, cur, wend, pg,     \* the pair walked, its window, the next hour to read
  resp                    \* resp[r][b][h]: the rows of the response so far

world == <<clock, eia, sick>>
store == <<raw, wm, meta, asked>>
job   == <<pc, mode, now, since, idx, cur, wend, pg, resp>>
vars  == <<clock, eia, sick, raw, wm, meta, faults, asked,
           pc, mode, now, since, idx, cur, wend, pg, resp>>

Larger(a, b) == IF a >= b THEN a ELSE b

-----------------------------------------------------------------------------
(* The archive. *)

\* EIA publishes late and restates, but only recent hours.
Recent(p, h) ==
  IF Backlog THEN \A g \in Hours : eia[p][g] # 0 => h + Settle >= g
             ELSE h + Settle >= clock

Publish(p, h) ==
  /\ h <= clock /\ Recent(p, h)
  /\ eia[p][h] < MaxVersion
  /\ eia' = [eia EXCEPT ![p][h] = @ + 1]
  /\ UNCHANGED <<clock, sick, store, faults, job>>

Tick ==
  /\ clock < MaxHour
  /\ clock' = clock + 1
  /\ UNCHANGED <<eia, sick, store, faults, job>>

-----------------------------------------------------------------------------
(* One run. *)

Pair(r)   == Walk[idx[r]]
Route(r)  == Pair(r)[1]
BA(r)     == Pair(r)[2]
Window(r) == cur[r]..wend[r]

\* e is the last hour of the calendar-month window that begins at s.
WindowEnd(s, e, n) ==
  /\ s <= e /\ e <= n
  /\ e = n \/ (e + 1) \in MonthStarts
  /\ \A m \in MonthStarts : ~(s < m /\ m <= e)

\* What a process that has ended still holds: nothing.
Blank(r) ==
  /\ idx' = [idx EXCEPT ![r] = 1]
  /\ cur' = [cur EXCEPT ![r] = 0]
  /\ wend' = [wend EXCEPT ![r] = 0]
  /\ pg' = [pg EXCEPT ![r] = 0]
  /\ resp' = [resp EXCEPT ![r] = NoRows]

Running(r) == pc[r] \in {"open", "fetch", "mark", "finish"}

\* run_backfill / run_incremental read the clock once, at their start.
Start(r, m, s) ==
  /\ ~Running(r)
  /\ m \in Modes
  /\ IF m = "replay" THEN s <= clock ELSE s = 0
  /\ pc' = [pc EXCEPT ![r] = "open"]
  /\ mode' = [mode EXCEPT ![r] = m]
  /\ now' = [now EXCEPT ![r] = clock]
  /\ since' = [since EXCEPT ![r] = s]
  /\ Blank(r)
  /\ UNCHANGED <<world, store, faults>>

\* Go on with the window that starts at s and ends at e.
OpenWindow(r, s, e) ==
  /\ cur' = [cur EXCEPT ![r] = s]
  /\ wend' = [wend EXCEPT ![r] = e]
  /\ pg' = [pg EXCEPT ![r] = s]
  /\ resp' = [resp EXCEPT ![r] = NoRows]
  /\ pc' = [pc EXCEPT ![r] = "fetch"]

\* The pair is finished: go on with the next one, or leave the loops.
NextPair(r) ==
  /\ pc' = [pc EXCEPT ![r] = IF idx[r] < Len(Walk) THEN "open" ELSE "finish"]
  /\ idx' = [idx EXCEPT ![r] = IF idx[r] < Len(Walk) THEN @ + 1 ELSE @]
  /\ cur' = [cur EXCEPT ![r] = 0]
  /\ wend' = [wend EXCEPT ![r] = 0]
  /\ pg' = [pg EXCEPT ![r] = 0]
  /\ resp' = [resp EXCEPT ![r] = NoRows]

\* Mistake: an incremental run begins right after the watermark.
FirstHourWithoutLookback(r) ==
  IF mode[r] = "replay" THEN Larger(since[r], BackfillStart)
  ELSE IF wm[Pair(r)] = None THEN BackfillStart ELSE wm[Pair(r)] + 1

\* Mistake: one watermark for all pairs, the newest of them.
FirstHourOfNewestPair(r) ==
  LET marks == {wm[p] : p \in Pairs} \ {None} IN
  IF mode[r] = "replay" THEN Larger(since[r], BackfillStart)
  ELSE IF marks = {} THEN BackfillStart
  ELSE LET w == CHOOSE h \in marks : \A g \in marks : g <= h IN
       IF mode[r] = "backfill" THEN w + 1 ELSE w - Lookback

\* Where a run begins a pair, from the watermark it has just read.
FirstHour(r) ==
  LET w == wm[Pair(r)] IN
  IF mode[r] = "replay" THEN Larger(since[r], BackfillStart)
  ELSE IF w = None THEN BackfillStart
  ELSE IF mode[r] = "backfill" THEN w + 1 ELSE w - Lookback

\* A backfill that is resumed leaves out a pair that is current.
Current(r) == mode[r] = "backfill" /\ FirstHour(r) >= now[r]

SkipPair(r) ==
  /\ pc[r] = "open" /\ Current(r)
  /\ NextPair(r)
  /\ UNCHANGED <<world, store, faults, mode, now, since>>

\* One request for a short incremental range, month windows for the rest.
OpenPair(r) ==
  /\ pc[r] = "open" /\ ~Current(r)
  /\ LET s == FirstHour(r) IN
       IF mode[r] = "incremental" /\ now[r] - s <= MaxSpan
         THEN OpenWindow(r, s, now[r])
         ELSE \E e \in Ends : WindowEnd(s, e, now[r]) /\ OpenWindow(r, s, e)
  /\ UNCHANGED <<world, store, faults, mode, now, since, idx>>

\* The hours of the next page of the response.
Page(r) == {h \in Window(r) \cap Hours : pg[r] <= h /\ h < pg[r] + PageHours}

WithPage(r) ==
  [resp[r] EXCEPT ![BA(r)] =
     [h \in Hours |-> IF h \in Page(r) THEN eia[Pair(r)][h] ELSE @[h]]]

\* iter_rows: one page, answered with what the archive holds at this moment.
ReadPage(r) ==
  /\ pc[r] = "fetch" /\ pg[r] <= wend[r] /\ Pair(r) \notin sick
  /\ resp' = [resp EXCEPT ![r] = WithPage(r)]
  /\ pg' = [pg EXCEPT ![r] = @ + PageHours]
  /\ UNCHANGED <<world, store, faults, pc, mode, now, since, idx, cur, wend>>

\* A page that also holds one row nobody asked for: another respondent's, one
\* outside the window, or one in another unit.
ReadBadPage(r, b, h, v) ==
  /\ pc[r] = "fetch" /\ pg[r] <= wend[r] /\ Pair(r) \notin sick
  /\ faults < MaxFaults
  /\ b # BA(r) \/ h \notin Window(r) \/ v = Bogus
  /\ resp' = [resp EXCEPT ![r] = [WithPage(r) EXCEPT ![b][h] = v]]
  /\ pg' = [pg EXCEPT ![r] = @ + PageHours]
  /\ faults' = faults + 1
  /\ UNCHANGED <<world, store, pc, mode, now, since, idx, cur, wend>>

\* Mistake: only the first hour's unit is looked at.
OddFirstUnit(r) == Window(r) \cap Hours # {} /\ resp[r][BA(r)][Larger(cur[r], 0)] = Bogus

\* Mistake: a row of another respondent is let through.
AnyBA(r) == FALSE

WrongBA(r)  == \E b \in BAs \ {BA(r)}, h \in Hours : resp[r][b][h] # 0
Stray(r)    == \E b \in BAs, h \in Hours \ Window(r) : resp[r][b][h] # 0
OddUnits(r) == \E b \in BAs, h \in Hours : resp[r][b][h] = Bogus
Rows(r)     == {row \in BAs \X Hours : resp[r][row[1]][row[2]] # 0}

Fetched(r)  == pc[r] = "fetch" /\ pg[r] > wend[r]

\* The process exits 2, 3 or 4, or is killed.
Die(r) ==
  /\ pc' = [pc EXCEPT ![r] = "failed"]
  /\ mode' = [mode EXCEPT ![r] = "incremental"]
  /\ now' = [now EXCEPT ![r] = 0]
  /\ since' = [since EXCEPT ![r] = 0]
  /\ Blank(r)

\* The response violates its request: EIAError, exit 4.
Reject(r) ==
  /\ Fetched(r)
  /\ WrongBA(r) \/ Stray(r) \/ OddUnits(r)
  /\ Die(r)
  /\ UNCHANGED <<world, store, faults>>

\* The same, night after night: an API error for this pair, or rows that are
\* malformed or in a unit that EIA has renamed.
Refuse(r) ==
  /\ pc[r] = "fetch" /\ Pair(r) \in sick
  /\ Die(r)
  /\ UNCHANGED <<world, store, faults>>

\* db.upsert_rows of every row of the response, in one statement.
Upserted(r) ==
  [p \in Pairs |-> [h \in Hours |->
     IF p[1] = Route(r) /\ resp[r][p[2]][h] # 0 THEN resp[r][p[2]][h]
                                                ELSE raw[p][h]]]

\* Mistake: an empty window is taken for the end of the pair's data.
OnwardUnlessEmpty(r) ==
  \/ /\ wend[r] < now[r] /\ Rows(r) # {}
     /\ \E e \in Ends : /\ WindowEnd(wend[r] + 1, e, now[r])
                         /\ OpenWindow(r, wend[r] + 1, e)
     /\ UNCHANGED idx
  \/ /\ wend[r] >= now[r] \/ Rows(r) = {}
     /\ NextPair(r)

\* After a window: the next one, or the next pair.
Onward(r) ==
  \/ /\ wend[r] < now[r]
     /\ \E e \in Ends : /\ WindowEnd(wend[r] + 1, e, now[r])
                         /\ OpenWindow(r, wend[r] + 1, e)
     /\ UNCHANGED idx
  \/ /\ wend[r] >= now[r]
     /\ NextPair(r)

\* Mistake: a replay moves the watermark as well.
MarksAlways(r) == Rows(r) # {}

Marks(r) == Rows(r) # {} /\ mode[r] # "replay"

Load(r) ==
  /\ Fetched(r)
  /\ ~WrongBA(r) /\ ~Stray(r) /\ ~OddUnits(r)
  /\ raw' = Upserted(r)
  /\ asked' = [asked EXCEPT ![Pair(r)] = @ \union (Window(r) \cap Hours)]
  /\ \/ /\ Marks(r)
        /\ pc' = [pc EXCEPT ![r] = "mark"]
        /\ UNCHANGED <<idx, cur, wend, pg, resp>>
     \/ ~Marks(r) /\ Onward(r)
  /\ UNCHANGED <<world, faults, wm, meta, mode, now, since>>

\* Mistake: the watermark is the end of the window that was asked for.
MarkWindowEnd(r) ==
  /\ pc[r] = "mark"
  /\ wm' = [wm EXCEPT ![Pair(r)] = IF @ = None THEN wend[r] ELSE Larger(@, wend[r])]
  /\ Onward(r)
  /\ UNCHANGED <<world, faults, raw, meta, asked, mode, now, since>>

\* Mistake: the stored watermark is overwritten, not compared.
MarkOverwritten(r) ==
  /\ pc[r] = "mark"
  /\ \E top \in Hours :
       /\ \E b \in BAs : resp[r][b][top] # 0
       /\ \A row \in Rows(r) : row[2] <= top
       /\ wm' = [wm EXCEPT ![Pair(r)] = top]
  /\ Onward(r)
  /\ UNCHANGED <<world, faults, raw, meta, asked, mode, now, since>>

\* set_watermark: the largest period loaded, never below the stored one.
Mark(r) ==
  /\ pc[r] = "mark"
  /\ \E top \in Hours :
       /\ \E b \in BAs : resp[r][b][top] # 0
       /\ \A row \in Rows(r) : row[2] <= top
       /\ wm' = [wm EXCEPT ![Pair(r)] =
                   IF @ = None THEN top ELSE Larger(@, top)]
  /\ Onward(r)
  /\ UNCHANGED <<world, faults, raw, meta, asked, mode, now, since>>

\* Both loops are done: stamp raw._load_meta and exit 0.
Finish(r) ==
  /\ pc[r] = "finish"
  /\ meta' = meta \union {IF mode[r] = "incremental" THEN "last_incremental_at"
                                                     ELSE "last_backfill_at"}
  /\ pc' = [pc EXCEPT ![r] = "done"]
  /\ Blank(r)
  /\ UNCHANGED <<world, faults, raw, wm, asked, mode, now, since>>

\* A request that fails for good (exit 3 or 4), or a run killed anywhere.
Crash(r) ==
  /\ Running(r)
  /\ faults < MaxFaults
  /\ faults' = faults + 1
  /\ Die(r)
  /\ UNCHANGED <<world, store>>

-----------------------------------------------------------------------------
Init ==
  /\ clock = StartHour
  /\ eia \in [Pairs -> [Hours -> {0, 1}]]
  /\ \A p \in Pairs, h \in Hours : h > StartHour => eia[p][h] = 0
  /\ sick \in SUBSET Pairs /\ Cardinality(sick) <= MaxSick
  /\ raw = [p \in Pairs |-> [h \in Hours |-> 0]]
  /\ wm = [p \in Pairs |-> None]
  /\ meta = {}
  /\ faults = 0
  /\ asked = [p \in Pairs |-> {}]
  /\ pc = [r \in Runs |-> "idle"]
  /\ mode = [r \in Runs |-> "incremental"]
  /\ now = [r \in Runs |-> 0]
  /\ since = [r \in Runs |-> 0]
  /\ idx = [r \in Runs |-> 1]
  /\ cur = [r \in Runs |-> 0]
  /\ wend = [r \in Runs |-> 0]
  /\ pg = [r \in Runs |-> 0]
  /\ resp = [r \in Runs |-> NoRows]

Step(r) == SkipPair(r) \/ OpenPair(r) \/ ReadPage(r) \/ Reject(r) \/ Refuse(r)
             \/ Load(r) \/ Mark(r) \/ Finish(r)

Next ==
  \/ Tick
  \/ \E p \in Pairs, h \in Hours : Publish(p, h)
  \/ \E r \in Runs :
       \/ \E m \in Modes, s \in Hours : Start(r, m, s)
       \/ Step(r)
       \/ \E b \in BAs, h \in Hours, v \in {1, Bogus} : ReadBadPage(r, b, h, v)
       \/ Crash(r)

Spec == Init /\ [][Next]_vars

\* The nightly workflow starts an incremental run again and again, and a run
\* that is not killed goes on.
Nightly(r) == Start(r, "incremental", 0)
LiveSpec == Spec /\ \A r \in Runs : WF_vars(Step(r)) /\ WF_vars(Nightly(r))

-----------------------------------------------------------------------------
(* What the code promises. *)

TypeOK ==
  /\ clock \in Hours /\ StartHour <= clock
  /\ eia \in [Pairs -> [Hours -> 0..MaxVersion]]
  /\ sick \subseteq Pairs
  /\ raw \in [Pairs -> [Hours -> 0..MaxVersion]]   \* no row in an unexpected unit
  /\ wm \in [Pairs -> Hours \union {None}]
  /\ meta \subseteq {"last_incremental_at", "last_backfill_at"}
  /\ faults \in 0..MaxFaults
  /\ asked \in [Pairs -> SUBSET Hours]
  /\ pc \in [Runs -> {"idle", "open", "fetch", "mark", "finish", "done", "failed"}]
  /\ mode \in [Runs -> {"incremental", "backfill", "replay"}]
  /\ now \in [Runs -> Hours]
  /\ since \in [Runs -> Hours]
  /\ idx \in [Runs -> Nat] /\ \A r \in Runs : Running(r) => idx[r] \in 1..Len(Walk)
  /\ cur \in [Runs -> Int]
  /\ wend \in [Runs -> Ends]
  /\ pg \in [Runs -> Int]
  /\ resp \in [Runs -> [BAs -> [Hours -> Versions]]]

\* A watermark at hour w says that every hour from the configured start of
\* history to w has been asked for and loaded, so a later run may begin at w
\* (ingest.py, run_backfill's docstring: a pilot replay must not make an
\* ordinary backfill "believe itself current").
NoUnaskedHour ==
  \A p \in Pairs : wm[p] # None => BackfillStart..wm[p] \subseteq asked[p]

\* The hour a watermark names is in the raw table: the upsert is committed
\* before the watermark moves, whatever happens in between (_load_window).
WatermarkBacked ==
  \A p \in Pairs : wm[p] # None => raw[p][wm[p]] # 0

\* The warehouse holds nothing the archive never published for that pair and
\* hour: a response that breaks its own request loads no row (_load_window).
NothingInvented ==
  \A p \in Pairs, h \in Hours : raw[p][h] <= eia[p][h]

\* A run that exits 0 has asked, for every pair, for every hour up to the one
\* before its own start; a replay from its date on (run_backfill,
\* run_incremental: no pair is passed over except one that is current).
ExitZeroIsComplete ==
  \A r \in Runs : pc[r] = "done" =>
    \A p \in Pairs :
      (IF mode[r] = "replay" THEN Larger(since[r], BackfillStart)
                             ELSE BackfillStart)..(now[r] - 1) \subseteq asked[p]

\* Whatever the warehouse still gets wrong is where the next nightly run looks:
\* the late-arrival lookback reaches every hour that differs from the archive.
StaleIsReachable ==
  \A p \in Pairs, h \in Hours :
    /\ h >= BackfillStart
    /\ raw[p][h] # eia[p][h]
    /\ wm[p] # None
    => h >= wm[p] - Lookback

\* Why it holds, part 1: a run that walks a pair has asked for everything
\* before its window, or found it asked for by the runs before (run_backfill's
\* windows are contiguous; a lookback starts below the watermark).
WalkedSoFar ==
  \A r \in Runs : pc[r] \in {"fetch", "mark"} /\ mode[r] # "replay" =>
    BackfillStart..(cur[r] - 1) \subseteq asked[Pair(r)]

\* Part 2: a run about to move a watermark holds a response that passed every
\* check, whose rows are committed and whose window counts as asked for.
MarkIsEarned ==
  \A r \in Runs : pc[r] = "mark" =>
    /\ mode[r] # "replay"
    /\ ~WrongBA(r) /\ ~Stray(r) /\ ~OddUnits(r)
    /\ Window(r) \cap Hours \subseteq asked[Pair(r)]
    /\ \A h \in Hours : resp[r][BA(r)][h] # 0 => raw[Pair(r)][h] # 0

\* Part 3: what a response says of the hours it was asked for is something the
\* archive held, or a row in the wrong unit.
RespHonest ==
  \A r \in Runs, h \in Hours : pc[r] \in {"fetch", "mark"} /\ h \in Window(r) =>
    resp[r][BA(r)][h] = Bogus \/ resp[r][BA(r)][h] <= eia[Pair(r)][h]

\* The inductive invariant of the proofs.
IngestInv ==
  /\ TypeOK /\ NoUnaskedHour /\ WatermarkBacked /\ NothingInvented
  /\ WalkedSoFar /\ MarkIsEarned /\ RespHonest

\* A watermark never moves back, whichever runs overlap (db.set_watermark).
NoMarkFalls == \A p \in Pairs : wm[p] # None => wm'[p] # None /\ wm'[p] >= wm[p]
MarksOnlyAdvance == [][NoMarkFalls]_vars

\* The pairs a walk reaches: a refused pair ends the run with exit 4, so the
\* pairs after it wait until somebody repairs it.
Served == {Walk[k] : k \in {n \in 1..Len(Walk) : \A j \in 1..n : Walk[j] \notin sick}}

\* Under nightly runs the warehouse ends up with what the archive holds, for
\* every pair that no refused pair comes before: a run that dies loses nothing
\* of the pairs it has walked (ingest.py, "completed windows are saved").
Converges ==
  <>[](\A p \in Served, h \in Hours : h >= BackfillStart => raw[p][h] = eia[p][h])

\* Ingestion by one run at a time is a replica that only catches up: no window
\* loaded late, twice or after a restatement takes an hour back to an older
\* version, and no mark points at an hour that is not held (run_incremental and
\* run_backfill, "idempotent upserts").
Copy == INSTANCE Replica WITH source <- eia, copy <- raw, mark <- wm
IsReplica == Copy!Spec

=============================================================================
