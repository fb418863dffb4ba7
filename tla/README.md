# A TLA+ model of energy-grid-pipeline

The pipeline copies hourly grid data from the EIA API into DuckDB or MotherDuck,
builds marts from it with dbt, and publishes them to BigQuery. None of its parts
is difficult by itself. What is difficult is that five places each remember, on
their own terms, how far the data is known to be right:

| Place | What it remembers | What it trusts |
|---|---|---|
| `raw._ingest_watermarks` | the newest hour loaded per (route, authority) | a lookback of 72 h covers every restatement |
| `fct_grid_hourly` | its own newest demand hour and newest fuel hour per authority | a lookback of 96 h and a cap of 14 days cover what ingestion changes |
| the publish | nothing; it looks at the newest date and at `_ingested_at` | 5 days and 48 h cover what builds changed since the last good publish |
| the contamination guard | nothing; it looks at `_source` in the raw tables | nobody changes them between its look and the write |
| the chart watermark | nothing; it looks at `_source` as well | the marts were built from those rows |

Runs die between any two statements, the archive changes while it is read, and
operators mix backfills, replays, refreshes and fixture loads. These modules ask
which of the assumptions in the last column the code really secures.

## 1. Inventory

### Components

**EIA API client** (`client.py`). `iter_rows` walks a query by offset until `total`;
`_get` retries transport errors and 429/5xx with exponential backoff or `Retry-After`,
refuses other statuses, and stops with `ThrottledError` when asked to wait longer than a
cap; a throttle spaces its requests. Its state lives for one walk: offset, attempt, time
of the last request. *Hard:* the result changes between two pages; pages come short or
empty; `Retry-After` comes as seconds, as a date, perhaps past, or as neither. *Correct
if* a walk that ends without an error is complete, keeps the newest version of a row it
saw twice, neither hurries nor sleeps without bound, and ends.

**Ingestion runs** (`ingest.py`). `run_backfill` (with or without
`--replay-since`), `run_incremental` and `run_fixtures`; the first two share
`_load_window`: fetch, validate, upsert, advance the watermark. `main` resolves
the database, runs the guard and maps errors to exit codes. *Hard:* each statement
commits on its own; several runs may share the cloud database; the clock is read
once, the archive many times. *Correct if* no watermark passes an hour that was not
asked for, nothing is loaded that was not published, exit 0 means complete, and
whatever is still stale lies where the next night looks.

**Storage layer** (`db.py`). Schema and its migration, `upsert_rows`
(`INSERT OR REPLACE`, last duplicate wins), `set_watermark` (`greatest`), load
stamps, the query for row sources. State: the `raw` schema.

**Provenance verdict and contamination guard** (`provenance.py`, `ingest.py`,
`export_to_cloud.py`). The verdict on a database is computed from its rows: empty,
real, fixtures, mixed or unknown. *Correct if* real and synthetic rows never meet,
the cloud and the public tables never see synthetic rows, a real history never
starts from a synthetic watermark, and an unmarked chart is real.

**Configuration** (`config/pipeline.yml`, `config.py`). Constant during a run: it
gives the modules their CONSTANTS.

**dbt models**. Staging and pivot are views that flag, never drop;
`int_fuel_mix_by_category` also derives which fuel groups an authority is expected
to report; `fct_grid_hourly` is incremental (delete+insert after an edge found in
itself); the daily, profile and residual marts are rebuilt each time. *Hard:* the
fact's edge knows nothing about the ingestion watermarks; an expectation learned today
reaches hours built long ago; validity is three-valued SQL; days have 23, 24 or 25
hours. *Correct if* after each build the fact is what a full rebuild would give, an
outage is not learned as normal, and a day or an average that looks whole is whole.

**dbt tests and coverage gate**. They fail or pass a build; some grade to a warning.

**Publish** (`export_to_cloud.py`). Per-day partitions in a window, older days that
were ingested lately, or the whole table; small marts replaced whole. *Hard:* any
call may fail, and only the next night repairs it. *Correct if* a good night
leaves BigQuery equal to the marts.

**Nightly workflow** (`nightly.yml`). Ingest, build, publish, in this order; a
failure ends the night; a concurrency group admits one night at a time.

**Charts** (`make_charts.py`). Two charts from the marts, rendered beside their
places and renamed one after the other; a watermark says where the rows come from.
*Hard:* the marts are written one after the other and the build may stop between them;
the script may fail or be killed between the renames. *Correct if* the pictures hold only
sound hours of whole days, the label names the days averaged, and the pair belongs together.

**Fixture generator** (`generate_dev_fixtures.py`). Deletes and rewrites the pages
that fixture mode loads. *Correct if* a warehouse never holds two generations.

**Makefile and CI**, **seeds** and **unit tests**: see `PROJECT.json` for what is
modelled of each.

### How they interact

    EIA archive --(pages)--> client --(rows)--> ingest --(upsert, watermark)--> raw
                                                  |  guard reads raw              |
    charts <--(verdict from raw, picture from marts)--- marts <---(dbt build)-----+
                                                          |
    BigQuery <--(partitions; touched days from raw)--- publish

All interaction is through database state: no queue, no callback, no lock except
DuckDB's one-process-per-file lock on local databases. The hazards that follow from
it are listed, each at its line, under `hazards` in `PROJECT.json`.

## 2. The modules

| Module | Models | State | Actions |
|---|---|---|---|
| `Replica` | what ingestion promises, without runs or windows | source, copy, mark | `Change`, `CatchUp`, `Advance` |
| `Ingest` | backfill, incremental and replay runs against a changing archive | archive, raw rows, watermarks, stamps, the pairs the API refuses, and per run its place, window, page and response | `Start`, `SkipPair`, `OpenPair`, `ReadPage`, `ReadBadPage`, `Reject`, `Load`, `Mark`, `Finish`, `Crash`, `Refuse`, `Publish`, `Tick` |
| `Provenance` | guard, generator, fixture mode, `.env`, verdicts, builds, charts and publish as far as row sources go | row sources and page generations per table, what a watermark comes from, marts, pages on disk, charts per directory and what they were drawn of, the public tables, the databases a fixture load emptied | one per statement of each command, and `Crash` |
| `EIAClient` | one walk of `iter_rows` with `_get`'s throttle and retries | archive, offset, attempt, seconds slept, seconds since the last request by the client's clock and by the server's, rows kept | `Answer`, `TransportError`, `Unavailable`, `Refused`, `Exhausted` |
| `GridFact` | the incremental fact against ingestion | raw versions per table, watermarks, fact, the authorities owed a full refresh | `LoadPair`, `ReplayPair` and the failure of either, `BuildIncremental`, `BuildFull`, `FailBuild`, `AddBA` |
| `FuelExpectations` | which fuel groups are expected, and the flags the incremental fact keeps | reports per hour, seed rows, the fact's edge and flags | `Arrive`, `Restate`, `Retire`, `Build`, `BuildFull` |
| `Marts` | one hour's flags, a day's completeness, the days of a profile, as operators | | |
| `Charts` | builds that stop between models, and `make_charts.py` on what they leave (extends `Marts`) | raw, fact, daily, profile, rendered and published charts | `Change`, a build's three models and their failure, each rendering and rename, `Refuse`, `Interrupt`, `Kill` |
| `Publish` | nights of ingest, build and publish | data per day in raw, fact and BigQuery, queue of partitions | `Ingest`, `Build`, `Plan`, `SendWhole`, `SendDay`, `SendMarts`, `Fail` |
| `...Proofs`, `SetLemmas` | theorems about `Ingest`, `Provenance`, `EIAClient`, `GridFact`, `FuelExpectations`, `Charts` and `Publish` (section 5), and what they share | | |

Each `MC...` module gives an instance its model values. Operators commented
`Mistake:` are deliberate errors; no action uses them. Putting one in place of the
definition below it makes a property fail, which shows that the property can.

### How state and actions correspond to the code

*Ingest.* A version number stands for all rows (series) of one route, authority
and hour: 0 is absent, a restatement is larger. `pc[r]` is the place in
`run_incremental`/`run_backfill`: `open` is the top of the two `for` loops with the
watermark just read, `fetch` is inside `iter_rows`, `mark` lies between the commit
of `upsert_rows` and that of `set_watermark`, `finish` follows the loops. `Load` is
validation passed, `upsert_rows` done and, when there are no rows or the run is a
replay, already the next window; `Reject` is validation failed, `EIAError`, exit 4.
Windows are inclusive on both ends, end where a calendar month ends, and may start
before hour 0 when the lookback does. The two loops are `Walk`, any order of any
pairs; a configuration that names no authority is outside the model. A page is cut
by hours here and by offsets in `EIAClient`. The history variable `asked` is the
hours that a loaded window has covered. `sick` is a set of pairs, chosen at the start
for good, whose every response the API refuses (`Refuse`), night after night; `Served`
are the pairs that come before the first of them in the walk, since a refused pair ends
the run.

*Provenance.* A table is the set of `_source` values in it, `unlabelled` standing for
the NULLs that the schema migration leaves. A database starts new or, if it is in
`Migrated`, with unlabelled rows. `Wipe` is four steps, because `run_fixtures` issues
four DELETEs. `Start` includes the guard; the steps after it do not look again, as in
the code. A local file admits one process at a time, a cloud database any number. One
page stands for all pages of a table: `Unlink` and `WritePages` take the tables in the
order of the generator, a writer that is killed leaves a `Torn` page, and `LoadPages`
stops at one. `gens` records which generations the synthetic rows of a table are from.
`Env` is `GRID_DB_PATH`: the ingester alone loads `.env`. Charts are kept per directory,
`docs/img` for real rows and `data/charts` for others; `of` is the database they were
drawn of. The history variable `emptied` is the databases whose last fixture load ended,
killed or stopped at a page, with both raw tables empty.

*EIAClient.* A key is a row's place in the requested order. `shrunk` records that a row
before the offset was deleted during the walk. A request is `Throttle`, which reads and
stamps the client's own clock (`quiet`) and pauses, and `Arrive`, which measures at the
server's clock (`sent`, a history variable) how far the request is from the one before
(`gap`), however the client came to pause. A `Retry-After` is a kind (none, unreadable,
seconds, date) with its seconds.

*GridFact.* A version stands for all rows of a table, authority and hour; a fact row
is a pair of the metrics' and the fuel's version. `ReprocessFrom` is the SQL's
`greatest(least(demand edge, fuel edge), demand edge - cap) - lookback`. Ingestion
is taken with the contract that `Ingest` establishes, one pair per step. A replay loads any
hours whatever the watermarks say, on a warehouse that is complete, behind or empty, and
moves none; it may fail at any pair, without the full refresh. The history variable `owed`
is the authorities from a replay to the full refresh that completes it; that refresh
keeps those in it for which it took rows into the fact at or beyond the place where the
two lookbacks no longer meet (`Outruns`).

*FuelExpectations.* A report is the set of fuel codes with a row in an hour. `HoursIn`,
`SeenBy` and `InContract` are the CTEs `month_groups`, `group_first_seen` and the join
with the retirement seed; `Absent` is `absent_per_hour`. `flagged[h]` is what the fact's
row recorded on the night that wrote it. `Written` is the part of the fact's window that
no fuel edge widens, so a build here writes fewer hours again than the code may.

*Marts and Charts.* A value is in order, null, negative, absurd or beyond the ceiling,
or its row is absent; an hour is one such value per metric and fuel. The flags follow the
models' boolean expressions: a null or a missing row makes a test unknown, and `coalesce`
says what unknown counts as. A slot is a day and a place in it, `Clock` gives the local
hour, so that the day clocks go back has an hour twice. `BuildFact`, `BuildDaily` and
`BuildProfile` are the three models in dbt's order; `FailBuild` may stop after any.

*Publish.* A day's data is named by the night that ingested it. `TouchedNights = 2`
stands for 48 hours of a daily schedule.

## 3. The runs

| Run | Instance | Checks | Shows |
|---|---|---|---|
| `MCIngestOne` | 1 pair, hours 0..3, 2 versions, lookback 1, one page per hour, 1 fault; incremental and replay | `TypeOK`, `WatermarkBacked`, `StaleIsReachable`, `IsReplica` | a watermark names a row; what is stale is where the next night looks; ingestion implements `Replica` |
| `MCIngestPairs` | 2 authorities, hours 0..2, 1 fault, 1 refused pair, `Backlog`; incremental, fairness | `NothingInvented`, `NoUnaskedHour`, `StaleIsReachable`, `Converges` | a response that breaks its request loads nothing; late publication is caught up with for good, except behind a pair that stays refused |
| `MCIngestOverlap` | 1 pair, 2 runs at once, all modes | `NoUnaskedHour`, `ExitZeroIsComplete`, `MarksOnlyAdvance` | overlapping runs do not undo each other's watermarks |
| `MCIngestRerun` | 1 pair, hours 0..4, backfills and incremental runs | `StaleIsReachable` fails | see section 6 |
| `MCProvenanceDefaults` | 3 databases, the Makefile's command lines without `.env`, with the proposed one, and with one that gives real and fixture mode one file; two generations of pages, one process | `TypeOK`, `NoSyntheticResume`, `CleanChartsAreReal`, `OneGeneration` | watermarks and charts can be trusted, also where both modes share a file, unless a fixture load left no row; fixtures are of one piece |
| `MCProvenanceTogether` | 2 processes, the fixture file and the cloud spelled `MD:` | `NeverMixed`, `CloudIsNeverSynthetic`, `PublicTablesAreReal`, `UnknownIsLeftAlone` | the guard's one look is enough |
| `MCEIAClient` | 5 keys, pages of 2, 3 attempts, 2 changes during the walk, six `Retry-After` headers | `TypeOK`, `CompleteWalk`, `NewestIsKept`, `SleepIsBounded`, `RequestsAreSpaced`, `Terminates` | a walk without an error is complete, no request follows another at once, and every walk ends |
| `MCGridFact` | 2 authorities, either perhaps added later, hours 0..3, 2 versions, 4 rows in all, ingestion lookback 0, fact lookback 2, cap 1; replays of any hours | `TypeOK`, `StaleIsBeyondTheCap` | a build misses nothing but fuel beyond the cap, an authority added later gets its history, and a replay does harm only where it outran the watermarks |
| `MCGridFactPilot` | 1 authority, ingestion and replays | `ReconcilesWithSource` fails | see section 6 |
| `MCFuelExpectations` | 3 months of 3 hours (7 hours), solar with two codes and coal, floor 2, lookback 1, 1 late report, coal may be retired | `TypeOK`, `StaleFlagsAreExplained`, `DeclaredIsNeverStale`, `OutageIsNotLearned`, `FlagsHaveEvidence` | an old flag is out of date only where the project asks for a full refresh; no step unlearns a group, and no flag ever recorded rests on a blip |
| `MCCharts` | a month of two ordinary days and the first, long day of the next; every planted hour in every slot; 1 change, 2 drawings | `TypeOK`, `DuckIsSound`, `SameDays`, `SharesAreWhole`, `LabelNamesItsDays`, `PairBelongsTogether` | nothing unsound is charted, the label says what is, and the two charts are of one drawing unless it ended between the renames |
| `MCPublish` | 4 days, 4 nights, window of 2 days, at most 1 touched day | `TypeOK`, `OneMissedNightHeals` | one missed night heals on the next |

**Why the bounds are enough.** Each instance is the smallest in which every guard can go
both ways. In `MCIngestOne`, `MCIngestOverlap` and `MCIngestRerun`, lookback 1 and
`MaxSpan` 1 let an incremental run take both the single request and the month windows;
months begin at 0, 2 and 4 (at 0, 1 and 3 in `MCIngestOverlap`), so that a range crosses
a boundary; pages of one hour let the archive change between two pages of a window. In
`MCIngestPairs`, `MaxSpan` 9 and `PageHours` 9 make every run one request of one page
for each pair, as 72 hours of one authority are; section 6 says what happens otherwise,
and the month windows belong to the other three. In `EIAClient`, 5 keys need three
pages, and two changes can shift rows across both boundaries; the headers are each kind
once, with waits within the cap, above it, and a date that has passed. In `GridFact`, a
cap of 1 and a lookback of 2 within 4 hours leave room for an hour beyond both, and with
an ingestion lookback of 0 for a replay that stays within its watermark's reach and for
one that does not; `MaxRows` = 4 lets one authority have an edge at the last hour while
the other's history is still to come. It uses symmetry in the authorities, which nothing
distinguishes. In `FuelExpectations`, 7 hours of 3-hour months are two full months and a
begun one: a group can be seen, missing for a month, and come back; the floor of 2 needs
two hours of one month, and one hour may hold two codes. In `Charts`, days of two hours,
the long one with three, are the shortest in which a local hour is doubled; one change
turns a full month into a broken one or back; two drawings give the second a pair to
tear. In `Provenance`, two generations are what it takes to mix them, and one file for
both modes is what it takes for synthetic watermarks to meet a real run; that the cloud
database starts with unlabelled rows is left to `MCProvenanceTogether`. In `Publish`, 4
nights are a success, two failures and a recovery, and 4 days leave two outside a window
of two, one more than `MaxTouched`. Deadlock is off everywhere: clocks, versions and
nights are bounded, so every instance stops.

**Fairness.** Only two runs need it. `MCIngestPairs`: weak fairness of `Step(r)`, a
process that is not killed goes on; and of `Nightly(r)`, the cron of `nightly.yml`
starts an incremental run whenever none is under way. Neither `Publish` nor `Tick`
nor a fault is fair: the archive need not publish, and the bounds on versions and
faults mean only that it stops changing at some time. A refused pair is not a fault
that passes: `Converges` asks nothing of it or of the pairs behind it.
`MCEIAClient`: weak fairness
of `Client`, since each request is bounded by its timeout, so that some answer or
error comes.

## 4. Assumptions on the world

- *The archive restates only recent hours* (`Settle`, at most `Lookback`), as the
  README's 72-hour argument supposes. With `Backlog = FALSE` recent means close to
  the clock; with `TRUE`, close to the newest hour published, which is how an
  authority behaves that fell silent and then delivers its backlog.
  `StaleIsReachable` and `Converges` need this, no other property does.
- *Versions only grow*, in the archive and across the pages of a walk.
- *Faults are finitely many* (`MaxFaults`).
- *One run at a time* for `StaleIsReachable`, `IsReplica` and `Converges`. With two
  runs the older response can be written last; it heals while the hour is within
  the lookback.
- *Builds follow an ingestion that exited 0*, or a replay, as in the workflow, `make
  incremental` and `make replay`. A build by hand after a crash, with rows
  committed whose watermark did not move, is outside `GridFact`.
- *A replay is followed by its full refresh*, as in `make replay`, or fails, and then
  anything may follow; the properties of `GridFact` take an authority up again when a
  full refresh was built that did not outrun the watermarks. A replay says nothing about
  the order of a new authority's metrics and fuel that an ordinary run does not say.
- *Late reports stay within the lookback of the demand edge* (`FuelExpectations`): they
  come for hours that every next build writes. Fuel that comes later, the first reason in
  `assert_fct_fuel_is_current.sql`, leaves rows stale whatever is expected, and that is
  `GridFact`'s subject; its effect on the flags is not modelled.
- *A database that its last fixture load left without a row* is excepted from
  `NoSyntheticResume` and `CleanChartsAreReal` (section 6).
- *The ingestion lookback is shorter than the fact's* (72 h and 96 h), the margin
  being needed because the fact's window is exclusive and ingestion's inclusive.
  `GridFactAssumption` requires it; nothing in the code does.
- *Commands on one local file take turns*, because DuckDB locks it; so `Charts` lets
  no build run during a drawing. The generator and a fixture load take turns as well,
  in `make`'s order; nothing locks the pages.
- *An hour is broken the way the fixture generator breaks hours* (`Charts`), one defect
  at a time. Two metrics that are absurd together satisfy demand = generation -
  interchange, and no flag of the code can tell.
- *One authority* in `Marts`, `Charts` and `FuelExpectations`: the models join on it.
- *All fuel codes are in the seed* in `FuelExpectations`; `Marts` has one that is not.
- *Raw rows are never deleted*, except by fixture mode.
- *A response states its `total`.* Without one the client takes 0 and ends after
  the first page.
- *Only touched days change* between two publishes (`Publish`). Flags that change
  because an expectation did, without new rows, are not covered.
- `PUBLISH_ENABLED = false` counts as a missed night.

## 5. Proofs

Every property of every passing run is also a theorem, except the two liveness
properties and one property on one instance (see the end of this section). TLC shows them
on the instances of section 3; the theorems hold for every set of authorities, runs,
processes, days and hours, every calendar, lookback, page size and bound. They rest on
the named ASSUMEs of the modules and on the hypotheses in the third column.

| Theorem | States | If |
|---|---|---|
| **`IngestProofs`** `TypeCorrect` | `Spec => []TypeOK` | |
| `WatermarksSkipNothing` | `[]NoUnaskedHour` | |
| `WatermarksAreBacked` | `[]WatermarkBacked` | |
| `NothingIsInvented` | `[]NothingInvented` | |
| `WatermarksOnlyAdvance` | `MarksOnlyAdvance` | |
| `ExitZeroMeansComplete` | `[]ExitZeroIsComplete` | |
| `OneRunIsAReplica` | `IsReplica`, the refinement of `Replica` | `OneRun` |
| `StaleStaysInReach` | `[]StaleIsReachable` | `InReach` |
| **`ProvenanceProofs`** `TypeCorrect` | `[]TypeOK` | |
| `GuardHolds` | `[]GuardInv` | |
| `RowsNeverMix` | `[]NeverMixed` | |
| `UnknownStays` | `UnknownIsLeftAlone` | |
| `CloudStaysClean` | `[]CloudIsNeverSynthetic` | |
| `PublicIsReal` | `[]PublicTablesAreReal` | `~AllowLocal` |
| `ResumesAreReal` | `[]NoSyntheticResume` | |
| `ChartsAreLabelled` | `[]CleanChartsAreReal` | |
| `GenerationsNeverMix` | `[]OneGeneration` | `OneProcess` |
| **`EIAClientProofs`** `TypeCorrect` | `[]TypeOK` | |
| `WalksAreComplete` | `[]CompleteWalk` | |
| `LastIsNewest` | `[]NewestIsKept` | |
| `SleepsAreBounded` | `[]SleepIsBounded` | |
| `RequestsKeepTheirDistance` | `[]RequestsAreSpaced` | |
| **`GridFactProofs`** `TypeCorrect` | `[]TypeOK` | |
| `BuildsReconcile` | after every build, the fact has the hours raw has, for `tracked \ owed` | |
| `OnlyCappedFuelIsStale` | `[]StaleIsBeyondTheCap` | `~FuelLate` |
| **`FuelExpectationsProofs`** `TypeCorrect` | `[]TypeOK` | |
| `StaleFlagsHaveAReason` | `[]StaleFlagsAreExplained` | |
| `DeclaredStaysTrue` | `[]DeclaredIsNeverStale` | |
| `OutagesAreNotLearned` | `OutageIsNotLearned` | |
| `BlipsFlagNothing` | `[]FlagsHaveEvidence` | |
| **`ChartsProofs`** `TypeCorrect` | `[]TypeOK` | `NoneApart` |
| `CurvesAreSound` | `[]DuckIsSound` | `NoTwins` |
| `PointsAreWholeDays` | `[]SharesAreWhole` | `NoTwins` |
| `HoursShareTheirDays` | `[]SameDays` | |
| `LabelsAreHonest` | `[]LabelNamesItsDays` | |
| `ChartsComeInPairs` | `[]PairBelongsTogether` | `NoneApart` |
| **`PublishProofs`** `TypeCorrect` | `[]TypeOK` | |
| `OneNightHeals` | `[]OneMissedNightHeals` | |

**The hypotheses** are met by the instances of section 3 that check the same property,
unless said otherwise.

- `OneRun`: no two runs at once, as the concurrency group of `nightly.yml` has it. Two
  runs may write the older response last, and then a copy goes back (section 4).
- `InReach`: `OneRun`, no backfill (`MCIngestRerun` shows why), an archive that restates
  within the lookback of the clock, `Settle <= Lookback` and `~Backlog`.
- `OneProcess`: nothing locks the pages on disk, so generator and fixture load must take
  turns; `make` sees to it.
- `~AllowLocal`: the publish was not told to export a local file. That flag is there to
  skip the test that the theorem is about.
- `~FuelLate`: the first hour of an authority comes with a fuel report; section 6 says
  what happens otherwise.
- `NoTwins`: no planted hour has demand and generation absurd at once. Two such values
  may cancel in the identity, and no flag can tell. `MCCharts` has an ASSUME that its
  hours are of this kind, among them all that the fixture generator plants.
- `NoneApart`: the value for no file is not a chart. In TLC it is a model value.

Two ASSUMEs were added to the modules for the proofs. `PowersGrow` (`EIAClient`) is a fact
of arithmetic that the provers lack, stated up to `MaxRetries` so that TLC can evaluate it.
`CalendarAssumption` (`Marts`) says that an ordinary day has every local hour once, and
that a month has no more days in the data than in the calendar.

### The arguments

Hardly any of the properties is inductive. What has to be added says why the code works.

*Ingest.* `NoUnaskedHour` speaks about watermarks; a watermark moves in `Mark`, from a
response that was checked several steps earlier. `IngestInv` adds what a run holds
meanwhile:

- `WalkedSoFar`: a run that is not a replay has found everything before its window asked
  for, since windows are contiguous and the first one starts at most one hour after the
  watermark. A replay starts anywhere, and for this reason must not move watermarks.
- `MarkIsEarned`: a run about to move a watermark passed every check, its rows are in the
  raw table and its window is in `asked`. Other runs only add to `asked` and never empty
  an hour, so overlap does not disturb it.
- `RespHonest`: the rows of a response are versions the archive held, or in the wrong
  unit. With the three checks of `_load_window` this gives `NothingInvented`.

`ExitZeroIsComplete` needs `Walked`: the pairs before the run's place are asked for up to
its start, the present pair up to its window. `IsReplica` needs `Fresh`: with one run, what
was read is not older than the warehouse, so that a `Load` is a `CatchUp`; without it the
simulation fails at the overwriting step. `StaleIsReachable` needs to know that an hour
further behind the clock than `Settle` is final: what is read of it is exact (`Behind`),
from the pages read so far, to the window, to the whole pair; and that no watermark is
ahead of the run's own `now` (`Ahead`), for then what lies before the lookback of the
watermark is final too.

*Provenance.* The guard looks once. `GuardInv` says that what it saw stays true at every
later statement (`Guarded`): of a local file because of the lock (`Exclusive`), of a
cloud database because fixture mode is refused there and a real run adds real rows only.
`NeverMixed`, `CloudIsNeverSynthetic` and `PublicTablesAreReal` follow with what the
marts were built from. The guard reads rows, and rows are all that tells a database's
past: `PastInv` says that whatever is synthetic in one, a watermark, the fact or a mart,
shows in its raw rows or is in the hands of a fixture load, unless the last such load
ended with no row at all. A real run or a verdict of "real" therefore means that nothing
synthetic is left, also where both modes share a file. `GenerationInv` follows the pages
through the generator's and the loader's statements.

*EIAClient.* `Covered`: every row ranked before the offset was loaded, unless one there
was deleted. An insertion before the offset moves rows back over it, never ahead of it,
so they come twice rather than not at all. `Ages`: the server's version of a row is never
older than what a page showed of it, which is why keeping the last duplicate keeps the
newest. `Slept` bounds the sleep of each attempt. `Stamped`: the client's clock never claims
more time since the last request than has passed at the server, so what `_throttle` waits
for is enough there.

*GridFact.* At a build the watermark of a pair is its last raw hour (`RawInv`), and fact
rows are raw hours up to it (`FactInv`); so no edge is ahead of the watermark, what
ingestion then changes lies within its own lookback of it, and the fact's lookback is
longer (`MetricsInv`). A replay breaks this twice: it changes hours far behind the edge,
until its full refresh is built, and that refresh may put the edge beyond the watermark,
which matters as soon as the distance is more than the difference of the lookbacks.
`owed` is these two cases and no more: a full refresh within reach ends both
(`NoneBeyond`). For fuel the edge is the smaller of two and capped: `ReachInv` has
a disjunct for each place where the window can start, and needs `FuelInv`, that an authority
with rows has a fuel edge.

*FuelExpectations.* An hour is settled when no build will write it again. Reports only
grow, so the month a group was first seen in moves only to the month of a late report,
whose hour is rewritten by the next build: what a settled flag says differs from the present
expectation only for the two reasons `StaleInv` lists. `EvidenceInv` carries the reason
for a flag from the night that wrote it: the month that taught the group stays.

*Charts.* A day is complete when as many of its hours are clean as it has; then all of
them are (a subset of a finite set with as many members). Tables are rebuilt one after the
other from others that have changed meanwhile, so the invariants say of each table, each
rendered and each published file what it was when written: sound (`SoundInv`), whole days
(`WholeInv`), all hours of one set of ordinary days (`EvenInv`). `LabelInv` knows that after
a whole build `daily` and `profile` are of one fact; without it the label's days and the
curve's are unrelated, and that is the case section 6 describes.

*Publish.* As long as at most one night in a row has failed, every day that BigQuery shows
wrongly has a raw row from after the last publish (`Behind`), and that is at most two nights
ago: what `touched_partitions` looks for. A publish under way still has those days in its
queue (`Queued`).

Facts about finite sets that would be inductions (a largest member, the range of a
finite set) are in `SetLemmas`, argued from a smallest counterexample.

**Only model-checked.** `Converges` and `Terminates` are liveness under fairness, out of
this prover's reach. `StaleIsReachable` in `MCIngestPairs`, where `Backlog` is TRUE, is not
covered by `StaleStaysInReach`, and cannot be in this form: it is true there
because one page holds a window's answer (section 6).

## 6. Where the code departs from its documentation

Two runs are expected to fail and show a difference.

**A backfill that is run again loses restatements** (`MCIngestRerun`). The README
says that restatements are self-healing, because every incremental run fetches 72
hours again. A backfill that finds a watermark starts one hour after it, without a
lookback, and moves the mark to the newest hour. Hours restated since the last run
then lie behind the next lookback. A replay repairs them.

**A replay hides later history from the fact** (`MCGridFactPilot`). `make replay`
fetches through now and moves no watermark, so its full refresh may build hours far
beyond the marks. On a warehouse without its history, the case of the docstring, the
ordinary backfill then loads the history, as promised; on one that is behind by more than
the difference of the lookbacks, the next ingestion fetches what came between or changed
since. Either way incremental builds start from the fact's new edge and never take it
over, and `assert_fct_reconciles_with_source` fails, or old values stay unnoticed, until
another full refresh. `BuildsReconcile` and `OnlyCappedFuelIsStale` say that nothing else
of a replay does harm.

Smaller limits, each reproducible by changing one constant or conjunct:

- A fixture load that dies between its DELETEs and its first page, or stops for want of
  pages, leaves synthetic watermarks or marts without a raw row. A real run on the same
  file then passes the guard, which reads rows, and resumes from those watermarks, and a
  chart of its first rows is drawn without a watermark from synthetic marts
  (`NoSyntheticResume` or `CleanChartsAreReal` without `emptied`, in
  `MCProvenanceDefaults`). It takes a `GRID_DB_PATH` that points both modes at one file,
  where `Makefile:15-17` says that the guard holds "even if you point them at each other
  manually", and `ingest.py:114` that a warehouse "that ever held synthetic rows" is not
  trusted. As long as one row is left, the guard refuses.
- An error or a kill between the two renames leaves a new duck curve beside an old share
  chart (`PairBelongsTogether` without `torn`); the handler removes only the temporaries.
- A backlog that arrives while it is read, page by page: an early hour was read as empty,
  then it is published together with newer ones, which the later pages show, and the
  watermark moves past it (`PageHours = 1` in `MCIngestPairs`, `StaleIsReachable`). One
  page holds a nightly request: 72 hours of one authority are far below 5,000 rows. It
  takes a backlog during a longer window to lose one; a replay repairs it.
- A row deleted before the offset during a walk moves the next page one row too
  far, and a live row is missed without an error (`CompleteWalk` without
  `~shrunk`). The next lookback fetches it.
- An authority first built without any fuel report has no fuel edge; fuel that then
  comes older than the lookback, though within the cap, is not taken over
  (`FuelLate = TRUE`, `StaleIsBeyondTheCap`). `assert_fct_fuel_is_current` warns.
- A build that stops between `mart_grid_daily` and `mart_hourly_profile` leaves a curve
  of the old days and a label range of the new ones; charts drawn by hand then
  show both (`LabelNamesItsDays` without `Duck.whole`). `make dev` stops at the failed build.
- A pair that the API refuses for ever ends every run at its place: the pairs
  behind it are never loaded (`Converges` over all pairs instead of `Served`). The exit
  code 4 is what tells.
- A generator killed between two pages leaves some; fixture mode run by hand
  loads them without an error. They are of one generation, because the old pages go
  first (`OneGeneration`), but not all that was meant.

## 7. Not modelled

- *Unit tests*: read as statements of intent. *Configuration*: constant during a run,
  except for the path to the database.
- *`parse_row`, key redaction, logging, argument
  parsing, `make clean`, `export_to_cloud --tables` and its dry run*: they change no
  state a property tells apart.
- *Sums, shares, ramps, peaks and residuals of the marts, and the drawing of charts*:
  arithmetic without state; what is modelled is which hours enter them. A day all of
  whose hours are flagged has no daily row, in the code as in `Marts`.
- *The generator's pseudo-random shapes*: only the hours it breaks on purpose matter,
  and those are `Marts!Glitches`.
- *The coverage gate's threshold*: a build fails or does not.
- *BigQuery and GCS internals*: a load replaces its target at once, or fails.
- *Two overlapping runs and staleness*, *a build by hand after a crashed ingestion*, *a
  response without `total`* and *flag-only changes under the publish's window*: listed as
  hazards without a property; the notes there say why.

## 8. Plan

Built so far: ingestion, because everything else trusts its watermarks; the
two consumers of raw data with edges of their own (`GridFact`, `Publish`); the
components they rest on (`EIAClient`, `Provenance`); then what the marts make of
an hour, and what is shown of it (`FuelExpectations`, `Marts`, `Charts`). What is left:

1. `Nightly`: `Ingest`'s watermarks, `GridFact`'s edges and `Publish`'s window in one
   night, with the graded gate; the end-to-end property that after one good night
   following at most one missed night BigQuery shows what the archive held. Changes of
   flags alone belong here.
2. The calendar of `_month_windows` against a reference definition.

Proofs: `StaleIsReachable` with `Backlog`, for windows that one page answers; the theorem
of `Nightly` that composes `StaleStaysInReach`, `OnlyCappedFuelIsStale` and
`OneNightHeals`, whose contracts meet at the watermark and at `_ingested_at`.

## 9. Running it

    tlc -config MCIngestOne.cfg MCIngest        # any run of section 3
    tlapm IngestProofs.tla                      # the theorems of a component
    for m in *Proofs.tla SetLemmas.tla; do tlapm $m; done

The slowest runs take two to three minutes on two workers.
