# TLA+ models of osmpq

osmpq keeps OpenStreetMap as Parquet files in object storage, follows the minutely
diffs, and answers Overpass queries from those files with DuckDB. This directory
models the parts of it in which order, failure and concurrency decide whether the
answers are right: the update schedule, the commit protocol of the dataset root, what a
run does with a batch of diffs, the delta tiers, the history tiers, the engine's view of
the root, and the query server's slots and cancellation. The algorithms whose results the
answers rest on (history build, cell layout, recursion, query programs, expressions) are
modelled as operators and checked against what they are meant to compute.

## 1. Inventory

| Part | State | Operations | Talks to |
|---|---|---|---|
| Update scheduler (`deploy/cloudflare/src/updater.ts`, `logic.ts`) | Durable Object storage: alarm, `running`, last outcome | `start`, `stop`, `run`, `status`, `alarm` | POSTs `/run` to the updater container |
| Updater container (`update/server.py`) | `_running` under `_lock` | `/run` (409 while busy) | calls `run_once` |
| Updater (`update/updater.py`, `replication.py`, `osc.py`) | none between runs: all of it is in the root | `run_once`: fetch diffs, drop stale versions, extent filter, touched set, resolve, write tiers, write manifest | reads and writes the root |
| Dataset root (`layout/manifest.py`, `store.py`) | `manifest/<n>.json`, `manifest/LATEST`, base and delta files | `load_latest`, `write_manifest`, `next_manifest_number` | everything |
| Delta tiers (`updater.py`, `engine/sources.py`) | base tables; hour, day and week tiers | merge, fold, read by id, by cell, full scan | |
| Compaction (`build/compact.py`) | a new generation | winners of the tiers folded into base files; touched cells rewritten, the others linked | publishes a manifest |
| Garbage collection (`build/gc.py`) | none | keep the last n manifests, delete what they do not name | deletes from the root |
| Engine (`engine/executor.py`, `catalog.py`) | manifest, its number, time of the last check | construct, `refresh_manifest_if_due`, `run_program` | reads the root |
| Query server (`server.py`) | `_running`, `_ip_counts`, cancel tokens | `/api/interpreter`, `/api/kill_my_queries`, status, timestamp | runs programs on the engine |
| Worker (`deploy/cloudflare/src/index.ts`) | response cache, rate limiter | forward, cache, admin routing | engine containers, scheduler |
| History tiers (`updater.py`, `build/compact.py`) | base history; append-only hour, day, week tiers | init, append, fold, compact | written with the delta tiers |
| Attic reads (`engine/attic.py`, `history/schema.py`) | none | snapshot by id and by cell, `(changed:)`, `timeline()`, diffs | history tiers |
| History build (`history/`) | files of a base history | ingest, states, rows | |
| Cell layout (`layout/`, `engine/catalog.py`, `engine/hilbert.py`) | leaves, by-id part ranges | select leaves, place, choose what a read opens | every writer and reader |
| Planner and evaluation (`engine/planner.py`, `recurse.py`, `setops.py`, `evalfilter.py`, `evalsql.py`) | named sets, snapshot, within a run | statements, recursion, expressions | DuckDB |
| QL front end (`ql/`) | none | lex, parse | |
| Base build (`build/`, `rust/osmpq-raw`) | files of a new root | bulk builds | |

What is hard here:

* **Events around awaits.** While the scheduler waits for the container, Cloudflare
  delivers other events; the container may finish, fail, be recycled, or keep working
  after the caller has gone.
* **Crashes between writes.** A commit is several object writes. Any prefix of them may
  be all there is.
* **Maintenance beside updates.** Compaction and gc act on the same root and take no lock.
* **Layers.** What is read is the newest row of four layers; a cell scan sees only parts
  of each layer, so shadowing must not depend on where the newer row is.
* **Derived data.** A way's and a relation's box depend on other elements; a change must find
  everything above it, through indexes that are as old as the last compaction.
* **History.** The past must not change while its rows move between four layers, are stored
  twice during a fold, and are given to two copies with different neighbours.
* **Two implementations of one meaning.** By-id and cell reads, base and delta parents, SQL
  and Python evaluators, snapshot and timeline must agree.
* **Threads over shared state.** Refreshes, timers and kills reach an engine and a cursor
  from other threads.

What makes the parts correct: runs do not overlap and the schedule survives (scheduler);
LATEST always names a complete manifest, published files do not change and the sequence
does not go back (root); reads equal the diffs applied in order, whatever has been folded
or compacted (tiers); rows are upstream's and boxes those of a new build, however the diffs
were grouped into runs (batches); every state is kept, an answer about the past stays the
same and all ways of asking agree (history); every row is found by the reads that should
find it (layout); a program's answer is what its statements mean (planner); an engine never
goes back and reaches the last commit (engine); counts equal slots held, and a killed or timed-out query says so truthfully (server).

`PROJECT.json` lists the hazards at their lines with the properties aimed at them.

## 2. Modules

| Module | Models | Proofs |
|---|---|---|
| `UpdaterScheduler` | the Durable Object, its call, the container's lock | `UpdaterSchedulerProofs` |
| `DatasetRoot` | object writes of runs, compaction and gc | `DatasetRootProofs` |
| `UpdateBatch` | a batch of diffs: version check, extent filter, touched set, boxes, reverse indexes | `UpdateBatchProofs` |
| `CurrentState` | abstract: one table to which every diff is applied | |
| `DeltaTiers` | base, tiers, folds, reads, compaction; implements `CurrentState` | `DeltaTiersProofs` |
| `HistoryTiers` | rows a run appends, tiers, folds and compaction of the history | `HistoryProofs` |
| `AtticReads` | reads of those tiers; extends `HistoryTiers` | `HistoryProofs` |
| `HistoryRows` | order of states and the state at an instant, shared by both writers | |
| `HistoryBuild` | `history build` as a function of its input | `AlgorithmsProofs` |
| `ByIdParts` | files by id, of current rows and of the history, and their compaction | `AlgorithmsProofs` |
| `Layout` | leaves, placement, cells and row groups of a box, Hilbert key | `AlgorithmsProofs` |
| `Elements`, `Recursion` | `>`, `<`, `>>`, `<<`, recursion filters, hydration | `AlgorithmsProofs` |
| `QueryProgram` | statements, blocks, snapshots and passes of a query | |
| `Evaluator` | parser of expressions, their evaluation in SQL and in Python | |
| `Job` | one computation: its input and the stage it has reached | |
| `Algorithms` | composes `HistoryBuild`, `Layout`, `Elements` and `Recursion`: one step per stage over given inputs | `AlgorithmsProofs` |
| `Queries` | composes `QueryProgram` and `Evaluator` in the same way | |
| `Computations` | composes `Algorithms`, `Queries` and `ByIdParts` | |
| `EngineManifest` | construction, refresh, capture by runs | `EngineManifestProofs` |
| `QueryServer` | slots, timer, token, statements, answers | `QueryServerProofs` |

`MC*` modules add the symmetry sets and starting data of the TLC instances. Operators described as mutants
are wrong variants of the definition that follows them, one for each checked property: with
the variant in place of the definition TLC finds the property violated, which shows that
the property depends on that piece of code.

### UpdaterScheduler

`alarm`, `running` and `scheduled` are the object's storage (`scheduled` records the
operator's last word; the code keeps it only as the presence of an alarm). A caller is one
activation of `runOnce`, from the alarm or from an admin request; `request` is what the
container has been sent. One action per stretch between awaits that let other events in:
`BeginRun` reads the flag and sets it, `ArmAndCall` arms and sends, `EndRun` records the
outcome. `lost` is a history variable: an eviction while `running` is stored, or an admin
run, has swallowed the alarm (section 4). Durable Object storage operations hold other events back (`GateOpen`, external);
the container call does not. `ObjectRestarts` (eviction) loses every activation and keeps
storage; `CallThrows` gives up on a call whose request lives on; `ContainerRestarts` loses
the container's flag and runs.

### DatasetRoot

A manifest is generation, delta version and sequence; files are keyed by generation,
version and part, and hold the set of diffs they contain. Every object write is an action:
tier files one by one, `manifest/<n>.json`, then `LATEST`. A run picks its version from the
manifest it loaded and its number after the tier files are written
(`next_manifest_number`); compaction takes its number from the LATEST it read when it started. Runs
may abort anywhere. gc reads the kept manifests, lists files, deletes one object at a time.
`Procedure` is what the operator does before maintenance: `"stops"` is step 1 of section 10
of `docs/m3-runbook.md` to the letter, `"waits"` also lets the run in flight end. `paused`
stands for the deleted alarm.

### DeltaTiers and CurrentState

One element type; a row is a cell and the diff it comes from. A run applies one diff
(`Diffs`: stay out, move to a cell, be deleted) and merges it into the hour tier, or folds
hour into day, or hour and day into week, when its timestamp crosses a boundary, with the
code's treatment of missing and empty tiers. `prev` is `prev_cell`, first write wins.
Tombstones are derived from it as the code writes them. Reads are the by-id overlay, the
cell scan (`spatial_delta_layer`) and the full scan. Compaction replaces the by-id table
and the spatial files of `TouchedCells` only. `CurrentState` is what a reader by id is
promised; `FollowsDiffs` is `State!Spec`, with `State` the instance of `CurrentState` in
which `current` is the by-id read.
Writing and publishing are one step here, because `DatasetRoot` is about what lies between.

### UpdateBatch

All three element types, with ids that overlap, because the search for parent relations
looks ids up without their type. A row is a version and a body: place, set of refs, set of
members. A box is the set of places it is the hull of, so equal sets mean equal boxes.
`up` is the OpenStreetMap database with the API's preconditions, `log` the diffs after the
root's sequence, one change each. `Build` may be given a sequence before its extract, so the
first runs replay diffs the extract contains. A run takes any number of diffs up to
`MaxDiffs` and goes through the code's steps, each an operator: `Final` (last occurrence
wins), `Fresh`, `KeptNodes`/`KeptWays`/`KeptRelations`, `TouchedWays`, `Ancestors` (at most
`Rounds` rounds, 8 in the code), `ResolvedWays`, `ResolvedRelations`. `root` is the delta
layer over the base, which `DeltaTiers` shows reads by id to be; `delta` says which ids are
in the tiers, since the updater finds parents through `nodeWay` and `member` for base rows
and through the rows themselves for delta rows. `Compact` rewrites the pairs of touched
nodes and keeps the others. `HasNodeWay`: the index is an optional build step, and an empty
one is never filled; `docs/m2-report.md:121` says the updater needs it, so the properties of
boxes assume it.

`RelationsAsBuilt` is about relations whose member relations hold no relations. For deeper
ones the builder counts two levels of members, while a run counts an untouched member
relation with its stored box, that is one level more, so their boxes depend on how the
diffs were grouped.

### HistoryTiers, HistoryRows and AtticReads

`cur` is the current state, `log` the rows each run appended, and the base history and the
tiers are sequences of positions in `log`, so a row stored twice is visible as such. A run
gives an own row to each version in the batch and a minor row to every touched parent
(`OwnRows`, `MinorRows`), appends them to the hour tier, or folds at the instants the delta
tiers fold (`deltaHour`, `deltaDay`), since that is what the code goes by. `HistoryInit`
starts a history on a root without delta tiers, as the code insists, and `HistoryBuild` on
one with them; `overDeltas` remembers the latter, for which `CanFold` is not claimed: the
first fold then fails until a compaction (`updater.py:1918`). `SpatialRows` adds the invisible row an
element leaves in the cell it moves out of. `Compact` makes base rows of all tiers.
`AtticReads` picks states from these layers as `attic.py` does: base rows by `valid_to`
(computed from the rows of one file), tier rows by `valid_from`. `Listed` has a copy of a
row for each place that stores it, as `UNION ALL` does, and `Timeline` an entry for each copy.

### ByIdParts

A list of parts is a function from positions to the ids in the files. The build's split is
any in which ranges do not meet. `Compact` takes any ids as those the delta tiers hold
(`live`, `gone`) and any of them as those with states in the history tiers: `CompactTable`
gives an id to the part whose range has it, else to the nearest lower one
(`_assign_target_parts`), rewrites the parts that were given one, links the others and drops
what became empty; `CompactHistory` gives it to the part that owns the gap
(`_byid_part_ranges`). What the rows say is left to `DeltaTiers` and `HistoryTiers`.

### Computations and what it composes

`job` holds one input and the stage its computation has reached. `Algorithms` has what is
proved for every input; the two modules that recurse over programs and over expressions, with
recursive operators, are composed in `Queries`. `Computations` takes one computation of either,
or steps of `ByIdParts` (`job` is then at the stage `"parts"`); nothing leads from one of the
three to another, so a behaviour of it is one of theirs.

* `HistoryBuild`: from what upstream did at each instant to the rows: versions kept (a full
  history file, or a base file and diffs), node, way and relation states, cells, `valid_to`
  and move tombstones. Member relations, for which the build reads current boxes, are left
  out.
* `Layout`: coordinates in half steps, so that boxes meet, touch and miss; leaf selection,
  placement with the allowed ancestor depths, the cells and row groups a query opens, and
  the Hilbert key.
* `Recursion`: rows of two instants, the base ("then") and now. Indexes are of the base. Ids
  become rows as in the code: nodes and ways near a box, ways and relations in cells the
  index knows, the rest by id. `wide` is the guard on half of all cells. One delta layer, the
  newest row of each element, stands for the tiers; what a scan of cells makes of several
  tiers is the subject of `DeltaTiers` (`tiers_stale`).
* `QueryProgram`: a machine with the table of named sets, the snapshot, a stack of what
  blocks put aside and the statements left; `Meaning` is the reference, which has none of
  these. Rows of one element that differ are chosen between nondeterministically, as
  `materialize` leaves it open.
* `Evaluator`: the grammar over tokens; values by the number that DuckDB's `try_cast` and the
  one that Python's `float()` reads in them, and by whether they are written the way the
  program writes finite numbers (integral below 1e15 or not: both evaluators have that
  bound, and beyond it `CAST` and `repr` are taken to write the same). `t["key"]` and
  `count(type)` are one token each, one tag key stands for all, and the aggregator `set` is
  left out. DuckDB's and Python's arithmetic and comparison are external.

### EngineManifest

The constructor's two reads of LATEST, the clock read before the lock, the check under the
lock, the read of LATEST, the read inside `load_manifest`, and the two assignments are
separate actions. A run keeps the manifest it captured. Reads may fail at each place where
the code catches an exception.

### QueryServer

A request takes or is refused a slot, binds its token, sets up its cursor and timer, and
runs a sequence of statements until it completes, fails, or is interrupted; it closes,
unbinds, and releases in the `finally`. `KillMyQueries` lists the client's running queries
under the lock and cancels them one at a time afterwards, as the code does.

External assumption: DuckDB's `interrupt()` sets a flag on the connection that the next
statement to start clears. `tests/test_engine_basic.py` and `tests/test_server_limits.py`
work around the same behaviour (they wait until the query executes before they cancel).

## 3. Runs

| Run | Result | Shows |
|---|---|---|
| `sched` | pass | with evictions, lost calls, restarts and two admin requests: runs never overlap, one activation past the check, a stop sticks; until the alarm has been swallowed there is always one to come and runs keep starting |
| `root_waits` | pass | with maintenance alone, `gc --keep 2` and aborts anywhere: LATEST complete, sequence monotone, published objects immutable |
| `batch_region` | pass | a regional root follows upstream through replays, drops and every grouping of diffs; boxes of ways and relations stay those of a new build |
| `batch_planet` | violation | a relation that arrives in one batch with all of its members is dropped on a planet root and stays missing |
| `tiers_folds` | pass | reads follow the diffs through merges, folds and compactions; scans find everything; base rows of moved elements stay shadowed; both base tables agree |
| `tiers_stale` | violation | a cell scan returns an element's row from an older tier although a newer tier has moved it elsewhere |
| `engine_refresh` | pass | one refresh at a time, never back, and the engine catches up whenever its label differs from LATEST |
| `server_slots` | pass | counts equal slots, limits hold, nobody is refused without cause, remarks are true |
| `history_tiers` | pass | no state is lost, none is stored more than twice, folds find the tier they need, the history's present is the current state, cell scans, timelines, `(changed:)`, diffs and parent lookups agree with the states by id, and the past never changes |
| `algorithms` | pass | history build gives each element its state at each instant, in the right cell; reads open what covers them; through any sequence of compactions files by id keep disjoint ranges and every id in the one file a read opens; Hilbert keys form a curve; recursion ends and misses nothing; programs mean what their statements mean; expressions parse back and both evaluators agree |
| `layout_gap` | violation | a node placed where no leaf is ends up in a cell that a query around it does not open |
| `stale_parents` | violation | a relation that has lost a member since the base is still found from it |

**Bounds.** Scheduler: two admin requests beside the alarm and three request slots, enough for an abandoned run, its
successor and a third request. Root: two requested runs, two parts per version (so a version can be half
written), two diffs, four numbers, two versions: a commit, an aborted one, its
repetition and a compaction fit. Tiers: five diffs over three days of two hours
take rows through every fold, twice into the week; two elements, of which a diff
holds at most one (`MaxTouched`), so that a tier is folded, emptied or rewritten on
behalf of the other element; two cells to move between. Batches: a chain node, way, relation, relation and a second node, five
changes of which three may wait, so that a change to the chain, a compaction and a change to
what the chain now rests on fit, in one run or in three. Engine: two threads and three manifests let a commit fall
between any two reads of a refresh while the other thread waits. Server: three requests of two clients with one slot
per client and two in all reach both limits with a request to spare. History: two nodes, a
way and a relation, hours of two instants and days of two hours, five runs up to instant 4
with at most two versions of one element each, so that every fold, a compaction and a move
of a node under a way and a relation fit in any order. Build: three instants with the base
file at the second, every history of one node over two leaves and a place outside and of one
way, two of the other node and of a relation. Layout: a grid of depth 3, at most one node
per leaf, up to three nodes and boxes between twelve corners on edges and inside cells;
curves of order 1 to 4. By-id parts: four ids in up to two parts, so that an id can lie below,
between, above and in the parts, and any sequence of compactions. Recursion: two nodes, a way and two
relations that may contain each other, at most one element changed since the base, every
input set. Programs: two statements around every block of two statements, over data in which
all but one node has changed. Expressions: up to three operators over nothing, 0, 2, `0.0`, a
word, `inf`, digits that only Python reads, a tag and a version.

**Deadlock** is checked in every run but the server's, whose requests are finite in number
and all end, `history_tiers`, whose time is bounded, and those of `MCAlgorithms` and
`MCComputations`, which stop when a result is computed.

**Fairness.** Scheduler: time passes, due alarms are delivered and awaited calls return
(promised by Cloudflare), and the container answers each request (a run is a finite
program). Nothing makes anybody start, stop, or be evicted. Engine: intervals pass,
requests keep coming and threads that hold or want the lock run; reads of the root succeed
again and again (strong fairness), as a root that never answers serves nobody. Publishing
is not fair.

## 4. Findings

1. `updater.py:715`: members are looked up in the root before the batch, so a relation that
   comes with all its members is dropped (`batch_planet`).
2. `sources.py:205`: tiers are filtered by cell before they are ranked, and only base rows
   are shadowed, so a stale row of an older tier is returned (`tiers_stale`).
3. `cells.py:259`: a node placed in a gap between the leaves goes to the nearest leaf in sort
   order, where no query around the node looks (`layout_gap`).
4. `recurse.py:206`: pairs of the base member index are not withdrawn when a tier replaces
   the relation, so `<` returns relations that no longer have the element (`stale_parents`).

The quotations they contradict are in `PROJECT.json`.

Limits of the passing runs that lie next to what the code does:

* `AlarmSurvives` and `KeepsRunning` hold until `lost`: an eviction during a run leaves
  `running` stored, and the alarm that then fires, like one that fires while an admin `run`
  waits, is consumed by the early return of `updater.ts:164`, which arms no other.
* The root's properties are about maintenance that waits for the run in flight. With step 1
  of `docs/m3-runbook.md` section 10 alone (`Procedure = "stops"`), the number
  `compact.py:1101` took at its start collides with that run's manifest.
* `CatchesUp` is stated for a label that differs from LATEST: a commit between the
  constructor's two reads (`executor.py:152,171`) labels the old manifest as the new one.
* A cancellation that lands while no statement executes is cleared by the next one
  (`executor.py:115`); `QueryServer` models it, and no property denies it.
* `BackwardFindsAll` and the scans of `AtticReads` ask the cells that exist; the code's
  choice of history cells (`catalog.py`, `history_cells_for_bbox`) counts only cells of the
  base history, and `snapshot_current_rows` filters tier rows by those cells, so rows in a
  cell that only a tier has are not found until the next compaction.
* `BuildAnswers` starts at the base file's instant when there is one, and does not count
  among a way's nodes one whose only version is younger than the way's state: as the
  docstring of `history/build.py` (lines 7-20) says, such a node gives no minor version.
* `>>` keeps the relations of its input and drops its ways and nodes (`recurse.py:517`).
* The second pass of a `[diff:]` sees named sets left by the first where a lone run would
  end in an error; `PassesStandAlone` leaves that case out.
* `ProgramMeansIt` states that nothing of a `retro` block is seen after it, as the docstring of
  `execute_retro` says ("Block-local set scope", `planner.py:387-395`) and its code does.
  `docs/api.md:267` ("sets assigned inside stay visible outside the block") and
  `docs/m4-contracts.md:206-207` ("sets assigned inside remain visible outside") say the
  opposite; `docs/m4-report.md` (section 3) and `docs/overpass-ql-support.md:116` follow the
  code.
* `TimelineAgrees` does not say that a state has one entry. A run that crosses a day boundary
  writes its rows to the day tier and to the hour tier (`updater.py:1959-1971`), and
  `timeline_elements` (`attic.py:444-478`) lists both copies, the first with `expired` equal
  to `created`; its docstring (`attic.py:429-430`) promises "one `timeline` element per
  state", and `docs/api.md:268` "One result entry per known state (own version and
  minor/geometry-only versions)", of which the code lists own versions only. What holds, and is
  proved, is that the entries tell the right version at every instant.
* `EvaluatorsAgree` leaves out three cases in which `if` and `(if:)` differ. Comparisons of a
  NaN: DuckDB holds NaN equal to itself and greater than every number, Python compares it
  with nothing. Infinite results: SQL writes `inf`, while `v == int(v)` in `_format_py_num`
  (`evalsql.py:240`) raises OverflowError, so `-"inf"` is a value in a filter and an error in
  `if`. Numbers in texts that `try_cast` (`evalsql.py:77`) and `float()` (`evalsql.py:264-276`)
  read differently, such as digits outside ASCII. The run has operands of all three kinds, and
  without any one of the exclusions it fails.
* gc is checked with `--keep 2`; with `--keep 1` an aborted commit's manifest takes the only
  place. Files that a run in flight has written and not published are named by no manifest,
  and gc (`gc.py:125`) would delete them.
* Rows of one element at one instant, between which only the minor number decides
  (`updater.py:1505`), do not occur in `HistoryTiers`: the timestamps of an element's
  versions increase, and a batch gives an element one row at an instant.

## 5. Proofs

All theorems hold for every value of the constants that satisfies the modules' assumptions:
any number of elements, diffs, runs, parts, requests and instants.

* **Scheduler.** `SchedulerSafe`: `SchedulerInv` is inductive. `RunsNeverOverlap` alone is
  not: that `/run` refuses a second request helps only if the flag is set exactly while
  some request works (`LockMatchesRun`), and that only one activation is past the check needs
  that the stored flag is set while one is. `SchedulerRuns`, `SchedulerLock`,
  `SchedulerEntry`, `SchedulerStop`, `SchedulerTypes` and `SchedulerAlarm` follow
  from it (`LockMatchesRun` and the types are proved, not run); `AlarmsAreNeverLost` shows that
  `lost` takes an eviction or an admin request.
* **Root.** `RootTypes` for any procedure. `RootSafe` under `Procedure = "waits"` and
  `Keep >= 2`: `RootInv` says of every process what it has already written and what that
  contains, that at most one process is committing, that at most one manifest lies above
  LATEST, and that gc's reference set covers what LATEST names. `LatestAlwaysComplete` and
  `SeqOnlyGrows` follow. `Keep >= 2` is needed because an aborted commit's manifest takes
  one of the kept places; the waiting is needed because gc and compaction act on what they
  read at their start. `PublishedNeverChanges` needs one more invariant, `PublishedBehind`:
  published manifests have no generation and, within LATEST's generation, no version above
  LATEST's, so the names a run or a compaction is about to write, aborted attempts included,
  are not among theirs.
* **Tiers.** `TiersTypes`, and `ReadsFollowDiffs`: initial states map to initial states of
  `CurrentState`, a run maps to `Apply`, a compaction to a stutter. The lemmas say what a
  merge and each fold do to the winner of one element. The scans need a chain
  (`TiersAreChained`): the `prev_cell`s lead from the winning row of an element through the
  tiers back to the cell of its base row, so a scan of that cell finds one of them as a
  tombstone. The chain is broken, harmlessly, after a fold for an empty batch, when a tier
  repeats what lies below it until the next batch folds again (`HourRepeats`,
  `DayRepeats`). `BaseRowsAreShadowed`, `ScansFindAll`, `FullScansAreCurrent` follow, and
  `TablesAgree`: the cells a compaction rewrites are the ends of the chains.
* **Batches.** `BatchInvariant`: `BatchInv` is inductive. That boxes of ways are as built is
  not inductive alone: a run finds the ways of a moved node only if every ref leads back to
  its way through the base index or the delta layer (`ParentsFound`), and a compaction, which
  keeps the pairs of untouched nodes, preserves that only if the base index agrees with the
  base table (`IndexInverts`). `WaysFollowNodes` concludes, for any data and any grouping.
  `RelationsFollowMembers` adds `MembersFound`, the same for members, and that the search
  for ancestors, cut off after `Rounds` rounds, reaches everything one level of nesting can
  (`Rounds >= 1`). `RootFollowsUpstream` rests on `UpstreamInv`: a row of the root, or a diff
  still to be applied, is upstream's row or an older one that a later diff replaces.
* **History.** `HistoryIsKept` (`HistoryInv`) gives `NothingIsEverLost` and `FoldsSucceed`:
  a row's copies are counted over base and tiers, and each fold moves or repeats whole
  tiers. `HistoryTellsTheTruth` (`AtticInv`) is about the rows, wherever they are stored:
  times and minor numbers grow along the log, the last row of an element is its current
  state, a minor row carries the number of the own row before it (`MinorsFollowOwn`), and
  no cell shows an element that has left it (`NoGhosts`). From these and from what
  `valid_to` means in the base follow `LatestRowsAreCurrent`, `ThePastIsImmutable`,
  `TimelinesAgree`, `ScansAgree` and `ChangedFindsAllDiffs`. For the timeline, an entry holds
  at an instant if no copy after it has begun (`EntryHolds`); copies of the last own row are
  told apart by their places only, so the last place is the one entry that holds.
  `BackwardFindsEveryRelation` needs `NestInv`: live elements lie where their nodes put them (`Fits`), so a relation lies
  in the cell of a member or above it.
* **By-id parts.** `PartsAreKept`: the rule for the current rows and the rule for the history
  both give an id to the only part that owns it (`TargetIsOwner`), a part owns all it has
  (`HolderOwns`), and parts filled with ids they own stay apart (`OwnedStayApart`). The
  inductive invariant is that both lists are parted and hold what they should.
* **Algorithms.** `JobInvariant`: `JobInv` says what a computation holds at each stage as a
  function of its input. The results below combine it with lemmas about the operators.
  * Recursion, for any finite data, with cycles or not. `RecursionReaches`: the rounds of
    `<<` and `>>` make a set that only grows within finitely many ids, so the loop ends, and
    a round that adds nothing has closed it; turning the ids into rows, by box, by cell or by
    id, gives the same rows. `ParentsAreReached`: the base's indexes and the delta rows
    together know every parent an element has now.
  * History build, for any history. `BuildIsRight`: the versions kept are complete from the
    history's start on, the states of an element are ordered with distinct minor numbers, and
    the row valid at an instant is the one state with the geometry its members then gave it.
    `BuiltScansAreRight`: an element that leaves a cell has a tombstone in it that ends its
    last row there.
  * Layout, for any nodes, boxes, depths and thresholds. `ReadsAreFound`: a point lies in the
    box of its cell, and a cell that holds both corners of a box holds the box; the quadkeys of
    two cells, as numbers, are nested or apart, and no leaf contains another, so the leaf found
    by order is the one that covers; the cell a row is placed in is that leaf or an allowed
    ancestor of it, which a query that meets the row opens.
  * Hilbert key, for any order (`HilbertHolds`; `HilbertIsOneCurve` for the orders of the
    run). A grid with twice the side, made of four turned copies, is a curve if the copies
    are. The code's loop adds the quarters from the greatest to the least and never looks at
    the higher bits again, which makes it that construction.
* **Engine.** `RefreshSafe`: `RefreshInv` ties the lock to the one thread inside and orders
  text, loaded manifest, served manifest and LATEST. `ServesForwardOnly` follows: the
  manifest about to be installed is at least the one in use.
* **Server.** `SlotsSafe`: `SlotsInv`, with counts as cardinalities of the slots held.
  `NobodyLockedOut`: a refusal finds one of the limits really reached. `RemarksAreTrue`
  rests on `RemarkInv`: whatever interrupts a cursor has recorded its reason first, and the
  reason is about the request itself.

Assumptions on the constants that are more than types: the updater searches at least one
round (8 in the code); ways refer to nodes only and to at least one, ids are finitely many
and nodes have no members (the OSM data model); the history's hours and days have a length;
0 is among the allowed ancestor depths (the code's are 0, 3, 6, 9 and 12, `cells.py:320`)
and leaves are not deeper than the grid; the nodes to lay out are finitely many grid points.
The histories and data given to `Algorithms` are well formed (`IsInput`, `IsTable`):
ways refer to nodes, members are ids of the right types.

Maxima of finite sets, the bounded searches and what recursive functions on numbers compute
are proved with the library's well-founded induction in its set form (a non-empty set has a
minimal member), which needs no operator parameter.

Only model-checked: the liveness properties (`KeepsRunning`, `CatchesUp`), which are
outside the prover's reach, and `ProgramMeansIt`, `PassesStandAlone`, `ParsesBack` and
`EvaluatorsAgree`: what a program or an expression means is defined by recursion over its
parts, with recursive operators, for which the prover has no backend and no induction.

## 6. Not modelled, and the plan

Left out: the lexer and the parser of statements (characters to AST, without state); tag,
meta and geometric filters and areas, which are fragments of SQL that DuckDB gives their
meaning; rendering; the bulk base build and the Rust producer (one-shot, before anybody
reads); the command line, status pages, and the concurrent construction of two engines by
`get_engine`; the updater's download cache; DuckDB's memory limit, which one run sets for
all; and the front door, whose cache in front of several engines that refresh independently
lets successive answers go back in time.

The inductive invariants (`SchedulerInv`, `RootInv`, `PublishedBehind`, `RefreshInv`,
`BatchInv`, `RelationInv`, `UpstreamInv`, `TiersInv`, `RemarkInv`, `HistoryInv`, `AtticInv`,
`NestInv`, `JobInv`) and the type invariants proved in section 5 hold on the instances too; the runs
leave them out because the theorems cover them for every instance.

What could follow:

1. Proofs about programs: statements and blocks as functions on a set closed under parts,
   so that `ProgramMeansIt` becomes an invariant over the machine's stack.
2. `FrontDoor`: response cache and several engines over `EngineManifest`.
3. Areas: which areas a change touches (`build/areas.py`, `engine/areas.py`).
4. The raw producer: spills and the location store (`rust/osmpq-raw`).
