# Razor-Rooster in TLA+

TLA+ models of the stateful core of Razor-Rooster, TLC runs over small
instances of them, and TLAPS proofs for every instance. Paths below are
relative to `src/razor_rooster/` unless they start elsewhere. Contents:

1. the system: its parts, their state, how they interact, what is hard
2. the modules, and how they correspond to the code
3. the runs: what is checked, with which bounds
4. fairness
5. the proofs
6. disagreements between the code and its documentation
7. what is not modelled
8. the plan

Everything is run from this directory:

    tlc -workers 2 -config Backfill_resume.cfg MCBackfill.tla
    tlapm IngestProofs.tla

`PROJECT.json` lists components, runs, mutants, the map from each definition to
the lines it models, the hazards and the theorems. A definition introduced by a
comment "Faulty variant" is not part of any specification: it is a plausible
bug that, put in the place of the definition it varies, makes a property fail.
Each property of each passing run has one.

## 1. The system

Razor-Rooster is a single-user command-line program with eleven subsystems that
share one DuckDB file. Nothing runs in the background: every job is a CLI
invocation, usually from cron, that owns the file while it runs. Concurrency
exists inside an invocation (thread pools); everything else that makes the
system hard is that an invocation can fail or be killed between any two
statements, and that the world it reads (feeds, listings, other subsystems'
tables) has changed when the next one starts.

| Part | State it keeps | Operations | Talks to |
| - | - | - | - |
| `data_ingest` connection pool (`persistence/duckdb_store.py`) | the queue of idle connections, how many were created, `_closed` | `connection()` = acquire, use, release; `close()` | every subsystem, from every thread |
| `data_ingest` staging merge (`persistence/staging_merge.py`) | rows of the canonical tables, active or superseded | stage a batch, classify, supersede, insert | called by ingest, Polymarket and Kalshi sync |
| `data_ingest` cycle (`scheduler.py`, `connectors/base.py`, `persistence/provenance.py`) | `sources.last_successful_fetch`, `last_failed_fetch` | decide what is due, run the sources on a pool, record the outcome | connectors, pool, merge |
| `data_ingest` backfill (`backfill.py`, `cap_enforcement.py`, the connectors' `fetch_backfill`) | the `backfill_state` row: token, status, count | run, pause at a cap, fail, resume, restart | connectors, merge |
| `polymarket_connector` | markets, resolutions, snapshots, trades, a backfill offset, a request bucket | syncs by listing, resolution backfill and delta | Gamma and CLOB APIs, merge |
| `kalshi_connector` | series, events, markets, settlements, a historical cutoff, prices, trades, a request bucket per client | `kalshi sync`, `backfill-settlements`, both made of stages | REST API, merge |
| `pattern_library` | event classes, outcomes, base rates, signatures, a version counter, a lock file | refresh (per-class pipeline on a pool) | reads the canonical tables |
| `signal_scanner` | a summary row per scan, records and traces | scan (per class, on a pool) | reads `pattern_library` |
| `mispricing_detector` | comparisons, traces, `comparison_resolutions`, a linkage watermark | cycle, linkage pass | reads scans, prices, resolutions |
| `position_engine` | bankroll configs, analyses, traces, append-only watch states | analysis cycle, watch/act/dismiss, expiration pass | reads comparisons and their resolutions |
| `monitor` | follow-ups | cycle over watched analyses, triggers expiration | reads analyses, scans, prices |
| `calibration_backtest` | a row per run, predictions and traces | replay (on a pool), cache, prune | reads resolutions and history |
| `report_generator`, `gui` | a log of reports and thresholds; nothing | render; view | read everything |

Persistence is autocommit: each statement is a transaction, except a schema
migration and the pruning of a backtest. So "write the outcome, then write the
mark that says so" is the recurrent pattern, and the recurrent question is
what a reader or a restart finds in between.

### What makes each part correct, and what is hard about it

- **Pool.** A connection is used by one thread at a time, whoever closes the
  store when; asking for one always gets an answer. Hard: the queue operations
  do not take the lock that `close()` and creation take, `_closed` is read
  without it, blocks nest.
- **Merge.** At most one active row per key; what a successful fetch saw is
  what readers see; a repeat writes nothing. Hard: classify, UPDATE and INSERT
  are three transactions, other workers write the same table, a crash can come
  between them.
- **Cycle.** The watermark never hides an item; a source's failure is its own;
  no cycle hangs. Hard: every worker holds one connection while it streams and
  may need another; the next `since` is a time in the past of the stream; a
  crash keeps half a stream.
- **Backfill.** A resume token covers only what is stored; completed means
  whole; re-running gets there. Hard: batch boundaries, page boundaries and the
  token's granularity are three different things; four code paths write the row.
- **Resolution sync.** The saved offset never hides a market; the delta may
  stop at the first page it knows. Hard: the listing is newest-first and moves
  under the walk.
- **Requests.** The API never sees more than its budget; no thread waits for
  ever; after a 429 everyone slows down. Hard: refill is lazy and done by the
  waiters themselves, `notify` wakes one, a retry pays again.
- **Pattern refresh, scan, comparison.** A class that is stamped, or scanned
  without a warning, has what its present definition computes; a cut refresh is
  made good. Hard: an output is deleted and inserted by several transactions,
  some outputs key by key, and not at all when there is nothing to write; a class
  has several outputs and fails alone, definitions are edited between commands, a
  lock file outlives a killed refresh.
- **Linkage, analysis, expiration, monitor.** Every comparison of a resolved
  market is linked once, then its analysis expires; nothing expires before.
  Hard: resolutions arrive late and out of order, one of them fails,
  comparisons and analyses are made after it, the operator marks at will, five
  commands each read what another one left.
- **Backtest.** Equal parameters give one run; a complete run has all its rows
  and never changes; a killed run can be made again. Hard: a run is a hundred
  transactions, its row the first and the last; two runs may be pruned while a
  third is refused.
- **Kalshi catalogue.** A row is marked removed only if the venue dropped the
  item. Hard: the tiers are read one after the other, each status by status and
  page by page, while the venue moves; a failure may supersede a row without a
  successor.
- **Kalshi settlements, trades.** No settled market is missed; the newest stored
  trade is a watermark with nothing missing below it. Hard: markets and trades move
  from one route to the other in the middle of a sweep; the route is chosen by a
  cutoff read minutes before.

Every hazard, at its line and with the properties that would catch it, is in
`PROJECT.json`.

## 2. The modules

| Module | Models | Uses |
| - | - | - |
| `ResumeTokens` | what the ten connectors with a backfill put into a resume token, as four grains | |
| `CheckpointedCopy` | abstract: what a resumable backfill promises | |
| `Backfill` | `run_backfill` | extends `ResumeTokens`, implements `CheckpointedCopy` |
| `SourceMirror` | abstract: what readers of a canonical table rely on | |
| `StagingMerge` | `staging_merge`, statement by statement | implements `SourceMirror` |
| `PermitPool` | abstract: what users of the pool rely on | |
| `StorePool` | `DuckDBStore`, at the grain of queue and lock operations | implements `PermitPool` |
| `IngestCycle` | `evaluate_due`, `run_cycle`, the persister, `run_incremental`, the watermarks | |
| `ResolutionSync` | `backfill_resolutions`, `sync_recent_resolutions` | implements `CheckpointedCopy` |
| `RateBudget` | abstract: a budget that is spent before it is used | |
| `RateLimit` | `TokenBucket` and `retry_with_backoff` of both market connectors | implements `RateBudget` |
| `WatchLifecycle` | abstract: what may happen to the mark of an analysis | |
| `Watchlist` | comparison cycle, linkage pass, analysis cycle, expiration pass, monitor cycle, operator's marks | implements `WatchLifecycle` |
| `PatternLibrary` | refresh, scan, and what a comparison takes from a scan | |
| `RunLedger` | abstract: what readers of the backtest tables rely on | |
| `Backtest` | replay, run cache, prune | implements `RunLedger` |
| `KalshiSync` | cutoff, the three tiers of the catalogue, settlements | |
| `KalshiTrades` | the trades of a watched market, by two routes | |
| `MC*` | the instances TLC runs | |
| `StoreProofs` | theorems about the store | extends `StorePool` and `StagingMerge` |
| `IngestProofs` | theorems about ingestion | extends `IngestCycle` and `Backfill` |
| `MarketProofs` | theorems about what the market connectors share | extends `RateLimit` and `KalshiTrades` |
| the other `*Proofs` | theorems about the module they are named for | extend it |

Where two modules are extended by one, the definitions of the first or second carry a
prefix (`PoolInit`, `CycleNext`, `TradesSpec`).

The models are layered by atomicity. `staging_merge` is opened as far as a module's
properties can tell. `StagingMerge` has every statement of it. `Backfill`,
`IngestCycle`, `ResolutionSync` and `KalshiSync` have its two halves: the UPDATEs, each
committed by itself, that supersede the active rows of revised records, and the
INSERT of the batch. A merge of records that have no row yet only adds to its
table; one of revised records takes their active rows away first, so that a job
that is cut off between the halves leaves records that were in the table without
one. The sets `torn` and `gone` hold them, and the properties say of each whether it
is asked for again. `IngestCycle` counts the connections that `StorePool` hands out.
The later modules start where these end: `Watchlist` and `Backtest` take the
storing of a resolution, which `ResolutionSync` opens, as one step of the world;
`PatternLibrary` and `Watchlist` meet in the comparison cycle, of which the first
has what it reads of a scan and the second what is made of its rows. Their
commands do not interleave, since DuckDB lets one process open the file for
writing: one variable says which command runs, and losing its locals is what a
kill does.

That the statements of a merge may be grouped into two halves is more than an
assumption: `StagingMerge` implements `SourceMirror`, in which a merge is a write to
keys that are owed, followed by a claim that holds when it is made. The write may
be seen half done, but only where a fetch is still owed.

### Backfill (`data_ingest/backfill.py`)

The window of a source is the records `1 .. N` in the order the connector yields
them. `stored` is the table, `row` the `backfill_state` row; `pc` and `run` are
the running command and are lost when it stops. `Begin(mode)` is the start, with
or without `--restart`; `PullBatch` and `StreamEnds` are `_batched_records`;
`Pause` is the cap check answering with a reason (the global cap first);
`Persist` and `SaveToken` are the insert of a batch and its token, in this order;
`Complete`, `Fail`, `Interrupt` are the ends: the handler that marks the row
failed, and a kill, a Ctrl-C or a handler that itself fails. `Supersede` is the
first half of the merge that `Persist` ends; `torn` are the records without an
active row in between, and `Held` what a reader finds. `RaiseCap`, `CorpusFills` and
`CorpusShrinks` are the operator and the rest of the disk.

A token is modelled by what the next run makes of it: the record the walk goes
on after, and where the listing it pages through starts. The grains:

| Grain | Connectors | A token means |
| - | - | - |
| record | FRED | this record |
| offset | NOAA | the request that starts at this record |
| page | ACLED, World Bank, EIA, NRC, Regulations.gov, GDELT, USGS | the whole page, window or edition of this record |
| narrowed | Federal Register | a page of a listing that starts on this record's date |

Record and offset tokens are safe wherever a batch ends. Page tokens are safe
when no batch ends inside a page, as with full pages in batches of a multiple
of their size: `Backfill_resume` checks an instance, and the theorems take it as
their hypothesis (`PagesFitBatches`). Otherwise they are not (section 6). Narrowed
tokens are not safe.

### StagingMerge (`data_ingest/persistence/staging_merge.py`)

`table[k]` is the sequence of rows of key `k`. A worker goes `Fetch`,
`Classify` (one SELECT), `Supersede` (one UPDATE per revision), `Insert` (one
INSERT), `Report`; `Abort` cuts it anywhere and keeps what was committed. The
source `Revise`s keys meanwhile. `owed` is what the caller's watermark still
asks for. A payload stands for its hash. Each key has one worker, because a key
contains its source and a cycle runs a source once; several workers share a
table. `Repeats` are the keys a batch may hold twice.

### StorePool (`data_ingest/persistence/duckdb_store.py`)

`queue` is the LIFO queue (which of its connections comes out is left open),
`held[t]` the connections of the blocks thread `t` is in, `putting[t]` the one
between the check of `_closed` and the put. `Enter` reads `_closed` unlocked;
`GetFast`, `GetMiss`, `Create`, `CreateFails`, `AtCap`, `GetSlow`, `Timeout` are
`_acquire`; `Leave`, `Put`, `LeaveClosed` are `_release`; `CloseBegins`,
`DrainOne`, `CloseEnds` are `close()`. Steps under the lock are excluded while
`close()` holds it (`shut = "draining"`); queue operations are not.

### IngestCycle (`data_ingest/scheduler.py`, `connectors/base.py`, `persistence/provenance.py`)

An item is the tick it is about; its source publishes it `Lag[s]` ticks later,
however many these are.
`BeginCycle(only)` evaluates what is due and chooses pool or serial; a source
goes through `st[s]`: queued, waiting for a connection, in the license gate
(which needs a second one), fetching, flushing batches, then `ok`, `failed` or
`skipped`, until `Record` writes the outcome on a third. Connections are
counted in `Holders`. `TimesOut`, `StreamFails`, `SetupFails`, `RecordFails` are
the failures; an exception out of `run_one` is reported by the pool's loop and
aborts the serial one. `BeginFlush` and `Flush` are the halves of a merge; `gone` are
the items whose rows it has superseded only. `Filter[s]` says how the connector
translates `since`. A source that is asked by the date of its items (ACLED) never
returns one that is dated before a watermark and published after it: `overtaken`,
which is history, has these, and what is said of the others holds for any delay.

### ResolutionSync (`polymarket_connector/sync/resolutions.py`)

Markets are numbered in the order they resolve. The listing is newest first, so
offset `o` names market `resolved - o`: every resolution in between shifts it.
A job goes `fetch`, `persist` and `insert` (the halves of the merge), `mark`, then
`save` (the backfill's offset) or straight to `next`, which decides whether to stop.
`torn` are the markets whose rows are all superseded. Those that the walk behind
the saved offset has torn itself are listed again when it is resumed; `lost` are the
others, torn by a delta, or by a backfill begun after one that completed. `row` is
the state row; its `base`, like `lost` and `cutTop`, is history the code does not
have: the newest market its walk has asked for, and the newest one when a job was
last cut short. They exist to state what the offset and the short circuit promise.

The assumption `MaxBurst < PageSize` says that less than a page of markets
resolves between two requests of a job (about a second, pages of a hundred).

### RateLimit (`{kalshi,polymarket}_connector/client/{rate_limit,retry}.py`)

Threads share one bucket of `tokens`, last touched `elapsed` ticks ago; `Level`
is what `_refill_locked` would make of it now. A thread goes `Request`, `Grant`
or `Wait` (with the condition variable), `TimesOut` or `Wake`, `Send`, then
`Answered`, `Fails` or `Throttled`; a Kalshi 429 `Drain`s the bucket; `Retry`
comes after the backoff and pays again, unless the attempts are used up. A
grant notifies one waiter, a drain all. Times are counters that `Tick` ages.
Both clients are in one module: `client` is chosen in `Init`, and what differs
(drain and `Retry-After` are Kalshi's) is a guard. `debt` and `burst` are
history: the most that any stretch of time ending now has seen granted, and
sent, beyond its refills. The floor of a wait (a millisecond) and the cap of the
backoff's exponent are left out: a wait is any time, and the retries are few.

### Watchlist (`mispricing_detector`, `position_engine`, `monitor`)

`compared`, `linked`, `analysed`, `watch` and `seen` are the tables that tie a
market to a mark: comparisons, `comparison_resolutions`, analyses, the newest
watch state, the newest follow-up. `watermark` is `last_linkage_ts`. A cycle
takes its list at the start (`StartCompare`, `StartLink`, `StartAnalysis`,
`StartExpire`, `StartMonitor`) and handles it item by item; what the list has is
decided once, so that what is stored later waits for the next command. `cmd`
also says which pass follows which: linkage after the comparisons, expiration
after the analyses and after a monitor cycle that saw a resolution. Failures of
one resolution (with some of its comparisons linked), of one analysis, of one
evaluation, and a kill anywhere are actions. `FlagMarket` and `StoreResolution`
are the connectors: a market's row and its resolution come in any order, and a
resolution carries a date that may be older than one handled before.

### PatternLibrary (`pattern_library/engines/refresh.py`, `signal_scanner/engines/scanner.py`, `mispricing_detector/engines/comparator.py`)

`out[c][o]` are the definition versions of the rows an output of class `c` has, with a
0 among them while rows are deleted and not inserted again: the versions are what
the properties tell apart, the numbers are not modelled. A refresh takes the lock,
hands classes to workers (`StartClass`), and each worker goes through the outputs
its class declares in the order of `refresh_class` (`Rank`). How an output is
replaced depends on it:

| Output | Deleted | Nothing to write |
| - | - | - |
| outcomes | by occurrence, those that are written again | the rows stay (`SkipOutput`, `barren`) |
| base rate | never: the latest is read | always written |
| signature | the row of class and variable | without outcomes the rows stay |
| analogues | those of the class together | without occurrences, unless a baseline can be sampled, the rows stay |
| calibration | by method | always written |

So `DeleteOutput` may leave rows of earlier definitions beside those that
`InsertOutput` writes (`Survivors`, `Keyed`), and a class without occurrences keeps what
it had. `IsWhole` says what remains true: what the last refresh computed is there
and of the present definition, and where keys do not decide, nothing else is.
`FailClass` gives a class up where it is; `FinishRefresh` writes the log row whatever
became of the classes; `Kill` leaves the lock. `scan` is the running scan, `done` the
newest completed one; a record is `blank` (no base rate, or an exception), `flagged`
(drift) or `silent`. `code` is the registry, which the author edits between
commands: a class changes, appears or goes.

### Backtest (`calibration_backtest/engines/replay.py`, `persistence/operations.py`)

A run id stands for a combination of parameters. `StartReplay` inserts the row,
`Evaluate` is the replay proper, whose outcomes are kept in memory, then
`InsertPrediction` and `InsertTrace` alternate and `CompleteRun` writes status
and counts. `Evaluate` scores or skips each resolution, as the data and the
errors inside its evaluation decide; one whose class has no base rate may only
be skipped, and before its class is evaluated. `FailEvaluation` is an error of the
subsystem, such as that missing base rate, which fails the whole run.
`FailStatement` marks the row failed; `Kill`, or a failure to mark, leaves it in
progress. `StartPrune` deletes the runs begun before a date, whichever they are.

### KalshiSync (`kalshi_connector/sync/*.py`, `cli.py`, `kalshi_connector/cycle.py`)

The venue moves at any time: an item turns from one listing (`status`) to another or
is in none, its `payload` is edited, a settled market is archived, after which only
the historical route has it. `stage` and `step` are where the sync is. A tier scans
its active parents (`Scannable`): the children of each are looked for in one listing
after the other (`Asked`: events by open, closed and settled, series and markets by
open alone). `todo` are the pairs of an item and a listing yet to be answered: as
listings come in pages, each item is looked for at a moment of its own
(`FetchChild`), in the order of its parent's listings (`IsNext`). That assumes what is
the venue's part: the cursor of a listing passes over nothing that stays in it.
Parents may be asked in any order. Nothing is stored unless all pages are
answered; `StoreTier` is the merge, `MarkRemoved` one UPDATE per row that no listing
had. `row` is the state of an item's current row, and `none` also after a
supersession that was cut off before its insert (`FailStore`). Settlements ask
`settled`, then `archived` (`FetchSettled`), and keep what they got even if a page
failed (`FailRoute`). `steady` and `back` are history: the items that were in a listing
the stage asks for ever since it began, and those of them that meanwhile returned
to a status asked for earlier.

### KalshiTrades (`kalshi_connector/sync/trades.py`)

The trades stage ends a sync that began by reading the cutoff (`SnapshotCutoff`);
the venue goes on trading and archiving in between. Trades are numbered in time.
`latest` is the newest stored one when the pull starts and decides the route
(`IsLive`); `FetchPage` takes the next page of that route's listing as it is
then, in one order or the other (`order`, chosen in `Init`: the code relies on
neither); `FailPage` ends the walk and keeps what it has; `StoreTrades` is the
one insert at the end.

## 3. The runs

| Run | Shows | Instance | States |
| - | - | - | - |
| `Backfill_resume` | a kill costs at most a batch, tokens move back only to the beginning, re-running completes; implements `CheckpointedCopy`, so that tokens and the status claim only stored records | 5 records, batches and pages of 2, three grains, 3 stops, every cap | 22,098 |
| `StagingMerge_workers` | one active row per key, a repeated fetch writes nothing, everything converges; implements `SourceMirror`, so that what was fetched is what is read | 3 keys, 2 workers in one table, 1 revision each of 2 keys, 1 cut-off merge | 217,872 |
| `StorePool_close` | every acquisition is answered; implements `PermitPool`, so that two threads never share a connection | 3 threads, 2 connections, blocks nested 2 deep, `close()` at any time | 5,728 |
| `IngestCycle_pool` | watermarks hide nothing but what they overtook at a source asked by date, a failed source is known to have failed, every cycle ends, all the rest is ingested | 2 sources (one gated, filtered by event date and two ticks late; one filtered by publication date), 2 workers, 2 connections, 2 ticks, 1 fault | 107,792 |
| `ResolutionSync_walks` | the short circuit is enough unless a job was cut short, jobs end, markets get stored; the backfill implements `CheckpointedCopy`, so that the offset hides nothing but what another job's cut merge has lost | pages of 2, 5 markets, 1 resolution between requests, 2 page cap, 1 fault | 140,841 |
| `RateLimit_requests` | the budget holds for grants and, up to one request a thread, for sends; after a 429 a thread has waited; implements `RateBudget`; every request ends | 2 threads, capacity 2, costs 2 and 3, with and without a timeout, 1 retry, 2 requests each, both clients | 206,032 |
| `Watchlist_pipeline` | a watch expires only if its market resolved, the watermark passes only what is linked or reported, a later resolution gets linked, a linked watch expires; implements `WatchLifecycle` | 2 Polymarket markets (one mapped by the operator), dates 1 and 2, 1 comparison, 1 analysis, 1 fault | 114,640 |
| `PatternLibrary_refresh` | a stamp and a record without warning mean whole outputs of the present definition, an error comparison means the scan was not asked, a library becomes whole again after cuts and edits | a class with two versions that trade a precursor for another, and analogues, which can be withdrawn; a class that is not registered; 1 worker, 1 fault | 433,660 |
| `Backtest_runs` | a complete run has the rows it counts, the tables are a ledger, every run gets complete; implements `RunLedger` | 2 windows that share a resolution, 2 classes, 3 faults | 19,649 |
| `KalshiSync_cycles` | nothing that was listed throughout a stage, and did not reopen, is marked removed, a clean sweep misses no settlement, settlements get stored and stay, the catalogue comes in step with the venue | 1 series, 2 events, a market in one, 2 payloads, 2 moves of the venue, 2 faults | 146,074 |
| `KalshiTrades_pulls` | a pull that answered in full, with the cutoff where it was, leaves no gap below the watermark; every trade is stored unless the watermark passed it | 5 trades, pages of 2, both orders of listing, 2 faults | 40,884 |
| `PatternLibrary_surfaced` | refutes a documented statement: section 6 | as `PatternLibrary_refresh` | |

Why the bounds are enough:

- Backfill: 5 records in batches of 2 give a first, a middle and a short last
  batch; three stops allow a failure, a kill and a full disk in one history, or
  three of one kind; caps run from one record to more than the window.
- StagingMerge: a key that is inserted, one that is revised and one of another
  worker can be in flight together, and a cut-off merge can be followed by a
  revision and a repair. Revisions are bounded per key, so that both the revised
  payload and the one before it occur.
- StorePool: three threads on two connections is the least in which one waits
  while two hold, and nesting lets the two holders wait for each other.
- IngestCycle: with as many connections as workers the gated source and the
  recording of the other compete for the last one. Two ticks are two cycles
  and the repair of a failed one, and a delay of two lets a cycle in between
  overtake the first item. The theorems are for any delays.
- ResolutionSync: five markets in pages of two are three pages, the last one
  short; a fault leaves a gap, or a torn market, for a delta to miss. The
  theorems have no bound on faults.
- RateLimit: capacity equal to a cost makes a waiter wait for a full refill; the
  cost 3 above the capacity is the `ValueError`. The bound of `SendsBounded` is
  attained: with one less TLC finds a violation.
- Watchlist: two markets give an order of resolutions that differs from the
  order of their dates, and a resolution that fails between two passes; one
  comparison and one analysis can each be made before or after either. The
  theorems have no such bounds.
- PatternLibrary: one worker is enough because a worker touches only the rows
  of its class: two of them commute. A class with three versions of its
  existence (absent, old, new) and one cut give each mixture of outputs that two
  refreshes can leave; the other class, which an operator may ask for by name, lets
  a scan that was asked for nothing be the newest one.
- Backtest: three faults leave a run in progress, fail it when it is made again
  and cut a prune of both; the shared resolution is what one run could take from the other.
- KalshiSync: two moves are an event that closes and reopens, or leaves and comes
  back, between the pages of one stage, and a market that settles and is archived
  within one sweep; two faults are a lost row and a cut repair. Two events make a
  tier of which one item is marked while the other is kept. The market has a parent
  that may be removed, or not scanned. The theorems have no bounds.
- KalshiTrades: five trades are two full pages and a short one, on either route;
  two faults are a gap and a cut in the pull after it.

`CHECK_DEADLOCK FALSE` appears in `StorePool_close` only: a closed store whose
threads have left stops.

Every counter that bounds a run is a constant commented "bound": `MaxStops`,
`MaxRevisions`, `MaxAborts`, `MaxNest`, `MaxTime`, `MaxFaults`, `MaxResolved`,
`MaxRequests`, `MaxTs`, `MaxComparisons`, `MaxAnalyses`, `MaxMoves`, `MaxTrades`. `MaxBurst`,
`MaxWorkers`, `MaxPages` and `MaxRetries` are parameters of the code or of an
assumption, not bounds.

The type invariant of each module is proved (section 5), so no run searches for it.

## 4. Fairness

| Module | Assumed | Because |
| - | - | - |
| `Backfill` | WF of the run's own steps; for completion also that the operator runs the command again, raises the cap and frees disk | sequential code; the document of the command tells the operator to |
| `StagingMerge` | WF of a started merge's steps; WF of another fetch while keys are owed | sequential code; the daily job |
| `StorePool` | WF of acquire's steps and of the put; WF of `close()`'s steps. Leaving a block is not assumed | threads are scheduled; the queue is waited on with a timeout |
| `IngestCycle` | WF of each worker's steps, of the end of a cycle and of time; SF of the daily cycle | threads; waits time out; cron |
| `ResolutionSync` | WF of a job's steps; SF of the daily delta | sequential code; cron |
| `RateLimit` | WF of the clock and of each thread's steps | threads; the HTTP clients are built with timeouts, so a request is answered or fails |
| `Watchlist` | WF of a command's steps; SF of the linkage pass, the analysis cycle and the monitor | sequential code; the daily script of `docs/sop.md` runs them |
| `PatternLibrary` | WF of a command's steps; SF of a full refresh and of the removal of a stale lock | sequential code and a pool; the operator's daily refresh, and what the error message of a lock tells him to do |
| `Backtest` | WF of a command's steps; SF of each resolution's arrival, of each class's base rate, of a replay, and of the pruning of a run that did not complete | sequential code; syncs and refreshes go on; an operator who is refused a run has no other way |
| `KalshiSync` | WF of syncs and their steps; SF of a sync with its catalogue | sequential code; the daily script |
| `KalshiTrades` | WF of syncs and their steps; WF of the venue's archiving | sequential code, the daily script; the cutoff moves on with time, and a market that fell behind it depends on that (section 6) |

No run assumes that a fault does not happen: faults are bounded instead. Strong
fairness of a daily job is needed because it is enabled only between jobs. The
venue, too, may move only a bounded number of times, so that "once the venue
stands still" means something.

The token bucket is not fair to its waiters: a newcomer may take what a waiter
waits for. `RequestEnds` holds because each thread makes finitely many
requests; with an endless supply of competitors the code gives no guarantee.

## 5. The proofs

All theorems hold for every value of the constants that the modules' `ASSUME`s
admit. A hypothesis that is stronger than these is part of the theorem.

| Module | Theorem | States | Hypothesis |
| - | - | - | - |
| `StoreProofs` | `PoolTypes`, `NeverShared` | `PoolTypeOK`, `InOnePlace` | |
| | `StoreImplementsPermits` | refinement of `PermitPool` | |
| | `MergeTypes` | `TypeOK` | no key twice in a batch |
| | `OneActive` | `OneActivePerKey` | the same |
| | `NothingLost` | `UpToDate`, `GapIsOwed` | the same |
| | `RepeatsAreFree` | `RepeatWritesNothing` | the same |
| | `MergeIsMirror` | refinement of `SourceMirror` | the same |
| `IngestProofs` | `CycleTypes`, `FreshnessIsHonest` | `CycleTypeOK`, `FailureIsNews`, `WatermarkAdvances` | |
| | `WatermarkIsSound` | `WatermarkSound` | |
| | `BackfillTypes` | `TypeOK` | tokens are record, offset, or page where no batch ends inside a page |
| | `ResumeIsSafe` | `TokenSound`, `CompletedIsWhole` | the same |
| | `AtMostABatchIsLost` | `WorkAtRisk` | the same |
| | `ProgressIsKept` | `TokenAdvances` | the same |
| | `BackfillImplementsCopy` | refinement of `CheckpointedCopy` | the same |
| `ResolutionSyncProofs` | `TypeCorrect`, `OffsetOnlyAdvances` | `TypeOK`, `OffsetAdvances` | |
| | `BackfillIsSound` | `OffsetCovers`, `CompletedIsWhole` | |
| | `WalkImplementsCopy` | refinement of `CheckpointedCopy` | |
| | `DeltaIsSound` | `HoleMeansCut` | |
| `MarketProofs` | `BudgetTypes`, `BudgetIsKept`, `DrainIsPaid` | `TypeOK`, `RateRespected`, `PaidAfterDrain` | |
| | `SendsAreBounded` | `SendsBounded` | |
| | `LimiterKeepsBudget` | refinement of `RateBudget` | |
| | `TradesTypes`, `CleanPullIsGapless` | `TradesTypeOK`, `CleanPullHasNoGap` | |
| `WatchlistProofs` | `WatchlistTypes` | `TypeOK` | |
| | `NoFalseExpiry` | `ExpiredMeansResolved` | |
| | `WatermarkIsCovered` | `WatermarkCovers` | |
| | `Refinement` | refinement of `WatchLifecycle` | |
| `PatternLibraryProofs` | `LibraryTypes`, `MissingWasNotAsked` | `TypeOK`, `MissingOnlyIfNotAsked` | |
| | `StampedIsWhole` | `StampMeansWhole` | |
| | `SilentIsWhole` | `SilentMeansWhole` | |
| `BacktestProofs` | `TypesHold` | `TypeOK` | |
| | `CompleteRunsAreWhole` | `CompleteIsWhole` | |
| | `TablesAreALedger` | refinement of `RunLedger` | |
| `KalshiSyncProofs` | `SyncTypes` | `TypeOK` | |
| | `OnwardStaysKept` | `OnwardIsKept` | |
| | `SweepFindsAll` | `SweepIsWhole` | |

Every safety and action property of the passing runs is among them. Some theorems
state what no run lists among its own: the types, what a refinement that a run checks
implies (`InOnePlace`, `UpToDate`, `TokenSound`, `OffsetCovers`, `CompletedIsWhole`,
`RateRespected`), and what is simple (`GapIsOwed`, `WatermarkAdvances`,
`OffsetAdvances`). What is proved for every instance need not be searched for in one.

The hypotheses are what section 6 shows to be needed: without them TLC refutes the
property. (`BackfillTypes` shares its proof with `ResumeIsSafe`, and so its hypothesis.)

The arguments, by their inductive invariants (each was model-checked before it
was proved):

- **Backfill.** `Inv` adds to the property that the token the run would save
  next (`LastSafe`) covers only stored records, and that the records between
  the saved token and the walk's position are stored too (`WalkSafe`). A record or
  offset token never reaches past the record it is taken from; a page token does
  not if that record ends its page, and `BatchSafe` says that positions with page
  tokens are always ends of batches. For the work at risk, `RiskSafe` follows how far
  the walk is ahead of both tokens. That tokens advance is the invariant
  `AdvanceSafe`: once a run has a token of its own it is not behind the row's, because
  tokens grow with the records that carry them (`TokensAdvance`).
- **StagingMerge.** Only the newest row of a key can be active (`OnlyNewest`);
  and per worker, what it classified is still true when it acts on it, because
  no other worker writes its keys (`WorkerInv`). `UpToDate` needs the second, and so
  does the refinement: every key that a merge writes is owed (`WritesAreOwed`), as
  the table shows another payload than the source; a report settles keys that show
  what was fetched.
- **StorePool.** A thread that carries a connection to the queue is at the put
  (`Carrying`); the rest is that each step moves a connection from one place to
  one other.
- **IngestCycle.** `TimeInv` orders the times (watermarks before the start of
  the cycle, that before now); `CoverInv` says for each stage of a source what
  table and buffer cover together: at `ok`, all that was published when the
  cycle began, except what a watermark overtook. `Repairable` says that the next fetch
  asks for every item whose merge was cut in two, and that all a watermark is ahead of
  has been recorded as overtaken, so that no hypothesis on delays is needed. The
  lemma `AnswerCovers` is about the filter.
- **ResolutionSync.** `RowWalk` and `JobWalk` say which markets the saved offset
  and the running walk have dealt with, in terms of a listing that has shifted;
  `HoleInv` follows a possible gap: none while no job runs (`IdleHole`), none but
  the one the running delta is closing (`DeltaInv`), none but the one the
  running backfill has yet to reach (`WalkHole`). These speak of markets that were
  stored and marked at some time (`Reached`), which no merge takes back. `TornInv` adds
  the rest: what the walk's own merges have torn and not replaced lies ahead of the
  saved offset and of the running walk, so that a resumption lists it again;
  everything else that is torn is in `lost`. `MaxBurst < PageSize` is used
  once: consecutive pages of a delta overlap or meet. For the
  refinement: a step writes rows of markets or the state row, never both
  (`RowsOrState`).
- **RateLimit.** `WithinBudget`, that what was granted beyond the refills and
  what is still in the bucket together never exceed the capacity, gives the
  budget; `Earned`, that the bucket holds no more than was refilled since any
  thread's last drain, gives the other. The refinement maps the lazily refilled
  bucket to one that is refilled at each tick: a `Tick` of the code's clock is
  the abstract refill, and the code's refills are stutters. For sends, `WithinSends`
  says that `burst` and the grants that are not sent yet exceed the capacity by no
  more than one costliest request per thread. The sum over threads is the
  cardinality of a set of tokens, which needs that the threads are finitely many
  (`ThreadsAssumption`).
- **Watchlist.** `ExpiredMeansResolved` is about two tables that no command
  writes together. The invariant follows the evidence: a link is there only for
  a comparison whose market has a resolution, what the expiration pass has yet
  to handle is linked, and rows are never taken back (`SameRows`, `LinkedGrows`).
  For the watermark, every resolution later than it that the pass no longer
  has pending is linked or among the errors. The order in which they are handled
  is not needed.
- **Backtest.** `Storing(run)`: while a run is persisted, its stored rows are
  those of the outcomes in memory, except the outcomes in `todo` and the trace
  in `half`. A run without a row has none in the other tables, so that a replay
  starts from nothing; here the one-transaction prune is used. The counts are
  then equal sets' cardinalities, which needs that `Resolutions` is finite
  (`FiniteAssumption`).
- **PatternLibrary.** A class at work has, of the outputs its refresh computes
  (`NeedsAt`: those it declares, and without occurrences only two), all but those in
  `todo` fresh (`AtWorkInv`), so that at the stamp, the last in rank, it has them all.
  An output whose rows are deleted is still in `todo`, and shows that it is not whole
  unless its rows are deleted by key (`GoneInv`). A class that nobody left half way has
  all it needs of the version its base rate is of (`SettledInv`), whatever the registry
  says by now; a record without a warning adds that this version is the present one,
  and that no signature is of another.
- **KalshiSync.** `LookInv`: an item that was in the stage's listings all along and did
  not return to an earlier one, and whose parent was asked for, was found, or is yet to
  be looked for in the listing that it is in now. A move to a later listing keeps that,
  since a look at a listing comes after all looks at the earlier ones. So such an item
  is never in `gone` (`MarkingInv`). The same invariant gives the sweep: a settled market
  only ever moves on to the archive (`SettledInv`), which is asked second. With the
  routes in the other order that fails.
- **KalshiTrades.** Under a cutoff that stands still, a walk whose pages all answered
  has got every trade above the watermark on its side of the position it has reached
  (`WalkInv`), and what is to be stored has none missing below its newest
  (`StoreInv`), for either order.

Only model-checked: the liveness properties (those named `Eventually...`,
`Converges`, `...Ends`), since fairness and ENABLED are outside the prover's reach.
`SurfacedHasSignal` is refuted.

## 6. Disagreements between the code and its documentation

Refuted by a run:

- `PatternLibrary_surfaced`: a scan record of an evaluation that raised, or of a class
  without a base rate, carries the posterior 0.0
  (`signal_scanner/engines/scanner.py:275-307`, `:730-766`). A comparison reads the number
  and neither mark of the record (`mispricing_detector/engines/comparator.py:134`), so it
  is taken for a forecast of "impossible" and may be surfaced. `docs/scanner.md:207-209`
  says such records report no signal in either direction.

Read off the code, without a run of their own. In `data_ingest` and the market
connectors:

- A backfill run that is paused or fails before its first batch writes NULL over
  the resume token (`data_ingest/backfill.py:222`, `:272`), so the next one starts
  from the beginning; lines 6-7 promise the opposite. No data is lost:
  `TokenSound` still holds.
- A batch that ends inside a page saves a token for the whole page
  (`connectors/acled.py:286`); `connectors/base.py:50-58` says tokens are produced
  where resumption is safe. The rest of the page is skipped by a resumed run. It
  takes a batch that ends inside a page, as after the short last page of a year,
  and a stop right after. (`TokenSound` fails with groups that are not full.)
- A key that occurs twice in a batch gets two active rows (`staging_merge.py:191`) where
  the table's primary key does not refuse them, against the rule of lines 15-18.
  (`OneActivePerKey` fails when `Repeats` is not empty.)
- Sources asked by event or observation date never return an item published later
  than the fetch after its date (`connectors/acled.py:255`); `connectors/base.py:184`
  says "published on or after". (`WatermarkSound` and `EventuallyIngested` name these items,
  `overtaken`; both fail without the exception.)
- A merge of revised records that is cut between its UPDATEs and its INSERT leaves
  them without an active row until something asks for them again
  (`data_ingest/persistence/staging_merge.py:184`). Every fetch that its watermark does
  not cover, and every resumed backfill, asks again. A delta of the resolution sync need
  not: it stops at the first page that it knows. Nor does a completed backfill.
  `polymarket_connector/sync/resolutions.py:103-106` promises "a clean partial state".
  (`torn = {}` between jobs fails at once; the markets are `lost` in `ImplementsWalk`.)
- A delta that is cut short after its first page hides the rest of the gap from the
  next one (`polymarket_connector/sync/resolutions.py:229` and the comment at
  227-228). (`HoleMeansCut` says it is the only way.)
- Federal Register counts pages in a listing that the token itself narrows
  (`connectors/federal_register.py:127`, against 18-20). `ResumeTokens` has the
  grain; `TokenSound` fails for it at once.
- `duckdb_store.py:136` reads `_closed` before `_acquire`, so a thread may be given a
  connection by a store that `close()` (180) has just shut; a connection put back
  after the drain (168-175) stays open in the queue of a closed store.
  `StorePool` has both behaviours; neither shares a connection.
- `scheduler.py:370-371` says per-source failures do not stop the cycle; the serial
  path (433) lets an exception of one source through.
- `scheduler.py:13-14` says that a connection is held per batch; it is held for the whole
  stream (227) and the license gate takes a second (`acled.py:325`).
- `staging_merge.py:27-28` speaks of one writer per table; workers of several sources share
  tables (`scheduler.py:438`). `StagingMerge` shows that this is harmless: their
  keys are disjoint, and a write conflict is one of the merges that are cut off.
- `kalshi_connector/client/retry.py:20-21` says that Polymarket honors Retry-After; its
  `client/retry.py` has no such code.
- The Polymarket bucket is shared by a process; each Kalshi client has its own
  (`kalshi_connector/client/rest.py:139`).

In the catalogue of Kalshi, and in Polymarket's where named:

- A closed event that reopens after the open events were asked for, and before the
  closed ones are, is in no answer though it never left the venue's listings, and is
  marked removed (`kalshi_connector/sync/events.py:91-106`, `:139-146`); lines 3-6 say that
  the three requests let "the diff" detect "status transitions reliably".
  (`OnwardIsKept` excepts these items, `back`, and fails without the exception.)
- A removed series, event or market that is listed again with its old payload stays
  removed: the merge finds it unchanged and nothing clears `removed_at`
  (`kalshi_connector/sync/markets.py:161`, `polymarket_connector/sync/markets.py:180`),
  against REQ-KSI-MARKET-003 (`specs/KALSHI_CONNECTOR.md:138-139`). Nothing below such
  a row is asked for. `EventuallyInStep` names the case (`Buried`).
- Markets of a removed event and events of a removed series are never marked
  removed, as only the children of scanned parents are compared; prices go on
  being polled for them. `EventuallyInStep` excludes them (`Reached`).
- `sync/settlements.py:3-17` describes a routing by cutoff and a watermark; the code
  pulls both routes in full (98-133). `SweepIsWhole` depends on their order.
- `sync/series.py:125` alone marks the source as fetched, whatever becomes of events
  and markets; `settlements.py:161` marks it although a route failed.
- `kalshi_connector/cycle.py:114` says failures are recorded in `report.errors`; those
  caught inside a stage stay in its report and the outcome is "ok".
  `run_kalshi_cycle` and `run_polymarket_cycle` have no caller outside the tests:
  the command line runs the stages itself, without their isolation.
- The cutoff row is deleted and inserted by two transactions (`sync/cutoff.py`); a kill
  in between makes every settlement stage refuse until the next snapshot.

In Kalshi's trades (`kalshi_connector/sync/trades.py`), against REQ-KSI-TRADE-001
(`specs/KALSHI_CONNECTOR.md:195-196`: "all trades on a given market since"):

- The first pull of a market asks the live route only (96): what the venue had archived
  by then is never stored.
- A market whose newest stored trade is before the cutoff is asked on the historical
  route only, and its newest stored trade stays before the cutoff: from then on it
  gets trades when they are archived and not before. `EventuallyStoredOrPassed`
  therefore needs that archiving goes on.
- A page that fails (123), or a cutoff that moves after it was read, may leave a gap
  below the watermark that no later pull looks for. `CleanPullHasNoGap` says that there
  is no other way.

From comparison to watch list:

- A resolution that is stored after another one with the same or a later date is
  never linked, because the watermark is the largest date handled
  (`mispricing_detector/engines/linkage.py:94`); its watches never expire.
  `README.md:748-752` and `monitor/engines/comb.py:8-10` say the views converge. The same
  goes for a resolution that failed and was passed by a later one, for a comparison
  made after its market's resolution was linked, and for every Kalshi comparison:
  settlements are not read. `EventuallyLinked` is what remains true.
- A corrected outcome is not linked again. The labels differ: linkage turns
  `unknown`, `true` and `1` into invalid, the monitor takes `true` and `1` for yes and
  `unknown` for unresolved.
- `README.md:645` calls `expired` terminal; the operator may mark an expired analysis
  again, and the next pass expires it again.
- `position_engine/watch/expiration.py:50` speaks of a flag `--expire-only` that no
  command defines.

In the pattern library and the scanner:

- The signature row of a precursor that a class no longer has keeps its old
  definition version within a library version; drift is flagged for ever and strict
  scans abort for ever (`scanner.py:670-676`), while
  `docs/user_guide.md:2743-2748` says a refresh settles it. `Drifts` has it.
- A killed refresh leaves its lock (`refresh.py:556-589`); every later one gives up after
  ten seconds until somebody deletes the file.
- `refresh.py:29-31` says that a class that fails keeps its prior outputs "in place"; it
  is left as the exception found it, half new or with a hole.
- A refresh that finds no occurrences writes no outcomes, signatures or, as a rule,
  analogues, and deletes none: the rows of an earlier definition stay, and the class is
  stamped (`refresh.py:345-371`, `persistence/operations.py:136-154`). Outcomes are deleted
  by occurrence and calibrations by method, so that those of an earlier definition
  may stay beside the new ones. (`IsWhole` allows both; a scan flags such signatures, and
  nothing flags the others.)
- A refresh of one class, or one in which every class failed, logs a row that makes
  the library fresh (`scanner.py:713`). A scan of one class becomes the latest scan, so
  that the comparisons of all other classes are errors (`MissingOnlyIfNotAsked`).
- `LIBRARY_VERSION` is a constant: nothing bumps it on a change, and of several reasons
  the log keeps the first. A signature that is
  missing after a kill is not taken for drift (`SilentMeansWhole` says so).

In the backtest (`calibration_backtest/engines/replay.py` unless named otherwise):

- A replay bounds the precursor queries by the date a row is about, among the rows
  that are active today (`signal_scanner/engines/scanner.py:643` and the queries of
  `pattern_library/classes`); a row published after the prediction instant, or revised
  since, informs a scored prediction. `engines/freezer.py:3-5` and
  `specs/CALIBRATION_BACKTEST.md:137` promise a bound on the publication time.
- `specs/CALIBRATION_BACKTEST.md:207` says a crashed run is picked up under its id; the
  insert (1248) is refused as a duplicate until the row is pruned, and so for a
  failed run. `EventuallyComplete` needs the prune.
- One class without a base rate fails the whole run: the comment at 864-870 says the
  path "records a skip", as does line 130 of the specification, and the code raises.
- Line 206 says rows are never deleted; `prune` deletes them, and with `--before` all
  runs that are older, complete or not.
- FREEZE-003 (147): the definition version is read from `pl_event_classes`, which only a
  refresh updates, while the replay uses the registry's class. Base rate and
  signatures are the latest library's, not the frozen one's.
- The cache answers a complete run although resolutions were stored in its window
  since. `persist_score_summary` is never called by `run`. Ties in the first tier of the
  polarity rule are broken arbitrarily (`polarity.py:13-24`).

## 7. What is not modelled

- Pure I/O and conversions: HTTP, parsing, normalisation, geocoding, credential
  files, logging, rendering (`report_generator`), the read-only web views (`gui`).
  They keep no state that a later step depends on. Most of the larger files
  (the command lines, the report renderer, the web views, the schema, the query
  helpers) are of this kind.
- Numeric engines: base rates, signatures, Monte Carlo posteriors, Kelly sizing,
  calibration scores. Their values are floating point and their properties
  numerical. Where a decision depends on one, the models leave it open
  (`CompareClass`, `Evaluate`, `CompareMapping`).
- Provenance beyond the two watermarks; anomalies; license acknowledgement; the
  version log and the registry table of the pattern library, which no later step
  reads.
- Price and order book snapshots of both markets, and Polymarket's trades: each pull
  asks for what there is and appends it through the merge; no state is carried from
  one to the next.
- Polymarket's market listing: it is the last tier of `KalshiSync` with two
  listings (open and recently closed) in the place of one per event. Its diff
  against the table, and the removed row that stays removed, are the same.
- `connectors/fred.py:180`: a token that names a series since taken out of the
  configuration makes the stream skip every series. The configuration is constant
  in `Backfill`.
- `connectors/acled_deletions.py`: nothing calls it.

## 8. The plan

The path by which data enters the system, the tables that follow from it up to
the watch list, the library, the backtest and Kalshi's catalogue are modelled.
What is left, most important first:

1. Abstract specifications, and refinement proofs, for what has only properties so
   far: the pattern library (a stamped class shows what its definition computes, and
   what may stay beside it), Kalshi's catalogue and settlements, the trades.
2. `IngestCycle` as an implementation of a mirror with items that may be overtaken:
   what `SourceMirror` is to a merge, for a watermark.
3. `BackfillTypes` without its hypothesis.
4. Polymarket's market listing as an instance of a tier, if `KalshiSync`'s tier is made
   a module of its own.
