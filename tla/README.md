# ScalpLab in TLA+

ScalpLab is a research and recording platform for Binance futures: it records
public market data without gaps it does not admit to, reconstructs order books,
backtests and replays strategies on what it recorded, and paper-trades them. This
directory holds TLA+ modules of the parts where the order of events decides
whether the data can be trusted, the TLC configurations that check them on small
instances, and TLAPS proofs of the properties that matter most for all of them.

Paths below are relative to `src/scalp/` of the repository unless they start
with another directory.

## 1. Inventory

| Component | State | Operations | Talks to | What makes it correct |
|---|---|---|---|---|
| Local order book, `live/book.py` | levels, last update id, quality | `reset`, `apply_snapshot`, `apply_futures_delta`, `apply_spot_delta`, `metrics` | called by the recorder | a HEALTHY book is the exchange's book at its update id |
| Recorder streams, `live/recorder.py` 139-254 | socket, receive queue, books, `gaps`, health | `_ws_loop`, `reader`, `_sync_book`, `_handle`, `_write_event` | exchange (websocket and REST), IntegrityStore, ChunkWriter, MicrostructureTracker | no hole in recorded depth without a gap row; outage rows end; drained books are current |
| Recorder life cycle, `live/recorder.py` 69-137, 256-302 | session, tasks, stop event | `start`, backfill, feature, heartbeat, universe and poll loops, stop | IntegrityStore, ChunkWriter, UniverseService, BinanceFuturesClient | time without a recorder is in a gap row; a clean stop loses nothing |
| IntegrityStore, `live/integrity.py` | SQLite tables sessions, heartbeats, gaps, coverage, latest_features | one transaction per call | recorder, inspector, web, shadow | rows and files agree after any crash |
| ChunkWriter, `live/chunks.py` | buffers per key, start times; files on disk | `add`, `flush_key`, `flush_all`, `recover_*` | IntegrityStore, file system | a received event stays in a buffer until it is on disk, and is in one covered chunk |
| StorageManager, `live/storage_health.py` | disk usage cache | `status`, `prune_raw_l2` | recorder's heartbeat, web | pruning does not leave rows that name missing files |
| MicrostructureTracker, `live/microstructure.py` | windows of trades, previous books | `on_trade`, `on_book_delta`, `snapshot` | recorder | sums over the interval since the last snapshot |
| Shadow trader, `live/shadow.py` | pending, open, equity | `_process_bar`, `_invalidate_all`, `start`, `stop` | exchange stream, decision engine, IntegrityStore | one position per symbol; nothing carried over a gap; equity is the sum of the results |
| Backtest engine, `backtest.py` | cash, pending, open trades, curve | `run`, `_try_fill`, `_manage_trade`, `_close_qty`, `_finalize` | decision engine | every quantity closed once; cash reconciles; risk capped; no valid trade across a gap |
| Decision engine, `decision.py`, `strategies/` | none | `evaluate`, `select`, `execution_mode` | engine, shadow | one winner or a reason |
| Recorder daemon, `recorder_control.py` | command and health tables, task, paused | `command`, `next_command`, `recorder_daemon` | web, recorder | a command is carried out once; a paused daemon does not write |
| Runtime storage, `runtime_storage.py`, `web/app.py` 104-124 | pointer file, trees | `validate`, `migrate` | daemon, every store | the pointer names a complete tree; nothing is written while it is copied |
| Strategy versions, `strategy_rules.py` 105-150 | definitions table | `create_draft`, `update`, `publish`, `archive` | web jobs, shadow | a published definition never changes and its hash is its own |
| Rule interpreter, `strategy_rules.py` 43-102, 153-185 | none | `validate`, `evaluate` | versions, engine | total over validated rules |
| Historical cache, `data/binance.py` | day files, index, request gate | `klines`, `agg_trades`, `cleanup`, `_get` | exchange REST and archive | a cached day is the whole day; requests keep their distance |
| Universe service, `universe.py` | snapshots, `latest.json` | `refresh`, `enrich_snapshot` | recorder, web | a reader sees a whole snapshot |
| Web jobs, `web/app.py` | jobs, shadow task | `_run_job`, start and stop endpoints | everything above | a job runs the versions it reports |
| Data inspector, `data_inspector.py` | none | `inspect`, `_union_ms` | IntegrityStore | REPLAY READY only over a range without gaps |
| Replay loaders, `replay/` | none | `load`, `to_bars`, `build` | engine | no bar from before the first snapshot |
| Walk-forward, optimizer, calibration | none | folds, grid | engine | a test fold is not used for tuning |
| Configuration, runtime, CLI, doctor, radar, progress, result store, ML baseline, browser code, systemd units | little or none | | | |

How they interact: the recorder is one asyncio process; its coroutines share
the books, `gaps`, `health` and the writers without locks and interleave only
at an `await`. Everything that survives a crash is in the files of ChunkWriter and
in SQLite. The web process and the daemon communicate through SQLite tables only.

What is hard here: coroutines that suspend between a read and its use (the REST
snapshot of a book while events queue up); a bounded queue that refuses events;
sockets that are lost, REST calls that fail one of several at a time; crashes
between any two of write, rename, registration, heartbeat and gap row; clean
stops against crashes; loops that end at their first exception; requests and
research jobs in threads of their own that share rows and files; a migration that
moves the database two processes talk through. `PROJECT.json`
lists these hazards line by line with the property that watches each.

## 2. Modules

| Module | Models | Role |
|---|---|---|
| `LocalOrderBook` | `live/book.py` | operators of one book: what a snapshot or a delta makes of it |
| `TrustedBook` | - | abstract: what a consumer of books may rely on |
| `FullL2Recorder` | `_ws_loop` for FULL_L2, `_sync_book`, `_handle`, gap rows | state machine over the operators of LocalOrderBook; implements TrustedBook |
| `FullL2RecorderProofs` | - | theorems |
| `ChunkWriter` | `live/chunks.py`, the coverage table | buffers, chunk files, the steps of a flush |
| `RecorderLifecycle` | `start`, sessions, heartbeats, gap rows of a restart | extends ChunkWriter with processes that start, stop and crash |
| `RecorderLifecycleProofs` | - | theorems |
| `Totals`, `TotalsProofs` | `sum()` over the open trades, orders and rows | the sum over a list, and lemmas about it |
| `Backtest` | `backtest.py` | the replay loop: orders, fills, management of trades, signals |
| `BacktestProofs` | - | theorems |
| `ShadowTrader` | `live/shadow.py`, the decisions table, the start and stop endpoints | state machine |
| `ShadowTraderProofs` | - | theorems |
| `StrategyVersions` | `StrategyVersionStore` | state machine of the definitions table under concurrent requests |
| `StrategyRules` | `RuleInterpreter`, `DeclarativeStrategy`, `DecisionEngine` | operators |
| `StrategyJobs` | research jobs of `web/app.py` | composes the two: jobs look versions up and run them |
| `RuntimeRoots` | `runtime_storage.py` | operators and steps of a migration of the runtime root |
| `RecorderControl` | `recorder_control.py`, the migration and recorder endpoints and jobs of `web/app.py` | composes RuntimeRoots with the daemon, the web process and their crashes |
| `HistoricalCache` | `klines`, its files, index and `cleanup` in `data/binance.py` | state machine of concurrent jobs |
| `StrategyJobsProofs`, `RecorderControlProofs`, `HistoricalCacheProofs` | - | theorems |
| `MCFullL2Recorder`, `MCRecorderLifecycle`, `MCBacktest`, `MCShadowTrader`, `MCStrategyJobs`, `MCRecorderControl`, `MCHistoricalCache` | - | instances for TLC |

A definition marked `Slip` in a comment is a variant of its neighbour with a mistake a
programmer could make. No specification uses one: each shows that some property
would notice it.

### FullL2Recorder

An action is what a coroutine does between two suspending awaits; `pc` is where
`_ws_loop` is suspended, `syncing[s]` where the `_sync_book` of `s` is. The
exchange makes updates (`Trade`) and sends them in events with `U`, `u`, `pu`
(`Emit`), possibly several updates in one, or loses one (`Skip`). `Receive` is the reader task
with `put_nowait` and its QueueFull branch; `Disconnect` is the `except` branch.
A failed `gather` leaves its other tasks running: they become `orphans`, which
apply their answer to the book object of the next connection. A level's price is
a model value and its quantity the number of the update that last set it, so that
two books are equal only if they are made of the same updates. Time is the
number of events sent. `recorded`, `holes`, `dropped` and `missed` are history variables:
what was given to the writer, where it skips, what the queue refused, and which updates
can reach the book of a symbol no more on this connection: lost on the way, refused by the queue,
or passed before the snapshot was requested. A gap row carries the symbol it is about, or
none when it is about the stream, and a hole is logged only by a row of its own symbol or of the stream.

`TrustedBook` is the promise: a consumer sees no book, or a book of the exchange; it
moves only forward, and to move anywhere else it is withdrawn first. `Shown` is the refinement mapping: the books that are HEALTHY.

### ChunkWriter and RecorderLifecycle

An event is its receive time, and every event has its own, so files, rows and
names can be compared exactly. `flush_key` is synchronous; it is cut at the
points where it can fail or the machine can stop: `.tmp` written, renamed,
registered. A failed step leaves the buffer alone; who catches the exception
(`Escape`) depends on the key: `_ws_loop` catches, the feature and universe loops
end, `start` itself ends without closing its session. `Begin`, `RecoverOrphan`,
`OrphansDone`, `Classify`, `BackfillDone` are the steps of `start`; `Heartbeat`
writes the only other sign of life; `Crash` keeps the disk and loses the buffers,
with or without a new boot id. `received` and `missed` are history variables: the
events given to a writer and the market events nobody was there for.

### Backtest

The engine is sequential. `loop` is its program counter: the timestamp, the
symbol whose turn it is and the handler that runs (`bar` fetches the row, `fill` is
`_try_fill`, `manage` the first and `decide` the second half of `_manage_trade`,
`signal` the second loop of `run`). An action is one branch of one handler; which of
them runs is decided by the data, which the model leaves open: whether a frame has
a row, whether the loader flagged it, what the row is, what the strategies pick on
it, whether two symbols correlate. A row carries its pick because both loops
evaluate the same row. `data_gap_before` is computed as in `prepare`, from the rows
that are missing and from the flag. Cash, prices and quantities are integers and
divisions round down, so that the books must balance exactly; slippage is a number
of ticks. `stop_first_on_ambiguous_bar` has no counterpart: the code looks at the
stop first in both branches and the switch changes only the reason it stores.
A stop that equals the fill (`risk_dist<=0`) has none either: `StopTypes` in
`BacktestProofs` shows that it cannot happen. `since` and
`peak` are history variables: the last row after a gap, and the highest cash.

### ShadowTrader

`task` is the coroutine of `start` (`loop` before the connection, `stream` in it), and
`Bar` is the whole of `_process_bar`: fill, management, signal, in that order and on one
row. `StreamFails` and `BarFails` end in the except branch: the first between two candles, the
second inside one, at each place where `_process_bar` can raise: the four rows it writes and the engine.
What the code has done by then differs from what the table says by then; a close is the
case that matters, because the equity is credited (`Credited`) before `store.add` and the position is
dropped after it. `Fails` is `_invalidate_all` on what is held then, which may fail itself after some of
its rows: the task is over, and those it did not write stay as they were. `StreamEnds` is a socket
that closes normally, after which the code connects again and invalidates nothing.
`Start` and `Stop` are the endpoints: a new trader has a new equity, an old one that was
told to stop ends at its next reconnection, and its rows stay in the table as they are.
`trader`, `signalled` and `failures` of a row are history, and so is `unreported`: of the equity, what
no row reports.

### StrategyVersions, StrategyRules, StrategyJobs

A request is a thread: `UpdateRead` and `PublishRead` are the transaction that reads the
row, `UpdateWrite` and `PublishWrite` the one that writes it, without looking at the
status again. A digest is the definition it was made from. `overlap` is a history
variable: versions that had an edit and a publication in flight at once. The rules are
operators over integers, with values a row lacks (`None`). `Nodes` holds every condition and its
parts: `Fields`, `ValidNode` and the `holds` of `Evaluate` are recursive functions on it. A job resolves its versions one
by one (`Resolve`) and then runs what it resolved (`Run`); what a built-in strategy answers is
left open.

### RuntimeRoots and RecorderControl

`migrate` is cut where it can fail or be killed: each child copied, the two trees compared,
each child moved, the pointer replaced. The control database is one of the children, so it
is copied and left behind like the rest: both processes keep the store they opened
(`daemon.store`, `web.store`) until the code opens it again. `Poll`, `ActStart`,
`ActOther`, `ActIdle`, `Beat` are the parts of one turn of `recorder_daemon`; `AskMigrate`,
`SeePaused`, `GiveUp`, `CallMigrate`, `Answer` those of the endpoint. `DaemonCrash`, `DaemonWakes`, `DaemonBoot`
and `WebRestart` kill and start the processes at any step; a daemon that wakes looks up its root first and tells
of itself in its first heartbeat (`DaemonBoot`), and a migration may fall in between. A job ends with its
run saved (`JobSaves`) or without one (`JobFails`). `made` counts what was written and
marks as `stray` what a producer wrote that began when the endpoint had already looked, or
where it does not look: `Unseen` says of a recorder that starts that a request is already on its
way, that the daemon is paused, or that the heartbeat under the pointer is one the endpoint
does not ask about. The last happens after a migration: the heartbeat was copied with its
database and says PAUSED until the daemon's next turn, and a start command of the old database
begins a recorder meanwhile, which the next migration does not see.

### HistoricalCache

One action per access to the disk or the exchange of `klines`: `Look` tests the file, the
marker and the archive, `FetchMonth` and `FetchDay` get candles, `FetchFails` is the
exception. A save is `Open` (the `.tmp`), `Write`, `Replace`, `Saved` (the index and the
marker); the `.tmp` has one name per day, so two jobs may share it, and a file carries
the set of jobs still writing it and whether it is torn: left in the middle of a write, or written
by two jobs at once, which damages it for good. `SaveFails` is `to_csv` or `replace` raising and `Killed` the
end of the process, at any step: the `.tmp` stays as it is, for the next save of that day to open and cut.
`Select`, `Unlink` and `Commit` are `cleanup`, whose rows go in one transaction. Files, markers and
candles are about one symbol and interval, as the paths are.

## 3. What TLC checks

| Run | Question | Outcome |
|---|---|---|
| `l2_one_symbol` | HEALTHY books, holes, refused events, held rows, refinement of TrustedBook, outage rows that end; one symbol, each fault once | holds |
| `l2_two_symbols` | two symbols synchronised together, lagging answers, a full queue, snapshots that outlive their connection, disk pressure: a drained consumer has current books, but for updates that could not reach them | holds |
| `l2_loss_unlogged` | a lost socket gets an outage row | violated: the consumer waits in `queue.get()` and nobody looks at the reader |
| `life_chunks` | events, chunks, coverage rows and CLEAN sessions over a crash, a failed write, a failed registration | holds |
| `life_downtime` | market events missed while no recorder ran are in a gap row | holds |
| `backtest` | books, quantities, risk cap, gaps, stop-first; two symbols, four timestamps | holds |
| `shadow` | equity against rows, failures between candles, inside one and of the handler, fill times, rows that are final | holds |
| `strategies` | digests, immutable definitions, jobs that can be repeated, the engine's winner | holds |
| `versions_race` | a published definition never changes | violated: an edit that read the draft is written after the publication |
| `control` | a whole tree under the pointer, nothing lost, one place to write, pauses that end, old roots kept | holds |
| `control_results` | results follow the migration | violated: the result store is the one opened when the module was imported |
| `cache` | whole files and whole answers over concurrent saves, a failed save or a kill, and a cleanup | holds |

Each violated property is a sentence of the repository's documentation; the
finding in `PROJECT.json` quotes it and says what the counterexample shows.

Invariants hold of every interleaving of the actions, so each bound has to be only
large enough for the interesting case to happen at all:

- `MaxUpdate` 2 to 4 updates per symbol, set in turn on two levels: a snapshot, a
  bridging event, one that follows it, one after a lost one.
- `QueueSize` 2: refusals happen, and the queue can be half empty again with
  rows open (the code's 50000 behaves the same at its edge). `l2_one_symbol` has four updates, so the
  row of an overload, of a sequence gap and of an outage each open; in
  `l2_two_symbols` one symbol has one update and the other two, enough to fill the queue.
- `FaultLimit` once per kind: lost socket, lost event, failed connection, failed
  REST call, failed write; two faults of different kinds meet in one behaviour.
- `SnapshotLag` 1: a REST answer may be one update older than its request; 0 in
  `l2_loss_unlogged`. The theorems hold for any lag.
- `MaxEvents` 2, `Segment` 2: full buffers, old buffers, and buffers that are
  neither; `MaxClock` 5 to 6 events, enough for three sessions; one crash, one
  failed write, one failed registration, a stop, or in `life_downtime` one each of a crash, a
  reboot, a stop, a dead heartbeat loop and a crash inside `start`.
- `backtest`: four timestamps are an order, its fill, a partial exit and what ends
  the rest, or an order that misses its two bars; one missing or flagged bar;
  symbols that start now or two rows ago. The four rows of `MCBacktest` reach every
  branch of the fills and the exits; the risk cap admits one full order with one of reduced risk and not two full ones;
  the notional cap is sometimes the smaller one.
- `CleanSlack` 1 stands for two heartbeats; `BackfillAfter` is above the clock
  where the backfill is not the question.
- `shadow`: three candles a symbol are a signal, its fill and what ends it, or the two
  candles a passive order lives and the one after; two failures, two traders. 3.31
  million states; the symbols are symmetric.
- `strategies`: two versions and two request threads, the least for an edit and a
  publication that race while a job holds another version; two revisions; one
  definition that validation refuses, one that trades, one whose rules need recorded data;
  four markets. The threads are symmetric.
- `control`: two roots and three children (one that may change while it is copied,
  one it must find equal, the database); two requests of the dashboard, one row, one run, one crash
  of either process at any step. A second migration would go back to a root that is no
  longer empty, which `migrate` refuses; what a third root adds is in the proofs, for any number
  of them. 1.75 million states.
- `cache`: three days of two candles in months of two days. The symbol is listed on the
  second, so the first has no candles and gets a marker; the second ends while the clock
  runs (3 to 4) and the third is never over. Three symmetric jobs, so that one can read
  while two write; one fault, a save that fails or a kill, so that two jobs meet what the third left behind. `HotTime` 0:
  the two hours for which the cleanup keeps a file after its last access are shorter than a
  candle of the instance. 1.89 million states.

Deadlock is checked in the L2 runs (`Heartbeat` is always possible) and not in
the life cycle runs, whose clock stops at `MaxClock`, nor in `backtest`, which ends, nor in
`shadow`, `strategies`, `control` and `cache`, which come to rest when the counters that bound their
candles, edits, requests or clock are used up.

Fairness is used by `l2_one_symbol` (for `OutageEnds`), `l2_loss_unlogged` and `control`. In the
first two it is weak fairness of the connection's own steps and of the consumer. The event loop runs every
coroutine that can run, `_snapshot` has a 15 s timeout and a connection attempt
ends, so each of these steps is taken if it stays possible. Nothing is assumed of
the exchange: it need not send, and a socket need not fail. In `control` it is weak
fairness of the daemon's turn and of the request that migrates: the daemon's loop sleeps
a second and turns, and each wait of the endpoint has a limit. Crashes and restarts are
not fair; `PauseEnds` does not hold when the web process dies between pause and resume, and says so.

## 4. What is proved

Every invariant and action property of the passing runs is a theorem, for every value of
the constants, except those at the end of this section. `PROJECT.json` lists the theorems. Each
component has one or two inductive invariants; what is below is what they
add to the properties, and why it is needed.

**FullL2RecorderProofs**: all symbols, levels, queue sizes, snapshot lags and any number of faults.

- `TypeCorrect`: `Spec => []TypeOK`.
- `BooksInvariant`: `Spec => []BookInv`. `HealthyBookIsExchangeBook` is not inductive: a
  delta applied to a book that is not yet HEALTHY must give a right book, and what
  it gives depends on the event. `BookInv` adds that a book with a snapshot shows
  a state of the exchange in any quality (`BooksFaithful`) and that queued events
  are as the exchange built them and not from its future (`QueueWellFormed`).
- `HealthyBooks`: `Spec => []HealthyBookIsExchangeBook`, from `BooksInvariant`.
- `Refinement`: `Spec => TrustedSpec`. Initial states map to initial states; each action
  that touches a book maps to one step of TrustedBook, the others to a stutter.
- `RowsInvariant`, `HeldRows`, `DropsLogged`: `RowsInv` says that `netGap`, `overGap` and `seqGap` name
  rows of their own kind, at the places of `_ws_loop` where they can be set, and that the overload
  row stays open while it is named. So closing one row leaves the others alone
  (`OpenRowsAreHeld`) and no event is refused outside a row (`DropsAreLogged`).
- `HolesLogged`: `HolesInv` says of each symbol that what follows its last recorded event
  either continues it, because the book is HEALTHY at that update (`Follows`), or lies in a row
  that has begun (`Covered`), and that events wait in the order of their arrival (`InOrder`). Assumes
  `Undisturbed`: the disk is not short, or depth is left out on purpose and without a row; and
  no request of one symbol outlives another's, whose answer may move a book without a row.
- `DrainedBooks`: `CurrentInv` says that the update a book owes next waits in the queue, or is in `missed`, or has not
  been sent (`NextOwed`): the one after what the book shows, or, while its snapshot is on the way, whichever
  the answer may make the next one. `ChainOwed` says the same of what follows each event in the queue, which is what the
  owing passes to when that event is applied, and `Numbered` that the events of a symbol wait in the order of its updates.
  No hypothesis on the lag of an answer or on the faults: with a lagging
  answer, or after a lost or refused event, a book is left waiting for an update that has passed, and `missed` names it.

**RecorderLifecycleProofs**: all keys, buffer and segment sizes, and any number of crashes, reboots, stops and failures.

- `TypeCorrect`, `EventsKept`, `CleanSessions`, `CoverageComplete`, `Once`, `OldCovered`, `DowntimeLogged`. One
  invariant of six parts: `Sessions` (one session is alive, the earlier ones are over and in order),
  `Chunks` (a file of this process is a part of its buffer or apart from it, events reach the buffers
  in the order of time, a file that waits for its registration is the buffer), `Apart` (rows of different
  files share nothing, if no registration failed), `Scanned` (files of earlier processes have rows behind the scan of
  `start`) and `Accounted` (what was missed is in a row or an exemption, or lies after the last sign of
  life of the session that the next row will be about).

**BacktestProofs**: all lists of symbols, bars and configurations.

- `BacktestTypes`, `WholeTrades`, `NoOpenTradeSpansAGap`, `GapsInvalidate` rest on `IInv`: TypeOK, the
  order of positions (`Positions`), a trade that has not taken TP1 has sold nothing (`Unsold`), and
  `NoGapInside`, which says of a symbol that is being managed what `OpenTradesSpanNoGap` says of the
  others, if its bar is not one after a gap. `StopsComeFirst` follows from it step by step.
- `BooksBalance`, `RiskIsCapped` rest on `MInv`: an order and a trade exclude each other
  (`Exclusive`), so a fill turns the reserved risk of its symbol into open risk; the stop of a
  short is above zero (`ShortStops`), so the loss a position is sized for is positive; cash
  is at most its peak, which is above zero (`Peaked`), against which the cap is measured.

**ShadowTraderProofs**: all symbols, candles, configurations, failures and restarts.

- `TypeCorrect`, `EquityIsSum`, `FailuresEndAll`, `TimelyFills`, `RowsAreFinal`. `Sound` says that what is held for a
  symbol has a row of that symbol and of this trader, in the status it should have and signalled since the last
  failure, that a waiting order has aged with the bars, and that equity is the sum of the results and of `unreported`; `Forward`, that a step takes no row back. Each is shown
  of the three parts of `_process_bar` in turn and composed. `Behind` says how far the table may be behind the trader when a row cannot
  be written: only rows of what it holds differ, and at most the newest is missing, so the handler's rows
  bring the two together whatever it was that failed.

**StrategyJobsProofs**: all ids, definitions, strategies, markets, thresholds, jobs and threads.

- `StoreInvariant`, `DigestsMatch` (`StoreSpec => []HashIsOfDefinition`) and `PublishedStays`
  (`StoreSpec => PublishedFixed`). The digest alone is not inductive: a publication writes a
  digest of what it read a transaction ago. `Steady` adds that what it read is still
  there, and that edits in flight are on drafts and never beside a publication; all
  of it for versions outside `overlap`, which is where `versions_race` finds the bug.
  `JobsUseStore` (`Spec => StoreSpec`) carries them over to the composition.
- `JobTypes`, `JobsAreReproducible`, `WinnersDominate`. `JInv` adds to the store's invariant that what a job has
  looked up, finished or not, is published and as it was (`InStore`), which a step of the store keeps by the lemma
  behind `PublishedStays`. The engine's part has no state: `ResultTyped` bounds score and evidence of any valid
  definition (the mean over families never divides by zero), `BestIsBest` says that the highest score of a
  direction exists and is taken, `SelectedWinner` that the five tests of `select` leave a winner that dominates.

**RecorderControlProofs**: all roots, children and crashes.

- `PointerStaysComplete`: `Placed` is what it needs: a destination is never the pointer's root, and while children
  are moved each of them is in one of two places, so the pointer is replaced when
  the last one has arrived. `OldRootStays`: `Spec => OldDataRetained`, of an action at a time.
- `TypeCorrect`, `RecordersFollow`: `ProcessInv`, over both processes and the databases. Its core is
  `Watched`: a recorder that the migration looks for shows in the heartbeat under the pointer, and no request gets
  further than the pause while it runs.
- `NothingIsLost`: `Carried` says where each row and run is at each step of the migration: under the pointer; in
  the copy, once its child is copied; in the destination, once it is moved.

**HistoricalCacheProofs**: any number of jobs, days and candles.

- `WholeFiles`: `OneWriter` says of a day that is not contended that
  one job saves it, and that while it does the temporary file is there and not torn, whatever it was before that
  job opened it; only that job writes it, and has closed it by the time it renames it. A day becomes contended exactly when a
  second job begins while the first one saves; what a failed save or a kill leaves has no writer.
- `TypeCorrect`, `TrueAnswers`: `AInv` says that a file has all candles of its day and a marked day has none,
  but for the days in `short` (`DiskTrue`), and of each job that what it holds of a day is all of it,
  unless it came before the day was over (`JobTrue`).

**TotalsProofs**: `Total` is a recursive function. The induction theorems of the library take an operator
as a parameter and cannot be used, so its lemmas (a total changes by what one entry changes; it keeps
its value when a list grows by a zero) are shown by the least counterexample, which
exists because `<` on the naturals is well-founded.

The assumptions are the named ASSUMEs of the modules: positive queue size, natural
bounds, each update sets one level; symbols are distinct, bars are ordered and
dearer than a slippage, and the configuration is one AppConfig accepts; valid
definitions are definitions with numbers for weights and targets, no version has the id of a built-in strategy, the
score of a built-in is from 0 to 100; the first root is a root, there is a child, and the control database,
the chunks and the runs are children; keys of the three kinds are different. One theorem, `HolesLogged`, has a
hypothesis of its own, `Undisturbed`.

Only model-checked: `OutageEnds` and `PauseEnds` (liveness under fairness is out of the
prover's reach). What `Evaluate`, `Fields` and `ValidNode` compute for a given condition is
checked on the instance's nodes and not proved: the theorems hold whatever they answer. The three violated properties are false.

## 5. What is not modelled

Spot books exist in the recorder and no depth stream feeds them: their operators
are in LocalOrderBook, and no action uses them. The lightweight streams, the
derivatives poll, the contents of the backfill, health counters, `metrics` and the
microstructure sums are left out: numbers without control. One recorder process at a time. SQLite
calls and `os.replace` are atomic; a rename survives a crash of the machine. The
clock does not run backwards and no two events share a millisecond. A write
failure in `_handle` is modelled for depth events. A snapshot is limited to `depth_levels` levels; the model's
books have fewer, so it is the whole book. A condition `between` with an `other_field` passes validation and
raises a TypeError when it is evaluated; no condition of the model is one. Of the historical client, the request gate
(a lock around one number), `agg_trades` and funding are left out, and a marker whose writing fails is not modelled; pruning, the inspector, the
universe service and the replay loaders wait for the plan below. The other components of the
inventory are listed with their reasons in `PROJECT.json`.

The models do as the code does where it falls short, and the properties name the case
they leave out instead of hiding it:

- A book stays HEALTHY through the backoff of a lost connection, and the feature loop
  goes on writing features of it.
- A snapshot task whose siblings failed may move the next connection's book; no row says so.
- Depth that is not written because the disk is short (EMERGENCY, or PRESSURE for a symbol without
  priority) leaves no gap row (`Undisturbed`).
- A session that dies in `start` before it wrote the gap row of its predecessor hides that
  downtime (`Hidden`, an exemption of `DowntimeIsLogged`), the row ends before the backfill and
  the streams open after it, and a row starts at the last heartbeat, which is later than what the
  buffers lost.
- A failed registration leaves a chunk without a row, and its retry a second chunk with the
  same events (`CoveredOnce`).
- A book whose next update was lost before the bridge, refused, or had passed before the snapshot was requested
  waits for it and ignores the rest, and nothing asks for another snapshot (`missed`).
- The row of a sequence gap stays open for ever when the request for the new snapshot fails (`OpenRowsAreHeld` speaks
  of behaviours in which no request has failed).
- A socket of the shadow trader that closes normally leaves orders and positions over
  the candles missed.
- A close of the shadow trader whose row cannot be written has already moved the equity; the failure handler then gives the
  same trade a row INVALID_DATA_GAP at its stop, charged the exit fee twice, so the equity holds a result no row reports
  (`unreported`). A handler that fails as well ends the trader, and its rows stay OPEN or PENDING; so do those of a trader that was stopped.
  The handler goes through positions and orders in the order of the dictionaries; the model lets it stop after any of them.
- What a producer writes that began after the migration had looked for one stays under the old root;
  a pause the endpoint gave up on after five seconds is obeyed later and lasts. A heartbeat that was
  copied with its database hides a recorder from the next migration (`Unseen`).
- Without cash the backtest divides by 1e-9, so any open risk exceeds the cap (`ExceedsCap`).
- Two jobs that save one day at once share a temporary file (`contended`): the file may be read while it is written, and may be
  torn for good, and then every later job that reads that day fails. A save that fails or is killed leaves its `.tmp`, which nothing
  removes but the next save of that day. A day that is saved
  while it goes on is a cache hit for ever after (`short`). A cleanup that unlinks the file between
  the save and the `fp.exists()` behind it makes the day's marker say that no candles existed, although they
  did; that day is `short` too.

## 6. Plan

In this order; each with its runs, and the theorems where marked.

1. An abstract specification for one more component, with the refinement proved: of the migration (a root
   is one place that moves at once) and of the chunk store (a received event is buffered, then stored).
2. `RecorderLifecycle` with pruning and two processes on one store; `DataInspector` intervals
   against a set definition.
3. The lightweight streams and their supervisor beside FullL2Recorder; the request gate of the
   historical client, with its waiting threads; the universe snapshot and its readers; walk-forward folds.
