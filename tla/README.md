# TLA+ models of fundingpulse

Fundingpulse collects perpetual-futures funding rates of some fifteen exchanges
into TimescaleDB and serves them through an API. This directory holds TLA+
modules of the parts of it that are concurrent, that fail and resume, or whose
arithmetic is easy to get wrong; the TLC configurations that check them; and
TLAPS proofs of their safety properties.

- [Inventory](#inventory): the system's parts, and what can go wrong in each
- [Modules](#modules): which module models what, and how
- [Runs](#runs): what each run checks, its bounds, and what it shows
- [Fairness](#fairness)
- [Proofs](#proofs)
- [Findings](#findings): where the code and its documents disagree
- [Not modelled](#not-modelled), [Plan](#plan)

How to run: `tlc -config MCLiveQueue.cfg MCLiveQueue` and likewise for
the other runs of `PROJECT.json`; `tlapm LiveQueueProofs.tla` and likewise for
the other seven `*Proofs` modules.

## Inventory

Two Python services write, one reads. They share nothing but the database.

| Part | State it keeps | Operations | Interacts through |
| --- | --- | --- | --- |
| **Ingestion scheduler** (`ingestion/scheduler.py`, `live/enqueuer.py`) | none of its own; rows of `ingestion_task` | one enqueue job a minute: fail stale tasks, read active exchanges, insert pending tasks, in one transaction under a 45 s timeout | the table |
| **Live workers** (`live/worker.py`, `runtime.py`, `collector.py`) | the task in hand | claim (short transaction, `FOR UPDATE SKIP LOCKED`), fetch and store points under a 45 s timeout, finalize (guarded `UPDATE`); a loop that survives errors; restarts | the table; exchange APIs |
| **History backfill** (`orchestration/history_backfill.py`) | the page position of a run, in memory | hourly: page backward from the oldest bound until an empty page, then mark synced | `contract_history_state`, `historical_funding_point`; exchange APIs |
| **History update** (`orchestration/history_update.py`) | the bound it read | hourly and at startup: fetch forward from the newest bound | the same two tables |
| **Contract registry** (`orchestration/contract_registry.py`) | the listing it fetched | every five minutes and exchange: insert quotes and assets, reconcile contracts, create missing history states, in one transaction; then signal | contract tables; the refresher |
| **View refresher** (`materialized_view_refresher.py`) | a flag and a time, in memory | once a second: refresh `contract_enriched` when the flag is up and the last signal is old enough | called by the registry jobs |
| **Exchange adapters: history** (`tracker/exchanges`) | Paradex: samples of the running hours | `fetch_history_before`, `fetch_history_after` | HTTP, called by the two history jobs |
| **Exchange adapters: listing and live** (`tracker/exchanges`, `ingestion/exchanges`) | Lighter: asset to market id, a map in each program, replaced by the registry and by the live job | `get_contracts`, `fetch_live`, twice: the tracker's drivers and the workers' adapters | HTTP; the contract rows |
| **HTTP clients** | a connection pool | get, post with retries for up to 60 s | per-exchange semaphores |
| **Tracker bootstrap and sharding** (`bootstrap.py`, `runtime.py`) | the scheduler's jobs | which exchanges and jobs run in which instance, and at which second | settings, the number of instances |
| **Tracker live collector** | none | a snapshot per exchange and minute, inserted | live table |
| **Asset ranking** | none | daily ranks of assets | asset table |
| **Storage tiers** (migrations 002-008) | continuous aggregates, retention | which resolution shows a bucket of what age | SQL |
| **API** (`api/`) | none | read queries | SQL, the materialized view |

What is hard, and what correctness means for each part:

- *Live queue.* Several processes, no locks held across a fetch, timeouts on
  both sides, crashes. An exchange must never have two active tasks or two
  collectors; a row that is closed stays closed; a task whose worker is still
  inside its timeout is not given up; every dead task is given up at last and
  every exchange is scheduled again. (Design: `.docs/live-ingestion-design.md`.)
- *History.* Two jobs that know nothing of each other move the bounds of one
  row from readings made before their awaits, and may be cut off anywhere. The
  bounds are all the jobs ever look at: a settled point between them that is not
  stored is lost for good, and so is everything below a wrong `history_synced`.
- *Registry.* Long transactions of several exchanges insert shared names and may
  deadlock; what commits must be complete, and the section must converge.
- *Refresher.* A flag in memory stands between a committed change and the view
  the API reads; it is read before an await and lowered after it.
- *Paging arithmetic.* One second added to or taken from a bound meets what each
  driver makes of it: windows with open and closed ends, divisions by the hour,
  records counted backward from now, pages behind a cursor, averages over hours, and
  errors that come as an answer without records.
- *Names.* A contract is found again in an exchange's answer by a name built from
  its asset and quote, by two programs that read the same endpoint differently.
  A rate must not be stored for another market, nor a market be left out.
- *Sharding.* Processes share out the exchanges by the order of their ids and a
  total each of them was started with; a rollout runs two totals side by side.
- *Tiers.* Five schedules (three refreshes, retention, the clock) move behind a
  view that picks a layer by age. A sample must not fall between two layers or be
  averaged again from rows that are gone.
- *Queries.* The endpoints answer the same question by different SQL, from a table
  and from a view that lags behind it, page by page while rows come in.

`PROJECT.json` lists every component with its status, and under `hazards` each
such point with its line and the properties that watch it.

## Modules

### LiveTaskBoard, LiveQueue (core)

`LiveQueue` models the table and the two kinds of process at the grain of the
statements that see or lock each other's rows, under READ COMMITTED.

| Code | Model |
| --- | --- |
| a row of `ingestion_task`, key `exchange:minute` | `status`, `created`, `claimed`, `owner`, `failure` over `Keys == Exchanges \X Minutes`; "absent" is a row not inserted |
| `CronTrigger(second=0)`, `coalesce`, `max_instances=1` | `TickStart` |
| `mark_stale_running_live_tasks_failed` | `MarkStale`; the rows stay locked (`staled`) until the transaction ends |
| `get_active_live_task_exchanges` | `ReadActive` |
| the insert loop and the commit | `EnqueueCommit`; `Opened` is what `ON CONFLICT DO NOTHING` inserts |
| `enqueue_timeout`, an error, the process's death | `TickFail` |
| `_claim_next_pending_live_task` | `ClaimLock`, then `ClaimCommit` or `ClaimFail` |
| `collect_live` inside `asyncio.timeout` | `CollectNothing`, `CollectPersist`, `CollectFail`, `CollectTimeout`; a task may end well without a snapshot (no contracts, or no rates in the answer), and an error or a timeout may come after the points are committed |
| `mark_live_task_done`, `mark_live_task_failed` | `Finalize` (the guarded `UPDATE` and the error when it matches nothing), `FinalizeFail` |
| `CancelledError`, kill, supervisord | `Crash`, `Restart` |

Time is one integer clock (`now`). `Advance` does not pass a timer that has to
fire first. `ClaimDelay` is an assumption about the environment, not a setting:
the longest a claim takes from reading `utc_now()` to its commit. With
`ClaimDelay > Grace` the stale mark can hit work in progress; the proofs say so
by assuming `ClaimDelay <= Grace`, 15 s as configured. Clocks of different hosts
are taken to agree.

`LiveTaskBoard` is what the queue promises without clocks, transactions and
timeouts: a board of tasks posted, taken and closed at most once, one open task
per exchange. `LiveQueue!ImplementsBoard` instantiates it with rows for tasks
and `owner` for the taker.

### LiveRecovery

`LiveQueue` counts absolute minutes and has to stop its clock, so what must
eventually happen is stated in `LiveRecovery`: the phase of the minute and the
age of each claim go on for ever, ages past the stale threshold are alike, and
with one task per exchange (`NoOverlap`) the table is seen through the
exchanges. Transactions are single steps here. Pending tasks are a queue in the
order of `created_at`.

### HistoryLedger, HistorySync

`HistoryLedger` is what the history of a contract promises its readers, without
jobs, checkpoints or pages: settlements are recorded next to those that are, never
lost, and a ledger that begins with the first settlement may be closed, after which
it grows at its new end only. `HistorySync` implements it with `stored` for the ledger,
`synced` for closed, and the settlements that have come; `HistoryDrivers` implements
it with the fundings of each driver's contract, as long as its pages join (`PagesJoin`)
and no error has been misread.

`HistorySync` has one contract and its two jobs. A run reads the checkpoint (`BackfillStart`,
`UpdateStart`), awaits the exchange (`...Fetch`), and commits points and bounds
together (`...Persist`, with `MergeBounds` for `update_bounds`); between any two
of these the other job, the clock, a crash or a timeout may come. Time is in
hours; "t plus or minus one second" is a strict comparison. The 59-minute
timeouts of both runs are the guard of `Advance`: a run sees at most one change
of the hour.

The exchange is a set of settlement hours (`Settled`, a constant, so any
calendar), a page limit and which end of a longer window its page keeps.
Settlements are visible from their hour on: an exchange that publishes late is
outside the model. `Errors` says what the driver makes of an error that comes in
the body of a 200 answer (`Answers`): eight drivers raise (Aster's, Backpack's, the two of
Binance, Extended's, KuCoin's, Hyperliquid's and Paradex's: a missing key, an
assertion, a code that is not success), which ends the run; OKX's, Bybit's, Derive's, dYdX's and
Lighter's read it as an "empty" page; Pacifica's takes it for the end of its cursor
("partial"). A page ends before the oldest stored point, as every driver's does but
Backpack's, whose page contains that point except in the last second of an
interval: `EventuallyComplete` does not speak of Backpack.

### ContractRegistry, ContractView

`ContractRegistry`: one job per exchange. `Fetch`, then one `Insert` per name,
quotes before assets, in any order within each (the code iterates a Python set),
waiting for names another open transaction has inserted (`want`, `Resume`); then
reading, reconciling and writing the section and the history states in
`Commit` (one step, because no other job touches the section), then `Signal`.
`DeadlockAbort` is PostgreSQL's deadlock detector; `Fail` any other error,
`Crash` the process.

`ContractView` EXTENDS it with the refresher: `CheckAndRefresh` once a second,
`RefreshReads` when `REFRESH MATERIALIZED VIEW` takes its snapshot,
`RefreshCommits` when the await returns and the flag is lowered, `RefreshFails`,
`Second` for the debounce. The variable `missed` is of the model: it records
that a signal was lost, to a crash or to the refresh it arrived in, so that the
properties can say exactly when the view may be stale.

### HistoryDrivers

What `HistorySync` leaves open is how a driver turns an instant into a request.
`HistoryDrivers` has it for all of them: one operator per `_fetch_history`
(`Aster`, `Okx`, `Dydx`, `Pacifica`, ...), `WindowBefore` and `WindowAfter` for the windows
of `BaseExchange`, `BackpackBefore`/`BackpackAfter` for offsets counted from the
present, and for Paradex the hourly averages. Around them are the bounds the two
jobs compute, and aborted runs. Time is in ticks of a second, `Hour` of them an
hour. The chosen `contract` is one of `Contracts`: driver, settlement period, recorded
interval, and which end of a longer window the exchange keeps, where the request
does not say.

The window that a driver sends fixes what is answered, so there a page is asked for and
committed in one step (`HistorySync` covers the interleaving of the jobs). Backpack's
offset and limit are counted from `utc_now()` before a request that waits for a semaphore and
is retried for up to a minute, and its exchange counts from the moment it answers:
`BackpackAsk` and the step that takes the answer are two, with ticks between.

`Misread` is what a driver makes of an error body: nothing (`Silent`), or Pacifica's
newer cursor pages. What the code then loses is recorded in `trouble`, so that the
properties can say exactly when they hold: an update when more than a page was
missing ("behind"), an update that Backpack answered in a later interval than it was asked
in ("late"), an update of Pacifica that an error cut off ("torn"), a backfill an
error ended ("misread"). One thing is taken from the exchanges: no Paradex record is
stamped at the very millisecond of a full hour, where `_aggregate_to_hourly` would
open the group of the hour after (`paradex.py:285`).

### TrackerFleet

The tracker's processes. `Valid`, `EnabledExchanges`, `FilterByInstance` and
`RegistryExchanges` are `build_runtime_config` and what it calls; `LiveJobs` is the
second of the minute that bootstrap gives each exchange; `Start` is a process's
start with the settings of the moment (a process whose settings are refused stays
down), `Die`, `Rollout`, `Collect` for one live job and `PassSecond` for the
scheduler. `MaxConnections` and `MaxRequests` set the connection pool against the
adapters' semaphores.

### LiveAdapters

One exchange, its markets coming and going (`ListMarket`, `EndMarket`: external), the
registry's `get_contracts` and transaction (`AskListing`, `ReadListing`, `Register`,
`DropListing`), and a collector that is either the
tracker's `fetch_live` or the worker's adapter: `Ask` fetches the answer, `Store`
looks the active contracts up in it and stores, `Lose` is any failure between. For
each of the fifteen exchanges there are the listing filter (`KucoinListing`, ...), the
name built for a contract (`PairSymbol`, `BybitSymbol`, ...), and the answer keyed as
the tracker (`BybitLive`, ...) and the worker (`BybitSnapshot`, ...) read it. A name is
a tuple of its parts. Rates are left out: a stored sample carries the market it
came from, which is what the properties compare.

For Lighter `assetToId` is the map of ids with each side's rule for reading it again
(`MissIds`, `AskIds`). The registry job and the live job of the tracker share one driver, and both replace
its map after a request they await: `ReadListing` may put ids in it that are older than
those the live job has just asked for. An error body of `/orderBooks` is an answer that names no
market. `FreshIds` says whether a listed market gets an id never given before, which is
how Lighter numbers its markets, or may get one that was another's.

### StorageTiers

The raw rows, three continuous aggregates with their policies (`Refresh`, over the
invalidated buckets inside the window), chunk retention (`DropChunk`), and the view
`lfp_smart` as `LivePoints`. TimescaleDB is external: what is modelled is what
migrations 001, 004, 005 and 008 ask of it. A bucket knows its start only: that
it was computed while raw rows existed is what `kept` records.

### FundingQueries

`api/queries` as operators over the tables: `LiveLatest`, `LiveDifferences`,
`WallLive`, `HistoricalPoint`, `HistoricalAvg`, `HistoricalSum`,
`CumulativeDifferences`, `AverageDifferences`, the walls. Filters, pairing, normalisation and window
alignment are shared operators as in `funding_sql_composer.py`. Actions: samples
and settlements come in, contracts are reconciled, the view is refreshed, and a
client reads a comparison page by page (`ReadPage`, where the order among equal
differences is the database's choice). NULL is the empty set.

### MCMarketData

Composes the four: `TrackerFleet`, `LiveAdapters`, `StorageTiers` and
`FundingQueries` meet in the tables only, where none writes what another writes.
In a behaviour one of them, the `focus`, moves; a product of all would multiply
states that do not depend on each other.

## Runs

TLC checks deadlock in the LiveQueue, LiveRecovery and HistorySync runs. The
other modules really may come to rest (listings at rest and empty, the clock's
bound, a client that has read the last page) and say `CHECK_DEADLOCK FALSE`.

| Run | Instance | Shows |
| --- | --- | --- |
| `live_queue` | 2 exchanges (no worker has an adapter for the second), 2 workers, 1 scheduler, 2 minutes of 2 units of 30 s; 1.2 million distinct states | types and locks, `NoOverlap`, `CollectingIsRunning`, `OneCollectorPerExchange`, `StoredAtMostOnce`, `TerminalIsFinal`, refinement of the board |
| `live_recovery` | 2 exchanges, 2 workers, the configured 60 s, 45 s and 15 s | `OneActiveTask`; `RunningEnds` though the workers may stay dead; `PendingIsClaimed` (no starvation) and `AlwaysRescheduled` if they are restarted |
| `history` | settlements at hours 4, 5, 6, 8, 10, tracker starting at hour 2, pages of 2 hours, errors raised | exact bounds, no hole, completeness, refinement of the ledger, `EventuallyComplete` |
| `history_short_page` | windows of 4 settlements, pages of 2 | *violation* of `NoHole` |
| `history_error_page` | settlements at hours 1 to 6, an error may be read as an empty page | *violation* of `HistoryComplete` |
| `registry` | 2 exchanges, 1 asset, 2 quotes, two relistings, one failure | types and locks, `ContractsAreComplete`, `RegistryConverges`, with waits and deadlocks |
| `view` | 2 exchanges, 1 contract each, intervals 1 and 8, two relistings, one failure | `StaleViewIsRemembered`, `ViewFollowsSignals` |
| `view_missed` | no failures at all | *violation* of `ViewFollowsContracts` |
| `backpack` | the 14 driver classes with a paging of their own (hyperliquid-xyz shares hyperliquid's), each contract they can meet; hours of 4 seconds, intervals of 1 and 2 hours, pages of 4 records, cursors of 2, first funding in hour 2, first seen in second 17, up to second 40, Backpack's updates asked for in any second but the first, and answered later; 171,000 distinct states | `NoFundingSkipped`, `SyncedFromTheFirst`, refinement of the ledger |
| `backpack_startup` | the same, Backpack's updates in the first second | *violation* of `NoFundingSkipped` |
| `market_data` | see below; about 520,000 distinct states | `OncePerSettings`, `SelectionIsCollected`; `RateOfItsMarket`, `CollectionIsComplete`; `NoSampleMissing`, `ShownTwiceAtBordersOnly`; `PagesAreComplete`, `EndpointsAgreeOverTime`, `SumsSurviveOverTime`, `WindowsAddUpOverTime` |
| `cumulative_doubled` | the same instance | *violation* of `CumulativeCountsOnce` |

Why the bounds are enough. Two workers and two exchanges make every pairwise
race of the queue
possible; two minute buckets let a task be posted in one, given up in the next
and replaced (a unit of timeout and one of grace fit in a minute of two units, as
45 s and 15 s fit in 60 s). A contract's history is independent of
other contracts'; eight hours with pages of two let the backfill take several
pages while the update stores on either side of an hour's change, and starting
before the first settlement gives both jobs an empty history.
A deadlock of the registry needs two jobs and two new quotes (a single
new quote would serialise the jobs: quotes come before assets). Two periods of
settlement and pages a little longer than the longest show every rounding of a
driver, at each second of an hour and for updates and pages that fall in
different hours; the twenty-three ticks after the start hold six changes of the
hour, enough for several pages and for a gap longer than a page. A Backpack request may be answered
in the next hour. `MaxChanges` and
`MaxFailures` bound listing changes and failures; jobs repeat without bound.
Where a bound could hide something the proofs below have none.

`market_data`: five exchanges and three settings (two instances, three instances
with a selection the checks refuse, three with four exchanges), a minute of four seconds, so that two
rollouts with every order of restarts and deaths happen within and across minutes;
all fifteen exchanges with four markets (a pair, the same asset in another quote, a
dated future, an asset with two names), a page of two and two market changes, enough for a market to be
listed again under a new id, and to end, between an answer and its look-up while older ids
come back into the cache, and a symbol skipped by a listing of Aster (`MaxSkipped`);
Lighter's ids are never given again (`FreshIds`; with `FALSE` and three market changes TLC
finds `RateOfItsMarket` violated); buckets
of 2, 4 and 8 ticks, chunks of 48 and 120 ticks, so that two chunks are
dropped and the last tier is read and left; six contracts of three exchanges in two
assets with intervals 1, 4 and 8 (one recorded wrong until the registry mends it),
four requests, two of them asked for ranges too (they have the pairs of all),
pages of three pairs, a day of 48 ticks, and 16 ticks of time after the first days
have passed, so that each settlement interval ends at least once.

Each property of a passing run has a fault the code might contain, an operator
of the module next to the one it replaces and commented "Fault:" or by what it
does wrong, with which TLC finds the property violated.

## Fairness

- *LiveRecovery.* Time passes; timers fire (`WF` of `Timeout`); of infinitely
  many ticks infinitely many commit (`SF` of `EnqueueTick`: a cron job in a
  process supervisord restarts). `RunningEnds` asks nothing of the workers.
  `PendingIsClaimed` and `AlwaysRescheduled` have `WorkerFairness` as their
  premise: workers are restarted, end their finalizations one way or the other,
  and claim at last (`SF`: a claim may fail, the loop polls every second).
- *HistorySync.* The scheduler starts both jobs again every hour; strong
  fairness of their steps says that the exchange and the database do not fail
  every single time. `EventuallyComplete` is conditional on the contract staying
  listed.
- *ContractRegistry, ContractView.* Weak fairness of each job's steps: jobs run
  every five minutes, statements end. `Resume` has strong fairness: a job that
  waits for a name is woken by the end of the other transaction, while a job the
  deadlock detector has aborted comes back five minutes later and does not take
  the name again first, time after time. Without it two jobs could deadlock for
  ever. The refresher's job runs every second. Failures are bounded.
- *TrackerFleet.* The scheduler's clock passes (`WF` of `PassSecond`) and a live job
  that is due runs (`WF` of `Collect`). Nothing is asked of starts and rollouts:
  `SelectionIsCollected` speaks of a fleet that has come to rest.

## Proofs

All are safety: type correctness, invariants, action properties and refinements of
two abstract specifications, for any values of the constants. Every safety property that a passing run checks
has a theorem. Where a theorem has a hypothesis, the configurations satisfy it and
the text below says what in the code provides it.

**LiveQueueProofs** (any exchanges, workers, schedulers, timeouts).
`LockInv == ClaimInv /\ StaledInv /\ OwnerInv` is the base, and needs neither
clocks nor a single scheduler: a pending row is locked by at most one claim, a
running row marked by at most one open tick, and a worker past its claim is the
recorded owner of a row that is running or failed. `TerminalTasksAreFinal` and
`TasksStoreAtMostOnce` (with `SnapshotInv`) follow from it, for any set of schedulers.
`WorkInProgressIsNotStale` adds `TimeInv`, the sum of inequalities
`now <= clock + TaskTimeout`, `clock <= claimed + ClaimDelay`, and what a tick has
marked is older than `TaskTimeout + Grace`; it assumes `ClaimDelay <= Grace`.
`NonOverlapRule` adds `OverlapInv`: an exchange the open tick takes for free has
no active task but those the tick itself marked. `CollectingIsRunning` alone is
not inductive because the mark and its commit are two steps; `NoOverlap` alone
is not because the reading and the insert are. It assumes `OneScheduler` (at
most one member of `Schedulers`). The assumption is needed: two enqueue jobs of
adjacent minutes that overlap both read an exchange as free and both insert. (The run has
one scheduler, as deployed; what holds with two is what is proved without this assumption.)
What provides it is `max_instances=1` of the one scheduler process; the "same
enqueuer jobs can later be called by cron ... or manually" of
`.docs/live-ingestion-design.md:69` would not. `ExchangesAreSerialised` combines both. `QueueImplementsBoard` maps every
step to a step of `LiveTaskBoard` or to a stutter, and `BoardKeepsItsPromise` says what that
is worth: the board alone never has two open tasks of an exchange, and what is taken or
closed stays so.

**HistorySyncProofs** (any calendar, page size, horizon). `TypeCorrect`,
`BoundsAreExact` and `ProgressIsNeverLost` need nothing of the exchange; the
invariant `BoundsInv` characterises the bounds by order alone, and
`MinOfHours`/`MaxOfHours` turn that into `MinOf` and `MaxOf`.
`BoundsEncloseNoHole` assumes `WholePages`: a window of `Step >= 2` hours fits in
a page, a longer window is answered from its oldest end; and `PagesNotCut`, that the driver
does not take a part of a page for the whole: an error read as an empty page leaves no hole. Its invariant says what
a run that read the checkpoint long ago still knows (`BackfillInv`, `UpdateInv`):
in particular that a backfill which found an empty history an hour ago and an
update which started from the current hour cannot leave a gap between them,
which is where the 59-minute timeout is needed. `SyncedHistoryIsComplete` assumes
`ErrorsRaised`, a driver that raises the errors it is answered, and
`SteadySettlement`, no pause as long as a page. Both are needed: one empty
page ends the backfill, so a pause longer than `_FETCH_STEP` hides what is older, and
so does an error read as an empty page (the finding of `history_error_page`).
`ProgressIsNeverLost` (`ProgressIsMonotone`: no bound moves inward, no point is lost,
synced stays) is proved and not among the runs' properties, since the exact bounds and
the ledger imply it.

`SyncImplementsLedger` puts these together: under the same three assumptions every step
of the two jobs is a step of `HistoryLedger` or a stutter. A committed page is a
`Record` because there is no hole after it (`NoHole` primed), and after the
contract is synced it lies above everything stored, because a synced contract misses
nothing up to its newest point (`CompleteUpToNewest`); the step that sets synced is
`Close` because an empty page below the oldest point means there is nothing older.
`LedgerMissesNothing` is about the ledger alone: a closed one has every settlement up to
its newest entry, by the invariant that it begins with the first.

**ContractViewProofs** (any exchanges, names, intervals; registry and view).
`CommittedContractsAreComplete` rests on `NamesAreAccountedFor`: each name of the listing in hand is still to do,
held by the transaction or committed. `StaleViewsAreRemembered` rests on
`NoChangesNoEffect` (a plan without changes leaves the section as it is, so a
commit that does not signal does not change the view) and on what a running
refresh has read: it differs from the live contracts only if a signal is coming
or was raised meanwhile.

**LiveRecoveryProofs** (any exchanges, workers, timeouts). `OneActiveTask` is not
inductive: a claim could meet another owner of the same task. `OwnedInv` (a worker
that still owns its task keeps the exchange running), `QueueInv` (what is pending
is pending once and not running) and `SoleOwnerInv` close it.

**HistoryDriversProofs** (any hour, page size, intervals, first funding).
A backfill ends at its first empty
page, so `SyncedReachesTheFirst` rests on one lemma, `PagesReachBack`: asked for what
came before a stored funding that is not the first, each driver is answered
something, whenever the answer comes. It has a case per way of paging, window, Paradex's hours, Backpack's offsets,
and is where the divisions are reasoned about. It assumes `LongSteps`, that a page
has room for two of the longest intervals (of 8 hours, against 100 records and more), and says nothing of
a contract whose backfill an error has ended ("misread").

`NothingIsSkipped` is the other direction. `SkipsInv` says that what is stored is
contiguous (no funding of the contract between two stored ones is missing), and that a page
that is added joins it: `JoinsAt`, once more by the way of paging, and for the part of a page that
Pacifica keeps. An update and
a backfill page may fall in different hours, and the first page of a backfill asks
from the moment the run began; `SkipsInv` therefore keeps that at most one hour has been
completed since. It assumes `LateUpdates`, that no Backpack update is asked for in the first second of an hour: its cron
is in the fifth, and the run at startup, which may meet the first, is the finding of
`backpack_startup`. `PagesJoin` is the premise of the property itself; it also leaves out the
Backpack updates that are answered in the interval after the one they were asked in,
which lose a funding whatever the second was.

`DriversImplementLedger` maps the drivers to the same `HistoryLedger`, under both
assumptions: an answer is a `Record` by `SkipsInv` after the step, it lies above a
closed ledger because `SyncedFromTheFirst` leaves no room below, and the end of a backfill
is `Close` or a stutter. `ImplementsLedger` says so of every step after which `PagesJoin`
still holds and nothing was misread; from the first step on that leaves a driver behind by more than a page,
is answered late, or takes an error for an answer, it says nothing: the code then
loses fundings or closes too early.

**LivePathProofs** (any exchanges, settings, processes, minute; any markets).
`SelectionIsPartitioned`: settings that pass the checks give each selected exchange
to exactly one instance. `OncePerSettings` is about processes that may be
gone; `CollectedInv` keeps of each entry that it was made under settings of this
minute which gave the exchange to that process, and the partition makes
entries and settings one to one. `ConnectionsSuffice` sets the pool against the
semaphores.
`RatesAreOfTheirMarkets` and `CollectionsAreComplete` are about one exchange whose
listing changes while an answer is under way. For each of the fifteen exchanges the names
its contracts are looked up by are one-to-one with its markets, and both programs
key the answer by them; `AskedInv` keeps this of the answer in hand and of the rows it is
looked up for. Lighter alone looks up by an id the exchange assigns. Both theorems assume
`IdsStayFresh`, that Lighter never gives an id twice; under it `IdInv` says that markets, the answer
and the maps, however old and whichever job put them in the cache, never disagree about
whose id one is. Nothing in the code provides it: were an id given again, a map of before
would hand one market's rate to another's contract. `CollectionsAreComplete` leaves out, by name, the markets off
Derive's first page (`OffFirstPage`), and answers during which the markets changed or Lighter's own
request for ids met an error body (`settled`).
`MarketAssumption` is
what the exchanges must keep: no two markets with the same pair and kind, and
no asset or quote called "PERP" or "XAU", which two adapters put in place of another name.

**ReadSideProofs** (storage tiers and queries).
*Tiers*, for any widths, ages, offsets, schedules: `OverlapsAreAtBorders` assumes
`LayersAreLong`, each layer as long as the widest bucket (days against an hour);
otherwise a bucket could reach across a whole layer. `SamplesStayReadable`
follows a bucket from its sample to the view: what the window of a policy's last run
(`Reached`) has not covered is still in the invalidation log, what it has covered is kept
(`ReachedInv`). The log alone is not inductive, since a run may find the
raw rows of a late change gone; `Safe` is exactly what excludes that, so the theorem is about the
samples of `Safe` buckets. It assumes
`PoliciesKeepUp`: a policy comes back before its window or the view has passed a bucket, and
raw rows outlive the age at which they are read. In the migrations the windows are hours
or days, the schedules half an hour to four hours.
*Queries*, for any contracts, rates, requests and ranges: the invariants are `TableInv`
(a contract's newest settlement is at most one behind the last that is due) and
`PageInv` (`ReadSoFar`: what a client has been given of a comparison nobody changed
meanwhile is every pair with fewer than `offset` pairs above it, unless a tie lies
across pages). `PagesNameEveryPair` counts ranks within ties.
`SumsStayOnShow` is `TableInv` with the fifty settlements from which a window can spare one.
`HistoricalRatesAgree` reduces every endpoint to the points of its contracts, with the view as
stale as it may be: raw rates agree always, normalized ones of a contract where the view shows its
interval as it is (`SameInterval`; the endpoints do differ elsewhere), and the walls always, with one
average for each interval of a cell's contracts, any of which may be the one shown.
`LiveRatesAgree` is the same of the live wall and `live_latest`. `RangesAddUp` reduces a cumulative difference to sums over two sets of points
side by side; it assumes
`NarrowBuffer`: `buffer_minutes` is 30 unless the client asks for something else, and
nothing settles in the half hour before an hour (of more, see [Findings](#findings)).
The sums are folds over finite sets, and nothing is assumed about them: that
`SumFunction` has a value, that it does not depend on the order (`TakesAny`),
that it scales (`SumsScale`) and adds over disjoint sets (`SumsJoin`) is proved from the
definition of the fold. Each is an induction on the set, done by taking
a smallest set for which it fails (`SmallestSubset`), because the library's
induction theorems take an operator as a parameter, which the provers cannot instantiate.

**MarketDataProofs** (the composition the run checks). `PartsComposed`: a step of
`MCMarketData` is a step of one part and a stutter of the others, so its
specification implies `FleetSpec`, `AdapterSpec`, `TierSpec` and `QuerySpec`; every property
of `market_data` but the one of liveness follows from the theorems above.

Out of the prover's reach, and checked by TLC only: everything under
[Fairness](#fairness), that is `RunningEnds`, `PendingIsClaimed`,
`AlwaysRescheduled`, `EventuallyComplete`, `RegistryConverges`,
`ViewFollowsSignals` and `SelectionIsCollected` (TLAPS has no `ENABLED`, and so no
fairness). No module uses a RECURSIVE operator; the library's recursive
functions are reasoned about as above.

## Findings

Each is a run whose property TLC violates.

1. `view_missed` (bug): "any contract plan change fires a debounced refresh signal"
   (`contract_registry.py:8-9`). A signal raised while a refresh is awaited is
   erased when the flag is lowered after it, and the view stays stale.
2. `backpack_startup` (bug): "fetches points after `newest_timestamp + 1s`"
   (`tracker/README.md:82-83`). In the first second of an hour after a gap of two
   or more, the oldest missing funding is left out for good.
3. `history_short_page` (divergence): `_FETCH_STEP` is "Calculated using MINIMUM
   funding interval" (`exchanges/base.py:30`). Aster's is calculated from the
   largest, and its request is limited to 1000 records.
4. `cumulative_doubled` (bug): "cumulative funding differences over a time period"
   (`api/api/v0/funding_data.py:299`). When the greatest intervals of two pairs differ
   but align the range to the same bounds, each settlement is summed once per
   interval.
5. `history_error_page` (bug): "`history_synced` tells whether full backfill
   completed" (`tracker/README.md:98`). OKX's, Bybit's, Derive's, dYdX's,
   Lighter's and Pacifica's drivers read an error in the body of a 200 answer as a page
   without records, and the backfill then marks the contract synced for good.

A client may set `buffer_minutes` to anything (`api/api/v0/funding_data.py:261`, `:309`). The buffer
widens only the start of a window that has been aligned already, so from an hour on the
answer counts settlements before the bounds it gives; `RangesAddUp` assumes less.

Places where the model had to follow the code against a comment, without a run of
their own:

- The view's layers are cut by the *start* of a bucket, so the bucket that a border
  cuts is shown beside the finer layer's samples (`005_smart_view.py` speaks of bounds that
  prevent overlaps). `ShownTwiceAtBordersOnly` says that this is all of it.
- Two tiers' refresh windows (`004_continuous_aggregates.py:157` and `:170`, 12 hours and 2 days) reach
  further back than the 6 hours raw rows are kept since migration 008; `Safe` in
  `NoSampleMissing` is the condition under which a late change of a bucket does not remove it.
- Both readers of Derive ask for the first page of its tickers only
  (`OffFirstPage` in `CollectionIsComplete`), while `exchanges/base.py:147` has the batch
  answer for all contracts.
- `fetch_history_before` is to answer what is strictly older than the oldest point
  (`exchanges/base.py:104`, `tracker/README.md:85-88`). Backpack's offset is rounded toward
  the present, so the page contains that point but in the last second of an interval:
  a finished backfill asks for the same page until that second or its timeout. No point
  is lost by it (`SyncedFromTheFirst`).
- A Backpack update whose request outlives the interval it was asked in leaves out the funding after
  the newest bound ("late"), another cause of finding 2; an error body between two
  cursor pages of Pacifica leaves out the rest of an update ("torn").

## Not modelled

- *Asset ranking*: one transaction that overwrites a column nothing else writes.
- *API metadata, search and transfer objects*: single reads without a computation.
- *HTTP retries*: they change no state; `LiveQueue` lets a task time out at any
  moment of its collection, whatever is being retried.
- *Rates on their way in*: parsing an exchange's answer. `LiveAdapters` follows the
  market a rate belongs to, not its digits; `HistoryDrivers` the hour a funding is of, so that
  Paradex's cache of live samples, which only decides from which records an hour is
  averaged, is left out.
- *Retention of the tiers*: they are kept longer than the view reads them.
- *Backpack's `_fetch_history`*: present, and called by nothing.
- *Settings, logging, process start, frontend, deployment*: no state to
  interleave. *Migrations* other than those that define tables and tiers run once,
  offline. The *verification tool* and the test support are development tools.

PostgreSQL's locks, TimescaleDB's jobs, the exchanges and process death are
modelled from how the code meets them and marked external in `PROJECT.json`.

## Plan

Done: the live queue, its abstract board and its recovery; the history of one
contract and every driver's paging, both refining the abstract ledger; the registry and the view; the tracker's
processes; listing and live adapters; storage tiers; the queries; the proofs above.

Left, in the order of importance:

1. `LiveRecovery` as a refinement: it names exchanges and not tasks, so it needs a board
   that forgets closed tasks, or a history variable for those of `LiveTaskBoard`.
2. *HTTP*: the semaphores under cancellation, if retries ever come to hold state.
3. Registry and history of one exchange composed: a contract delisted and listed
   again while its backfill runs.
