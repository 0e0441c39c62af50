# opt_bt in TLA+

`opt_bt` is a backtest engine for options: strategies place orders against
historical minute bars, an event loop matches and books them, reports are made
from the trade log. This directory models the program in TLA+, checks the models
with TLC and proves theorems about them with TLAPS. Source paths below are
relative to `src/src/`.

## 1. The system: components, state, interactions

| component | source | state it keeps | operations |
|---|---|---|---|
| Event loop | `engine/runner.rs`, `common/event.rs` | binary heap of events, pending orders, position in the timeline | `init`, `run`: lifecycle callbacks, draining of due events, scan of pending orders |
| Context | `common/context.rs` | clock, active strategy id, event buffer, order log, alarm counter, exposure per strategy | `place_order(_at)`, `cancel_order`, `schedule_alarm(_at)`, `collect_events`, `on_fill_exposure`, pnl getters, subscriptions |
| Fill model | `execution/*.rs` | none | `fill_order`: does an order match at a time, at which price |
| Account | `portfolio/manager.rs`, `portfolio/models.rs` | cash, positions, attribution, trades | `on_fill`, `Position::update`, `equity` |
| Allocator | `portfolio/allocator.rs` | total capital, rule per strategy | `register_strategy`, `can_accept_notional` |
| Portfolio strategy | `strategy/portfolio.rs` | children, order id -> child | broadcast or routing of every callback |
| Shipped strategies | `strategy/examples/*.rs`, `demo_ws` | legs, flags, statistics, subscriptions: each its own state machine | callbacks |
| Market data | `data/*.rs` | bars per instrument and per time | loading, look-ups, ranges, timeline, archived view, slices of a chain |
| Cache server | `cache/*.rs`, `data/fingerprint.rs` | entries, generation counter behind a mutex; snapshot files | `PING`, `STATUS`, `ENSURE`, `EVICT`, one thread per connection |
| Cache client | `cache/ipc.rs`, `main.rs` | attempt counter | send with timeouts and retries, validate, map |
| Sweep | `engine/sweep.rs`, `config.rs` | list of permutations | parallel runs, ordered results |
| Reporting | `reporting/*.rs` | none (functions of the trade log) | metrics, lots, equity curve, JSON, HTML |
| bt CLI | `bin/bt.rs`, `main.rs` | workspace and project files, modification times, built binaries | `workspace`, `project`, `run`, `sweep`, `cache`, `data`, `clean` |

A run is single-threaded. The engine calls the strategy; the strategy calls the
Context; the Context writes events to a buffer; the engine moves the buffer into
the heap after each callback it dispatches from the heap and after each market
event, but *not* after `on_start`, the day callbacks or `on_stop`. Fills are
queued by the fill model and booked when they are popped, so between a match and
its booking a strategy runs on books that do not know it. Concurrency proper is in
the cache server (threads, files, crashes, retrying clients), in the sweep, and
between `bt` processes and an author who share one project directory.

What is hard, and where it bites, is listed under `hazards` in `PROJECT.json`: the
unspecified order of equal timestamps in the heap; state read before a fill is
booked and used after it; order ids that repeat; clocks that are already in the
next day; integer division of average costs; everything that happens to one
snapshot file between two threads; strategies that keep books of their own, by
order id or by position, next to the account's; a binary that is older than the
source it is believed to be built from.

What makes each component correct:

- *Event loop*: orders are neither lost nor duplicated; time moves on only when
  nothing is due; an order that can trade does not rest; cancels take effect; what
  a strategy asks for is delivered; the run ends.
- *Fill model*: a trade is justified by a bar known at its time.
- *Account, exposure*: incremental books equal what the trade log adds up to; no
  money appears or vanishes except by rounding.
- *Portfolio strategy*: every event reaches the child it concerns, once, and what
  it trades is attributed to it.
- *Shipped strategies*: what a strategy believes of its positions is what the
  account holds; positions are closed when its rules say so; a short leg is guarded.
- *Market data*: both views give the rows of the file, and never a later one.
- *Cache*: a reply's handle describes the data it names; an entry stays until it
  is evicted; every request is answered; a crash costs at most a reload.
- *Reporting*: the replays of one log agree with each other and with the account.
- *Sweep*: each combination once, beside its own result, whatever thread ends first.
- *bt CLI*: what is executed is what was validated.

## 2. The modules

```
FillModel   Ledger   Allocator         what one bar, one fill, one rule means
      \       |       /
           Engine  ------------------  run(), heap, buffer, Context
              |                        OrderLife: what is promised about orders
       EngineRefinement ------------- Engine implements OrderLife
              |
           MCEngine                    instances for TLC

Engine -- Portfolio -- MCPortfolio          PortfolioStrategy on the engine
Engine -- StrategyHost                      one particular strategy on the engine
            |-- Straddle -- Examples -- MCStraddle
            |-- OptionBuying -- MCOptionBuying
            `-- OrbBtst -- MCOrbBtst

Ledger -- Reporting -- MCLedger             reports of the trade log
MarketStore -- MCMarketStore                file, two indexes, archived view, slice
Sweep -- Workspace -- MCWorkspace           grid and threads; bt, cargo and files
(StableSort, under MarketStore and Sweep: the sort of Rust's library)

LedgerProofs (of Ledger) -- ReportingProofs (of Reporting)
  `- EngineProofs (of Engine and EngineRefinement) -- PortfolioProofs (of Portfolio)
                                                   |- OrbProofs (of OrbBtst)
                                                   `- ExamplesProofs (of Examples)
WorkspaceProofs (of Workspace, Sweep and MarketStore)

CacheServer      threads, store, snapshot files, crashes
     |
CacheClient      the programs that ask, retry and map    CacheRegistry: what is
     |                                                   promised about entries
CacheRefinement  CacheClient implements CacheRegistry
     |
  MCCache        instances for TLC       CacheProofs
```

The engine, the store and the cache meet only in the data a run is given (`Bars`),
so they are separate models.

**FillModel** is `execution/`: `CanFill(order, t)` is `fill_order` returning
`Some`, `FillPrice` the price in it. Market data is a function from instrument and
time to a bar, `BarAtOrBefore` the lookup of `MarketDataView`. `StaleAfter` and
`Slip` are the optional stale detector and slippage model.

**Allocator** is `portfolio/allocator.rs`. A ratio is a percentage in place of an
`f64`.

**Ledger** holds the account and the exposure books. `OnFill(f)` is the part of
`handle_fill_event` before the strategy's callback: `on_fill_exposure`, then
`Account::on_fill` with `Position::update`. A position absent from a map is the
position of `Position::new`. The module has a specification of its own
(`LedgerSpec`, any sequence of fills), so that the books can be checked over
longer histories than the engine reaches.

**Engine** is `run()`. Its control state is `pc` (in a callback, between
timestamps, draining, done), `cb` (which callback) and `phase` (before or after the
market event, or after the loop). Correspondence:

| action | code |
|---|---|
| `BeginRun`, `ReturnLife`, `NextTimestamp`, `EndLoop` | `run`: first clock, `on_start`, day change with `after_close`, `on_date_change`, `before_open`, end of loop, `on_stop` |
| `DispatchAlarm`, `DispatchRejection`, `DispatchOrder`, `DispatchFill`, `DispatchCancel` | one pop of `process_due_non_market_events` and its handler up to the callback |
| `ReturnEvent`, `ReturnOrder` | the rest of the handler (an order is matched *after* `on_order_event`) and the collection of the buffer |
| `HandleMarketEvent`, `ReturnMarket`, `EndOfStep` | `handle_market_event`, the collection after it, the second drain |
| `PlaceOrderAt`, `CancelOrder`, `ScheduleAlarmAt`, `SetStrategyId` | the calls a strategy makes inside a callback |

The strategy is not a fixed program: in every callback it may make any calls, with
inputs from `OrderInputs`, `PlaceDelays` and `AlarmDelays`, up to `MaxCalls` in a
run. `Due` contains *every* earliest event, because `Event::cmp` compares
timestamps only and `BinaryHeap` does not say which of equal elements it pops.
Three history values exist only in the model: `uid` (the identity of an event or
order, since ids repeat), `cancelled`, and what a cancel was asked for
(`resting`, `intraday`).

**OrderLife** says what the engine promises about orders and nothing of how:
accepted orders work until matched or cancelled; a match is booked once, and soon.
**EngineRefinement** maps the engine to it: working orders are those on their way
or resting, matched ones those whose fill is in the heap.

**Portfolio** puts `PortfolioStrategy` between the engine and its children. A
callback of the engine enters the portfolio (`BeginCallback`: broadcast, or the
target of a routed event), is passed to the children one by one (`CallChild`,
which sets the active strategy id), each of which may call the Context as it
likes (`ChildCalls`), and returns (`LeaveCallback`, back to the id `default`).
Only then does the engine go on. `waiting` is what is left of the iteration over
the `HashMap` of children, in any order. `asked` is history: the child that made
the n-th call.

**StrategyHost** does the same for one particular strategy: its handler of the
running callback (`Handle`) changes the strategy's own state and hands over the
calls it makes, which are then made in order (`MakeCall`) as steps of the engine;
the callback returns after the last. A handler is not interrupted, so state and
calls of one callback can be kept apart. Three modules supply handlers:

| module | strategies | handlers |
|---|---|---|
| `Straddle` | `nifty_straddle` (`weekly`), `nifty_premium_straddle` (`premium`), `nifty_straddle_portfolio` (`windows`) | `ScheduleDayAlarms`; choice of the pair; `ProcessEntry`, `ProcessExit`; `SyncFills` |
| `Examples` | `atm_straddle_sell`, `nifty_nearest_expiry_straddle`, `sma_nifty50`, `random` | `SellForTheHour`, `BuyBackAtTheHour`; `Subscribe`; `SmaCrossover` (`FollowCrossing`); `Random` |
| `OptionBuying` | `option_buying` | `OnDateChange`, `ProcessEntry`, `ProcessCutoff`, `OnBuy`, `OnSell`, `OnStop` |
| `OrbBtst` | `banknifty_orb_btst` | `OnMarketEvent` with entries, exits, the cutoff; `EntryFilled`, `ExitFilled` |

A variable says which variant and which market a run is about, so that one run of
TLC covers all. Ties a `HashMap` iteration would decide (two strikes equally near)
are choices.

**Reporting** has no actions: a report is a function of the trade log that
`Ledger` keeps, and the properties are about the report of every log TLC reaches.
Ratios are pairs of integers. `Books` is the replay through `Position::update`
that `metrics.rs`, `json.rs` and `post_analysis.rs` each repeat; `Walk` the walk
of `max_drawdown_pct` and `drawdown_recovery_periods` along the equity curve. A list
that a loop over the trades pushes to is a function of the trades that pushed, by
their index; the trades done by a day are those stamped until then, the first of the
log as long as fills come in the order of time (`sort_by_key` then changes nothing).

**MarketStore** loads a file (`Load`, row by row through `AddBar`, then the sort),
and reads it through `BarAtOrBefore` and `BarsInRange` of `MarketData`, the
binary searches of `ArchivedMarketDataView`, and `Slice`, what `bt data slice` prints.
A row is known by its place in the file. A search is the bounds it has after each
round (`Search`); `partition_point` of the library is how many bars come first.

**Sweep** is the engine's `sweep` command: `GeneratePermutations` (the product of the
value lists, in the order of their names, the last one fastest), one `OneRun` per
configuration in any order, `Collect` into its place, `Summarise`: the sorted returns
and the last of the best.

**Workspace** is `bt` over one project directory. A process is a place in
`project_init`, `run_backtest` or `run_sweep`, what it has read so far, and the
binary it executes; files carry the time of their last write, and a binary the code
it was built from, when its build began and when it ended.

| action | code |
|---|---|
| `WorkspaceInit`, `InitBegins`, `InitWrites` | `workspace_init`, `project_init`: one write at a time |
| `RunBegins`, `LoadsToml`, `DiscoversIds`, `ChecksRun` | `run_backtest` up to validation: `bt.toml`, layers of parameters, ids and parameters from a run of cargo |
| `LaunchesProject`, `CargoBegins`, `CargoEnds`, `ExecutableGone`, `Executes` | `build_and_resolve_binary` with `binary_needs_rebuild`, `run_project_strategy` |
| `LaunchesBuiltin` | the call of `opt_bt` for a built-in strategy |
| `EngineEnds`, `SweepCommand`, `ChecksSweep`, `SweepEnds` | the reports of the run; `run_sweep` |
| `EditCode`, `EditToml`, `Killed` | the author, the operating system |

**CacheServer** is the server: `thread[t]` is the thread of connection `t`, whose
`pc` is the place in `process_ensure_request` where it stands. The mutex is held
for single look-ups and insertions, so those are single actions; between them every
access to a file is one. A file is created (truncated) and written in two steps, as
`File::create` and `write_all` are. A snapshot file is known by the version of the
dataset whose archive it holds (0 if it holds none) and its length; that `rkyv`
rejects an empty or mixed file is assumed. A key is a path and a stamp, the stamp
standing for size and mtime: `FineStamps` says whether every rewrite changes it.

| action | code |
|---|---|
| `FingerprintDataset`, `LookupByKey` | `build_dataset_fingerprint`; the first look-up |
| `CheckSnapshot`, `RestoreSnapshot` | `exists()` and `read_snapshot_metadata`; `load_market_data_snapshot` where there is no metadata |
| `LoadParquet`, `CreateSnapshot`, `WriteSnapshot` | `load_parquet`; `write_market_data_snapshot` |
| `BuildHandle`, `CreateMetadata`, `WriteMetadata` | `reserve_generation`, `build_shared_snapshot_handle`; `write_snapshot_metadata` |
| `InsertPreparedEntry` | the insertion, or the entry that was there |
| `Evict`, `Status` | `EVICT`; `STATUS` with `resolve_cached_entry_for_query` of its reader |
| `Crash`, `Restart`, `RewriteDataset` | the process and the Parquet file, from outside |

**CacheClient** adds the programs. `send_command` is `Connect`, `ConnectionRefused`,
`ReadTimesOut`, `EmptyResponse`, `ReceiveReply`, `ReceiveError`; each attempt has a
connection of its own, and a thread whose client has given up runs on. What is done
with the answer depends on the program: `main.rs` validates the handle and maps the
file unchecked, the generated runner loads it and on failure evicts, asks again and
at last reads the Parquet file, a query asks `STATUS`. `asked` is history: the
version of the dataset when the program started.

**CacheRegistry** promises, in ten lines, what the store is for: one handle for a
key, under a generation never registered before, unchanged until it is evicted.
**CacheRefinement** maps the server to it; generations that threads have reserved
and not yet registered are what the mapping has to find.

## 3. What is checked

Passing runs (`PROJECT.json` says the question of each):

- `MCLedger.cfg`: one instrument and strategy, four fills of 1-3 units at two prices
  whose averages do not divide evenly: every order of opening, adding, reducing,
  closing and flipping. And two instruments, two strategies, three fills: each kind
  of sharing (same instrument, same strategy, both, neither) occurs between two
  fills, and a third closes or flips. `CostWithinTrades` ties the average cost to the
  trades that built the position; `MoneyConserved` says that only the integer
  division of an average moves cash plus positions away from capital plus profit, by
  less than a price unit per unit held; `BooksReplayTrades` and `ExposureIsMarked` say
  that cash, positions, attribution and exposure equal what the trade log adds up to. The
  report is computed after every fill: `ReportsAgree` compares metrics, tax summary,
  portfolio view and account; `CurvesAreReal` says that the drawdown is the deepest
  there is, recovery ends where the curve is back, and each day's equity is cash plus
  positions at the day's close, for three choices of date bounds;
  `BookEventsTellTheBook` compares the position events of the JSON report with the
  account. The capital is 12, so that equity goes below zero too.
- `MCEngine.cfg`: three bars over two days, falling then rising prices, market, limit
  and stop orders, stamped now, one second later (between bars) or one bar in the
  past, alarms, cancels; three calls. Two calls give an order and its cancel; the
  third gives the order, alarm or second cancel that interferes.
- `MCEngineLive.cfg`: the same with two calls, stale detection with threshold 0 and
  slippage, for termination, delivery and refinement.
- `MCPortfolio.cfg`: two children on one instrument under an allocator, a bar on each
  of two days, three calls in any callbacks of any children, which is enough for the
  order of one child to be queued, matched or rejected while the other is served.
  `RoutedToAsker` compares the child an event reaches with the child that asked for
  it, `AttributedToAsker` the books of each child with its trades.

The timeline is not empty (with an empty one `run` only calls `on_start` and
`on_stop`) and `init` runs before the clock is set, at time 0. Numbers are
unbounded integers: scaled prices stay far below 2^63.

Three properties carry a condition, which is the code's: `NoMissedFill` leaves out
orders stamped before they were placed (they match at the past bar only) and those
of `init`; `TradesInOrder` assumes no order is stamped in the past; `CancelHonoured`
is about cancels from intraday callbacks, since what a lifecycle callback asks for
stays in the buffer until a later dispatch.

Fairness: `WF_vars(Run)`, where `Run` is the engine's part of `Next`. The loop is
one thread that nothing blocks, and a callback returns because a strategy's calls
are bounded; so `run` keeps taking steps. Nothing is assumed of the strategy.

- `MCCache.cfg`: a run and a runner at once on one dataset, with timeouts, evictions,
  one rewrite and one crash. Two programs are enough for every race of two threads
  on a file, and the runner's three commands leave up to three threads of its own
  behind. The second version of a dataset is the shorter one, so that writing it
  over the first leaves bytes of both.
- `MCCacheSerial.cfg`: run, runner, evict and query in any order but one after the
  other, with a retry: the ordinary use. `EntryUsable`, `DataIsWhole` and
  `RefusedOnlyAfterCrash` hold only so; two programs at once break them
  (`cache_overlap` shows the last). `ClientsFinish`: each program comes to an end on
  every path through ENSURE, EVICT, ENSURE and the Parquet file.

Fairness of the cache (`FairSpec`): each thread runs on until it answers and each
client until it ends, as nothing in them waits for another except on sockets with
timeouts; a server that was killed is started again. No client has to start, no read
has to time out, no server has to die.

`FreshData` assumes `FineStamps`; without it, it fails, and the code comments on it
nowhere.

- `MCStraddle.cfg`: a day of five bars and the morning after, four markets (calls that
  rise through their stops, both legs stopped at one bar, a strike without a put, an index
  without its first bar),
  seven strategies with every choice of their windows, among them one that opens and
  closes between two bars. `ShortsAreGuarded`: between timestamps the stops that rest
  are exactly the short options there are; `BelievesItsLegs`: a leg the strategy
  calls open is short in the account, and none is ever long, although `on_fill` looks
  at positions and not at the order that filled; `BoughtBack`, `LegsOfTheDay`,
  `CrossoverSide` for the examples.
- `MCOptionBuying.cfg`: two days with bars before, at, between and after the two alarms
  and a third with a gap over both; on the second day the two instruments change places
  and are bought again. Entries fill at a bar of their own, both at one bar, at the bar
  of the entries, only at that of the cutoff, or are refused; targets are reached before
  the cutoff, at it or never. `FlatIfIdsDiffer`: after the cutoff of a regular day
  nothing rests and nothing is held, where order ids were distinct, also when the bar of
  the cutoff reaches a resting target or entry. `RoundTripsAddUp`: the round trips of the
  days so far add up to the profit the account realized, once flat; up to four are summed,
  of two instruments with different quantities, bought on two days and closed by targets
  and by the cutoff. It needs files that list a contract once a day (`ListedOnce`): two
  rows may round to one listed strike, and then the second fill overwrites the first in
  `open_trades`. One file of the run has such rows.
- `MCOrbBtst.cfg`: three days, the second ending before the exit time, seven options of
  two months, all combinations of premium, range, exit time and target. `LegBooks`
  compares each tracked leg with positions and orders of the engine, `LegsFollowTheRules`
  when it was bought and sold with the bars.
- `MCMarketStore.cfg`: every file of up to three rows over three symbols, four times and
  a row that does not parse. Three rows are enough for two of one time with one of
  another before, between or after them.
- `MCWorkspace.cfg`: two `bt` processes, an author with four texts of the strategy (one
  does not compile, one declares a required parameter, one none), two of `bt.toml`,
  kills at any step, four writes. `RunsWhatItChecked`: unless its source changes after a
  run began, the binary it executes declares the strategy and accepts the parameters it
  validated (or the source was saved during the build, which times cannot tell).
  `SweepCoversGrid`: a grid of two by two, one with a list without values, a file without
  dates, a portfolio; runs end in any order.

Processes of `bt` and runs of a ledger stop at a bound or an end, so these
configurations, and `MCMarketStore.cfg`, do not check for deadlock; the others do.

The violation run states what a document of the repository says and the code does
not do: `cache_overlap`, "on cache miss, runtime MUST load once then register it";
the second of two concurrent ENSUREs finds a file not yet written, and is refused.
More configurations reproduce disagreements, each a counterexample of a few steps;
they are kept beside the others and not listed as runs:

| configuration | property | what is said | what the code does |
|---|---|---|---|
| `MCEngineIds.cfg` | `OrderIdsDistinct` | "Simple distinct ID generation" (`common/context.rs:486`) | ids repeat once the buffer was drained within a second (`context.rs:489`) |
| `MCEngineClosing.cfg` | `ClosingNotRejected` | after an allocator rejection "Close existing positions or reduce size" (`docs/STRATEGY_API.md:438`) | the closing order is added to the exposure and rejected too (`context.rs:343`) |
| `MCCacheCrash.cfg` | `EnsureAnswered` | on a miss, load and register (`specs/001-options-backtest-engine/spec.md:131`) | a partial file left by a crash is refused for ever (`cache/mod.rs:157`) |
| `MCPortfolioIds.cfg` | `CancelsTakeOwnOrders` | "Each strategy manages its own positions, orders" (`docs/PORTFOLIO_STRATEGY_TUTORIAL.md:19`) | two children's orders share an id, and a cancel takes both |
| `MCOptionBuyingFlat.cfg` | `FlatAfterCutoff` | everything is closed at the cutoff (`demo_ws` README of `option_buying`) | of two targets of one id only one is remembered; the other fills or rests later |
| `MCOptionBuyingTotals.cfg` | `DaysCountedOnce` | the comment at `option_buying.rs:577` | `on_stop` adds the last day's statistics again |
| `MCWorkspaceBuiltin.cfg` | `AcceptedRunsReport` | "If the selected strategy is built-in ..., `bt` runs `opt_bt`" (`docs/CompileFlow.md:18`) | `bt.rs:1922` calls it without the subcommand that `main.rs:28` requires, so each such run fails |

Disagreements of the same kind that have no run of their own:

- `after_close` is "called at the end of each trading day"
  (`specs/001-options-backtest-engine/spec.md:89`); `run` calls it when the clock is
  already at the first timestamp of the next day (`NextTimestamp`).
- `AlarmEvent.timestamp` is the "actual time when alarm triggered"
  (`docs/STRATEGY_API.md:291`); it is the scheduled time, also when the alarm rings
  at a later bar.
- An order "already active as pending" is rejected (`docs/STRATEGY_API.md:100`); the
  Context does not look at pending orders.
- Risk limits are enforced per strategy (`tasks.md:62`); two orders accepted before
  the first is booked pass together.
- Stale entries are "deterministically invalidated" (FR-024, `spec.md:130`); a rewrite
  within a second that keeps the size is not noticed, and a query is answered from
  any entry of its path.
- On a hit the resident dataset is reused (FR-025, `spec.md:131`); of two concurrent
  loads one truncates the file the other's handle describes.
- Without a cache service the run continues by a direct load (FR-026,
  `spec.md:132`); `main.rs:206` returns the error, the generated runner panics.
- The benchmark symbol has a default, which hides `BT_BENCHMARK` and
  `[run].benchmark` (`docs/USER_GUIDE.md`, layers of configuration); `[engine].path` is
  relative to the project but resolved against the current directory; a run of a
  built-in ignores `initial_capital`; `main.rs` requires dates and loads without them.
- A sweep ignores the base `params` of its file, does not resolve `config_file`, gives
  every permutation of a portfolio the children's own parameters, and panics on an
  empty list of values; `bt sweep` validates the project's strategy and runs that of
  the file.
- Ids a project declares hide the built-in ones; one that is equal to a built-in's name
  runs the engine's.
- Expiries and slices match an underlying by `starts_with`: a longer name with that beginning is taken too.

What the strategies and reports do in corners the properties leave out, each by its
condition: a day whose bars skip from the entry past the exit rings both alarms at one
bar, and a straddle stays open; a stop the Context refuses leaves its leg alone, as no
strategy listens to rejections; the crossover sets its flag for a refused order;
option buying counts refused rows as placed and pairs rows of one ticker by
instrument; a leg of a day that ends before the cutoff waits for ever; a refused or
stale sale is tried again or rests overnight. A recovery of `None` is reported as 0,
a profit factor without losses is infinite (JSON null), and equity at the end is at
cost where the daily curve is at the market.

## 4. What is proved

`LedgerProofs` and `EngineProofs`, from the assumptions named in the modules
(`FillModelAssumption`, `BarsAssumption`, `LedgerAssumption`,
`AllocatorAssumption`, `EngineAssumption`), for every value of the constants:

- `LedgerTypeCorrect`: `LedgerSpec => []LedgerTypeOK`. The only step that is not
  routine is the integer division: the quantity an average is divided by is
  positive, because the branch is taken only for a position that is open and a
  fill of a positive quantity.
- `LedgerBooks`: under `LedgerSpec`, `BooksReplayTrades`, `RealizedAgrees`,
  `ExposureIsMarked` and `CostWithinTrades` always hold. `BooksAgree` states the first
  two (cash and the running totals are those of the trade log, and realized profit is the
  same in its three places), `ExposureMarked` and `CostBounded` the others. They compare a
  running total with a sum over the trade log or over the books, and `SumOver` is a `CHOOSE` of a
  recursive function, about which the prover knows nothing. The first part of the
  module proves what is needed of it: what a sum is when a term is added, changed or
  zero. In place of induction over the set, a smallest set for which the claim fails
  is taken (it exists because the strict subsets of a finite set are well-founded)
  and shown not to be one. `BooksInv` is the type of the books with `ReplayInv` and
  `MarkedInv` (`BooksReplayTrades` and `ExposureIsMarked` restated as sums and by the
  price of a strategy's last fill), `CostWithinTrades` and the agreement of realized
  profit (`RealizedAgrees`), and `OnFillBooks` shows that one fill keeps them, whether it opens, adds to, reduces, closes or turns a position.
- `LedgerMoney`: `LedgerSpec => MoneyConserved`, an action property. Cash, the
  position at cost and realized profit move against each other; only the truncated
  division of an average leaves a remainder, smaller than the quantity divided by.
- `TypeCorrect`: `Spec => []TypeOK`, with the stronger `TypeInv`: during the
  callback of an order event, `cur` is an order event; `step` is a timestamp
  wherever a handler reads it. The fills that `FillModel` makes are shown to be
  fills of the ledger, so the ledger's theorem can be used inside the engine.
- `EngineKeepsBooks`: `Spec => LedgerSpec`. Each step of `run()`, and each call a
  strategy makes, either books one whole fill or leaves the books alone. So the
  books need no proof of their own in the engine: `BooksOfARun` is `LedgerBooks` and
  `LedgerMoney` for every run of the engine.
- `OrdersConserved`: `Spec => []OrderConservation`. The property is not inductive:
  an order's uid could be that of an event still to come, or two events could
  carry the same uid. `ConservationInv` adds that uids were given out
  (`UidsIdentify`), that an event agrees with the order it carries
  (`EventsWhole`), that a uid stands for one copy only (`OneCopy`) and that each
  accepted order is in one place (`OnePlace`). TLC checks it first; the proof then
  has one step for each action.

The second part of `EngineProofs` has the five properties of the loop that depend on
time. They rest on one invariant, `LoopInv`, with a part for each thing the loop relies on:

- `TimeMovesOnDrained`: `Spec => []StepDrained`. `ClockInv` ties the clock, the
  callback and the phase of the timestamp to each other; `DrainedInv` says that the
  second draining starts with an empty buffer and that every dispatch of it empties
  the buffer again, so nothing due is left when it ends. A heap that is not empty
  has an earliest event only because it is finite (`FiniteInv`).
- `EveryTradeJustified`: `Spec => []TradesJustified`. `JustifiedInv` carries the
  reason of a trade back to the moment the fill was queued: a fill waits in the
  heap while its order is already gone from the pending list.
- `TradeLogInOrder`: `Spec => []TradesInOrder`. `OrderedInv`: no order or fill on
  its way is older than a trade; it needs `BufferInv`, that an order in the buffer
  was placed under the present clock, or by `init` before anything traded.
- `CancelsHonoured`: `Spec => []CancelHonoured`. `CancelInv`: what rested when a
  cancel was asked for stays resting, or is cancelled, until the cancel is handled,
  because an intraday cancel is handled within its timestamp and the scan comes
  before `on_market_event`.
- `NoFillMissed`: `Spec => []NoMissedFill`. `ScannedInv`: once the market event has
  been handled, no pending order is reached by the bar of the timestamp and no order
  on its way is stamped before it, so that a late one meets the same bar itself.

The step lemmas of both parts are about `AnyNext`: `run()`, and calls of the
Context with any integers and at any time, not only with those of `OrderInputs` and
`PlaceDelays`. `Next` is a part of it. So `LoopInv` holds of everything that runs on
the engine, once its steps are shown to be steps of `AnyNext`.

`PortfolioProofs` first shows that of a portfolio, so that `PortfolioSpec => []LoopInv`
(`EngineInvariantUnderPortfolio`): what is proved of the engine for any strategy
holds of a portfolio. `CallbacksReachTheirChild` is `PortfolioSpec =>
[]RoutedToAsker`, for any children. `AskedInv` says that every event on its way
carries the strategy id of the child that asked for it, `CurInv` that a callback of
an event has one, and `StageInv` how far the callback has got with its children.

`PortfolioKeepsBooks` (`PortfolioSpec => LedgerSpec`) follows in the same way.
`TradesAttributed` is `PortfolioSpec => []AttributedToAsker`: a trade carries the
strategy of its order (`JustifiedInv`), an order that of the child that placed it
(`AskedInv`), and the books add up by that id (`BooksReplayTrades`); so the trades of a
child's orders are those counted for the child.

`EngineProofs` ends with `EngineKeepsOrderLife`: `Spec => Life!Safe`, initial states
and steps of `ImplementsOrderLife`. The working orders of `OrderLife` are those
accepted and not yet matched, booked or cancelled; a step of the engine then changes
one of these sets or none. Conservation is what makes a match or a cancel take an
order that is still working. The other part of `ImplementsOrderLife` is liveness.

`OrbProofs` puts the opening-range strategy on the engine, from the same assumptions
and `OrbAssumption`, for any options, bars, parameters, number of days and capital.
Its last conjunct is about the clock: two timestamps are of one day exactly if they
are in one span of `DayLength` seconds. `types.rs` computes both, date and second of
the day, from one local time; without it "past the cutoff" would not mean later on
that day.

- `OrbInvariant`: `OrbSpec => []OrbInv`. `LoopInv` holds, as each call the strategy has
  in hand (`CallsOK`, `TodoIsSeq`) is one the Context can be asked. `OrdersOK` says how
  the strategy uses the engine: market orders for now, made in `on_market_event` only,
  buys at a bar of this moment, so that a buy trades at its own timestamp and only
  sales can rest. The rest, `LegInv`, ties the strategy's books to the engine's, and
  holds while order ids are distinct:
  - `PursuitInv`: orders that `on_fill` has not yet confirmed and legs that say
    `pending_entry` or `pending_exit` correspond one to one, through `entry_orders` and
    `exit_orders`. An order counts as unconfirmed until the callback of its fill has
    run, which is after the account has booked it;
  - `PositionsInv`: the account holds `Quantity` of an option for each leg in `Held`. In
    that callback the leg's status is one step behind the account, and `Held` says so;
  - `StatsInv`: the statistics count legs by status and reason;
  - `WaitingInv`, `HighsInv`, `BreakInv`: a leg that waits has not seen a bar past the
    cutoff, its high is at least that of every bar of its range seen, and it was
    bought, or is about to be, on a close above all of them;
  - `SalesInv`, without an allocator: a leg the strategy holds and must sell is one
    whose sale is in hand, at this very timestamp.
- `OrbIdsDistinct`: `OrbSpec /\ []FewEvents => []OrderIdsDistinct`, what
  `generate_order_id` says of itself and does not do for every strategy. The id is the
  second times a thousand plus the length of the buffer. Of each second only
  `on_market_event` places orders, it starts with an empty buffer and nothing drains
  it meanwhile, so ids grow (`IdsInv`), and stay below those of the next second if the
  buffer never holds more than a thousand events (`FewEvents`: at one bar the strategy
  asks for two purchases and one sale of each leg it holds, at most).
- `OrbBooks`: `OrbSpec /\ []FewEvents => []LegBooks`, also under an allocator.
- `OrbRules`: without an allocator, `OrbSpec /\ []FewEvents =>
  []LegsFollowTheRules`. With one it is false, as TLC confirms: the allocator adds a
  closing order to the exposure (`MCEngineClosing.cfg`), so a sale at the stop can be
  refused, and the leg is still held after its touch.

`ExamplesProofs` does the same for the four strategies of `strategy/examples`, from the
engine's assumptions, `StraddleAssumption` and `ExamplesAssumption`, for any data,
hours, periods, capital, allocator and number of days. Two conjuncts of
`ExamplesAssumption` are about the data: date and second of the day are of one local
time, as for `OrbProofs`, and one instrument of a market has the symbol of its index
(`run` names the same primary instrument in every market event, `engine/runner.rs:300`,
and the strategies compare that event's symbol with the one of their index).

- `ExampleLegs`: `ShippedSpec => []LegsOfTheDay`. `ChainInv` says of which day the
  subscription is: of the loop's day while its events are handled, and of the next one
  already after `before_open` has returned, before the loop's day changes.
- `ExampleCrossover`: `ShippedSpec => []CrossoverSide`, and `ExampleExits`:
  `ShippedSpec => []BoughtBack`. Neither strategy looks at its fills, so the argument
  counts: `Wanted(i, s)` is the number of orders of a side placed or still to be called,
  and while no call was refused each step that moves an order from `todo` to
  `order_events` keeps it. `FlagInv` ties it to the crossover's flag, `SoldInv` to
  the days entered and exited. `PositionsInv` says what the account holds of the orders
  booked so far, and `PositionsAtRest` that between timestamps those are all of them
  (`NoMissedFill` for market orders): an order of an instrument that has traded fills
  at its own timestamp. `ExitInv` adds that a day entered and not exited has seen no
  bar of the exit hour. The hypothesis of both theorems, `StaleAfter = Off`, is the
  engine's own configuration (`DefaultFillModel::new` has no stale detector); with
  one, an order can rest over a gap of the data and the account stay open meanwhile.

`ReportingProofs`, from `LedgerAssumption` and `ReportingAssumption`, is about the reports
of any sequence of fills, for any instruments, prices, timeline and capital. The replay is
a recursive function of the number of trades; `BooksReplay` and `ReplaysAgree` show that
it exists and that one more fill extends it and changes no earlier book. Instead of
induction on the number, `UpTo` takes the smallest one that fails. `ReportInv` is the
ledger's `BooksInv` with the facts the reports share: the replay of the whole log ends
at the account's positions (`Replayed`), cash is the capital less what the log has paid
(`CashIsLeft`), attribution adds up to the log (`AttributionAddsUp`, `IdleBooksNothing`).

- `ReportEvents`: `LedgerSpec => []BookEventsTellTheBook`. Flat and open alternate because
  between two book events nothing changes which (`TurnsAreEven`).
- `ReportTotals`: `LedgerSpec => [](PricesArePositive => ReportsAgree)`. The hypothesis is
  the code's: `realized_close_stats` skips a close whose average cost is not positive,
  and where prices are positive none is (`OpenCostsPositive`). The sum of the
  deltas is the account's profit step by step (`DeltasAddUp`); wins and losses of the two
  replays are equal as lists, not only as sums (`WinsDoAgree`).
- `ReportCurves`: `LedgerSpec => [](InOrderOfTime => CurvesAreReal)`. `Found` says what
  the drawdown's walk knows after each point: the peak, a pair of points whose fall is
  the worst so far, and the trough; `DrawdownStep` shows that one more point keeps it,
  comparing ratios by products. For the daily curve, the trades until a time are then
  the first of the log (`DoneIsPrefix`) and a position at the market is what its trades
  have gained (`WorthIs`); average costs drop out. That the engine books fills in this
  order is `TradeLogInOrder`, as long as no order is stamped in the past.

`CacheProofs`, from `CacheAssumption` and `ClientAssumption`, for any number of clients,
datasets, retries, rewrites and crashes:

- `CacheTypeCorrect`: `Spec => []CacheTypeOK`. The part that is not routine: a client
  never asks for a connection there is not, and a thread never reads a file there is
  not. `TypeInv` adds how many requests a client can have sent by the time of each
  command (`Counted`), and that whoever holds a key as an answer, or stands past the
  creation of a file, holds one whose file exists (`FilesThere`, `Answered`,
  `OnItsWay`).
- `CacheKeepsRegistry`: `Spec => ImplementsRegistry`, every step of the cache is one of
  `CacheRegistry` or changes nothing it can see. A generation is reserved long before
  the entry is inserted, and other threads insert, evict and reserve in between, so
  the invariant (`GensOwn`) speaks of the handles on their way: each carries a
  generation given out in this life of the server, which no other handle on its way
  has. An insertion that finds the key taken is then a step of the registry too: the
  generation it drops is used and registered nowhere.
- `DataFresh`: `FineStamps` implies `Spec => []FreshData`, although the stamp is taken
  and the data is read at different moments and nothing is locked in between. The
  invariant follows the data: the key a thread looks for is not ahead of the dataset,
  what it loads is not behind its key (`FreshThread`), so no file is behind the key
  it is filed under (`FreshFiles`); and a thread that works for a client carries a
  key not behind what the client asked for (`WorksFor`), so neither does the answer
  (`FreshClient`).

- `EntriesUsable`, `MappedDataWhole`: `EntryUsable` and `DataIsWhole`, under two
  hypotheses about the constants: programs do not overlap and no read times out.
  Without either hypothesis TLC finds each of the properties violated. `WholeInv` follows the file: one thread works at a time
  (`OneAtATime`); an entry, and metadata that is whole, vouches for a complete file
  (`FilesWhole`); only a thread whose key is vouched for by neither truncates one
  (`WholeThread`); and what a client was told stays so until it has mapped it
  (`WholeClient`), although the server can be killed after any step of it.
- `RefusedAfterCrashOnly`: `RefusedOnlyAfterCrash`, under the same hypotheses.
  `ServedInv`: while the server was never killed, a file or its metadata is whole
  unless the one thread that works is writing it, so no thread finds half of one.

`WorkspaceProofs`, first without any assumption: `RunsItsStrategy` is `Spec =>
[]RunsWhatItChecked`, for any number of `bt` processes, texts of the strategy and
edits. Nothing but modification times connects what was checked with what is run, so
`WorkspaceInv` says what the times prove. A binary is older than the source, or was
built of it, or was being built while it was saved (`BinaryKnown`); cargo builds of the
source, unless that was saved or removed since it began (`BuildKnown`); and as long as
the strategy has not been touched since a command began, its id and parameters are
those the source declares, and by the time it starts a binary none that is there is
older than the source, whoever built it (`Checked`).

Its second theorem, `SweepIsWhole`, is `Spec => [](ListsDiffer => SweepCoversGrid)`, for
any lists of values and any integer returns (`SweepAssumption`). `ListsDiffer` says that
no list of the swept file holds a value twice: nothing in the code keeps one out, and it
would be run twice. The invariant `SweepInv` is that every slot holds the parameters of
its configuration and, once finished, their return (`Swept`). That the configurations
are the grid is an induction over the lists (`ProductCovers`, by `UpTo`: a set of
numbers with 0 and with every successor is all of them, which follows from the
well-foundedness of finite sets and so needs no induction theorem), with the arithmetic
of quotient and remainder in `Digits` and `Undigits`. That the summary is theirs
(`SummaryIs`) rests on the places of a stable sort being an injection of a finite set
into itself, so that every place is taken (`PlacesTaken`).

The third and the fourth are about the data, for every file, however long and in
whatever order: `ViewsAgree` is `StoreSpec => []ViewsAgreeWithFile` and `SlicesShow` is
`StoreSpec => []SliceShowsTheMinute`, from `StoreAssumption` alone. `ReadInv` says what
the rows read so far have made of the two indexes: ids are one to one, the bars of an
instrument are its rows in the order of the file, and its bar of a time is its last row
then; `ReadRowBars` and `ReadRowTimes` keep it from row to row. A stable sort then makes
the bars of an instrument its rows in order of time, equal times in that of the file
(`SortByTimeIs`, from `SortIs`). In such a list the bars up to a time are the first ones
(`FirstOnes`), and a search that halves what is left ends where they do (`SearchIs`: its
bounds enclose that place, and the distance between them shrinks in every round). So the
last of them is the last row up to that time, and the bar found by time, where there is
one, is the same one (`AtOrBeforeIs`): the two indexes agree although `add_bar` fills one
by overwriting and the other by appending.

Only model-checked, and why:

- the liveness properties and the liveness of the refinement: out of the prover's
  reach;
- `ShortsAreGuarded` and `BelievesItsLegs` of the straddles of `demo_ws`, and
  `FlatIfIdsDiffer` and `RoundTripsAddUp` of option buying. What they lack is an
  invariant like `LegInv`, with alarms, stops and targets besides; the engine below them
  is ready for it (`AnyNext`). The straddles' two hold of regular days and of windows
  that do not overlap, which that invariant has to carry.

## 5. Not modelled, and the plan

Left out on purpose: logging and warnings, profiling counters, Signal events (no
code produces one), the fallback on `order_strategy_map` in `on_fill_exposure`
(unreachable: a fill always carries its strategy), the pnl getters of the Context,
which only read. Of the data: Parquet columns, dates and symbols as text,
`load_parquet_range`, `upsert_instrument` (nothing calls it; ids it would add are
not those `add_bar` counts). Of the cache: `PING`, the optional checksum and
hash (neither is on by default, and the hash is not part of the key), the single-
threaded `CacheStore::ensure_loaded`, and what a program reads through its map after
the file was truncated under it, which is undefined. Of the reports: Sharpe, Sortino,
beta, alpha and CAGR, which are floating-point formulas without state, the run
manifest, HTML and JSON layout. Of `bt`: `data` other than slices, `cache`, `clean` and list
commands, benchmark and timing data, the `generated/` directory; a directory is
removed in one step and no two writes have the same time, so that what happens within
one tick of the clock is not seen. `common/logging.rs`, time zone arithmetic and the macros have no
protocol.

What could come next: invariants of the straddles and of option buying, as `OrbProofs`
has one (`BelievesItsLegs` and `FlatIfIdsDiffer` first), and the commands `data`,
`cache` and `clean` of `bt` as further processes of `Workspace`.
