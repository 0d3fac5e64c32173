# combine-trade: a verification project

TLA+ models of the trading system in `src/`, the TLC runs that check them on
small instances, and TLAPS proofs of their main properties for every instance.
`PROJECT.json` lists components, runs, mutants, the map from definitions to
source lines, findings, hazards and theorems.

## 1. The system

combine-trade is a TypeScript (Bun) crypto futures trading system. One daemon
process watches candle closes over a websocket, detects set-ups, enters
positions on an exchange, protects them with stop orders, and keeps its own
record of them in PostgreSQL; an API/web process and a few scripts read and
change the same database and the same exchange account.

Every `await` in the daemon is a point where another handler may run: candle
callbacks are fired without being awaited, so the handlers of different candles
(and two handlers of one symbol) interleave statement by statement, and only a
row lock (`SELECT ... FOR UPDATE`) inside one transaction excludes the others.
The reconciliation worker runs beside them, the process may crash between any
two statements, and exchange requests may be refused, or processed while their
answers are lost.

| component (src/src/...) | state | operations | hard behaviour | what makes it correct | module |
|---|---|---|---|---|---|
| position store (`positions/ticket-manager.ts`, `fsm.ts`) | rows of `symbol_state`, `tickets` | createTicket, transitionTicket, closeTicket | row locks, rollbacks, crashes, recovery overwriting `fsm_state` | one root position per symbol; `fsm_state` and tickets agree; TP1/TP2/close lifecycle | TicketStore |
| pyramiding (`positions/pyramid.ts`) | `pyramid_count`, child tickets | canPyramid, executePyramid | an exchange order between the check and the insert, no lock | a parent's count never overstates its children | TicketStore |
| watch sessions (`signals/watching.ts`) | rows of `watch_session`, `fsm_state` | detectors, openWatchSession, checkInvalidation, invalidateWatchSession | several statements without a transaction; LONG and SHORT written twice | a session's writes never undo a position; a signal can be traded | TicketStore, Signals |
| order executor (`orders/executor.ts`, `slippage.ts`) | locals of one entry, exchange orders | executeEntry, attemptSlRegistration, emergencyClose | retries, lost answers, partial failure | one position per entry; a success is protected; an abort is flat | OrderExecutor |
| exchange adapters (`exchanges/base.ts`, `binance.ts`) | idempotency keys, token bucket | createOrder, withRetry | timeouts, retries of non-idempotent calls | a request is processed once per key | OrderExecutor |
| trading pipeline (`daemon/pipeline.ts`, `daemon.ts`) | in-memory mode, candle handlers | handleCandleClose, process1D, process1H, processEntry, processExits | concurrent handlers, stale reads across awaits | an entry has a ticket, or is closed in the end | Trading, Signals, Limits, Exits |
| reconciliation (`reconciliation/worker.ts`, `comparator.ts`) | snapshot of positions and tickets | runOnce, comparePositions, startReconciliation | reads at different times, failing exchanges | untracked positions are closed; a live ticket is not orphaned | Reconciliation |
| daemon lifecycle (`daemon/crash-recovery.ts`, `shutdown.ts`, `daemon.ts`, `src/scripts/kill-switch.ts`) | process phase, execution mode, stop orders, PENDING orders | startDaemon, recoverFromCrash, stop, gracefulShutdown, kill switch | crash between statements, fills during recovery, writes of two processes, awaits that hang | recovered state matches the exchange; a shutdown ends; the kill switch leaves nothing it saw | Lifecycle |
| candle feed (`exchanges/ws-manager.ts`, `candles/*`) | socket, reconnect timer, dedup set, `candles` rows | connect, handleCandle, recover, bulkUpsert | reconnects, duplicated and lost closes, gap recovery racing live data | each close is delivered once; a closed candle is final | WsConnection, CandleFeed |
| exits (`exits/checker.ts`, `manager.ts`, `trailing.ts`) | ticket state, remaining size, stop order | checkExit, processExit, processTrailing, moveSl | cancel-then-create, failing steps, results the caller drops | a stop protects what is left; a stage is taken once | Exits |
| signal gates (`signals/evidence-gate.ts`, `safety-gate.ts`, `filters/daily-direction.ts`, `knn/*`, `positions/sizer.ts`) | none (pure) | checkEvidence, checkSafety, determineDailyBias, makeDecision, calculateSize | boundaries, mirrored code, several thresholds | mirror symmetry; monotone decision; risk within its tier | Signals |
| loss limits (`limits/loss-limit.ts`) | counters in `symbol_state`, last resets | recordLoss, checkLossLimit, checkAccountDailyLimit, resets | two handlers making one reset, losses between its decision and its update | a reset takes back only what fell before or beside it; no entry beyond a limit otherwise | Limits |
| trade blocks (`filters/trade-block.ts`, `economic-calendar.ts`) | rows of `trade_block` | isTradeBlocked, daily calendar | windows over midnight, partial failure, fail-closed | no entry inside a window | Limits |
| config (`config/*`, `api/routes/config.ts`) | rows and cache of `common_code` | loadAllConfig, refreshConfig, updateConfig | refresh empties the cache across an await | a reader sees what is stored, or nothing | Config |
| transfer (`transfer/*`, `api/routes/transfers.ts`, `src/scripts/transfer-now.ts`) | timer, wallet | executeTransfer, TransferScheduler.start/stop/runOnce | retry of a non-idempotent call, stop during a run | the reserve stays; the chain lives until stopped | Transfer |
| backtest (`backtest/*`) | simulated account, strategy state, windows | MockExchangeAdapter, BacktestRunner, strategy, metrics, runWfo, runCli | position kept twice, order of time frames, quotients of losses | books balance; the report is the account's; the gate is honest | MockExchange, Backtest, Wfo, BacktestCli |
| labelling, vectors, indicators, other adapters, candle clean-up, API, web, notifications, database pool, core | - | - | - | - | not modelled (section 7) |

## 2. Modules and how they correspond to the code

```
PositionLifecycle <-- refined by -- TicketStore <-- EXTENDS -- Trading <--+-- Reconciliation
                                                                          +-- Lifecycle
OrderExecutor                                   its outcomes are Trading's EntryFill, EntryFails, EntryLost
Limits, Signals                                 the gates in front of an order, in that order
WsConnection <-- EXTENDS -- CandleFeed
Exits
Config <-- EXTENDS -- Transfer
MockExchange <-- EXTENDS -- Backtest <--+
                                Wfo  <--+-- BacktestCli
MC*: values for TLC (symmetry, targets, prices, dates)

proof module         about                              extends
TicketStoreProofs    TicketStore                        -
DaemonProofs         Reconciliation, Lifecycle          TicketStoreProofs
EntryProofs          Limits, Signals, OrderExecutor     SumTheorems
BacktestProofs       BacktestCli                        SumTheorems
CandleFeedProofs, ExitsProofs, TransferProofs           -
SumTheorems          the library's sums over finite sets
```

**TicketStore** is the database as the position code sees it: one `symbol_state`
row per symbol (`fsm`, `lock`), the `tickets` table (`state`, `symbol`, `parent`,
`pyramids`), the `watch_session` table (`session`, `watches`), and in `op` what
each concurrent handler is in the middle of. One action per operation or, where
an operation is several statements, per statement: createTicket is
`CreateBegin` (lock and checks) and `CreateCommit` or `CreateRollback`;
transitionTicket and closeTicket are one transaction and one step each;
executePyramid is `PyramidCheck` and, after the awaited order, `PyramidCommit` or
`PyramidAbort`; openWatchSession is `OpenInvalidate`, `OpenInsert`/`OpenFails`,
`OpenFsm`; invalidateWatchSession is `InvalidateMark`, `InvalidateFsm`. `Crash`
loses every handler and rolls its transaction back. `SetSymbolStateIdle` and
`SetFsmState` are the writes reconciliation and crash recovery ask for through
callbacks; `Recovery` names the symbols they may reach.
Prices, sizes and PnL are abstracted.

**PositionLifecycle** is the abstract specification: per symbol the set of
states of its root position, which is opened INITIAL, may go to TP1_HIT and
TP2_HIT in order, and is closed. `TicketStore!ImplementsLifecycle` is the
refinement.

**OrderExecutor** is one executeEntry: `pc` is the statement, `tries` and `taken`
belong to the adapter call under way (withRetry and its idempotency key), and
`position`, `stops` are the exchange. A call is `Answered`, its `AnswerLost`
after processing, or `Refused`. Prices become a passed or an exceeded check; the
timeout of the stop loss registration may expire after any failed attempt.

**Trading** interleaves process1H and processEntry over the store: `stage` is what
a handler has read and is about to do. The gates in front of the order (trade
blocks, limits, evidence, safety, KNN, mode) appear as handlers that never reach
it; they are the subject of Limits and Signals. executeEntry is one step with
the outcomes OrderExecutor allows. `ExchangeCloses` is any stop loss or exit;
`TicketCloses` stands for a caller of closeTicket, which `src/` lacks.

**Reconciliation** adds the worker: snapshot time, one fetch per exchange, the two
queries in any order, comparePositions, panic closes one by one, orphans one by
one, sleep. Handlers, stops and crashes run between any two of its steps. A
symbol has a position in one direction at a time (matching compares directions
too), and every symbol is on its own exchange, so that one exchange can fail.

**Lifecycle** adds, to Trading, the process around it. `phase` walks through
startDaemon (`Start`, `InitDb`, `LoadAllConfig`), recoverFromCrash (fetch per exchange,
the queries, matched positions with the check of their stop, its registration and
the restored fsm_state, unmatched positions closed, orphaned tickets, stale
sessions), the candles, and stop() with gracefulShutdown: sessions, PENDING
orders, the pool, and a timer that exits whatever hangs. Every step of recovery
has its failing outcome, with what the code does about it (an error counted, a
close swallowed, an exception out of startDaemon). Handlers are not awaited by a
shutdown, so they go on until the pool is closed. The kill switch (`kill`) runs
in its own process at any time: it fetches, closes, cancels and sets the mode
row, which the running daemon (`memory`) does not read again.

**WsConnection** is a connection of ws-manager.ts: its sockets, `ws`,
`intentionallyClosed`, `isConnected` and the reconnect timer. **CandleFeed** is one
stream over it: history sync, subscription, handleCandle with its cache of
closes and its unawaited upserts, the upsert's WHERE, gap detection and
recovery, and restarts. A candle is what the row will say of it: `open` (not
closed), `partial` (marked closed at an unfinished price), `final`. Gap detection
scans the stored bars exactly as the loop of detectGaps does, in bars instead
of milliseconds; the merging of adjacent gaps there can never apply and is left
out, and the download of archives that are missing (404) yields no bars.

**Exits** is one position from entry to flat: checkExit, processExit,
processTrailing and moveSl on the closes of 1M, 5M and 1H, with the stop orders
and the position on the exchange. Prices are profits, which makes LONG and
SHORT the same. processExit leaves the writing of the row to its caller, so two
callers are modelled: `contract`, who writes what it returns and handles one
candle after the other, and `pipeline`, which is what daemon/pipeline.ts does:
it writes nothing, passes no stop order id, and handles candles concurrently.

**Signals** is the data path of one symbol: the daily bias (process1D), the three
detectors and the invalidation of watch sessions (process1H), then evidence,
safety, bias, KNN decision and size (processEntry). The three handlers are not
awaited and interleave: the bias may be written at any time, and what the 1H
handler (`watching`) and the entry handler (`read`, `active`, by `stage`) have read
is kept while others write. One entry handler of the symbol is enough, since they
only read what is shared here; 1H handlers follow each other by an hour. Awaits
between which nothing shared is read are one step (the gates between the loads of
candles, say). `rewritten` is history: the bias was written since it was read. Each
gate is an operator with
the code's comparisons, LONG and SHORT written as they are written there; the
steps feed it every candle, band, neighbourhood and balance of the bounds. What
the pure ones compute is looked at for every input where no handler runs. Ratios
are compared by cross-multiplication. A neighbourhood is what the vector search
returned, as numbers of labels at ages.

**Limits** is what stands in front of that: `task` is a candle handler between its
reset of the counters, the trade block check and the two limit checks, each an
await; `row` and `last` are the columns and the pipeline's record of resets,
`oneTime` the economic blocks. resetAllExpired decides in `CandleCloses` and writes
in `ResetsLand`, or in part in `ResetsFail`, so that losses and other handlers' resets
fall in between. `known`, `real`, `settled`, `wiped` and a handler's `seen` are history:
the events a stored or made-up block stands for, and the losses of the day and hour
by the clock: all, those recorded when no reset was due or on its way, those a reset
has taken back, and all there were when the handler's candle closed.

**Config** is `common_code` and its cache under interleaving PUT requests (store,
clear, query, swap, each of which may fail). **Transfer** extends it with the
scheduler: `timer` is the handle's timer, `orphans` the timers a second start()
overwrote the handle of, `run` the runOnce or manual executeTransfer in each slot,
from reading the configuration over the balance and the retried transfer to its
log. The account is `wallet`, `margin`, `profit`.

**MockExchange** gives the simulated account as functions (market orders, stops
triggered by a candle, slippage, partial and full closes). **Backtest** loads the
candles as cli.ts does and replays them in the order of engine.ts's sort, by opening
and then by length: the next one is the least of what is left. One candle is one
step, because its callback is awaited. The module holds the strategy's own position
besides the account's, and the figures of metrics.ts. **Wfo** has the rolling
windows with JavaScript's overflow of dates (a February has 28 days), the two-stage
parameter search, the rows saved and the gate before updateConfig. **BacktestCli**
is the process around both modes, with or without a database.

## 3. Runs

| run | question | bounds |
|---|---|---|
| `ticket_store` | one root position per symbol, HAS_POSITION has a ticket, tables agree, fsm_state follows its map, pyramid counts, refinement of the lifecycle | 2 handlers, 2 symbols (recovery writes one of them), 3 tickets, 2 sessions, one add-on per parent, 1 crash |
| `executor` | one entry per two-step call, abort is flat, success is protected, it ends | 3 sends per request, 3 stop loss attempts (the code's own) |
| `reconcile` | no live ticket orphaned, an untracked position is closed in the end | 2 handlers, 1 symbol, 1 ticket, 1 session, 2 fills, 1 crash |
| `lifecycle` | recovery ends in agreement with the exchange, the kill switch leaves only what came late, a shutdown ends | 1 handler, 1 symbol, 1 ticket, 1 session, 2 crashes, 2 fills |
| `candle_feed` | closed rows stay, closes fire once, recoveries leave no hole, one socket, reconnects, closes | 4 bars, 2 upserts under way, 1 lost connection, 1 crash |
| `exits` | the row covers what the exchange holds, the 50/25/25 ladder and the stop at the entry after TP1, stop only rises, hold limit ends every position | 5 prices, 4 quarters, 2 faults, 3 stop orders |
| `signals` | mirror symmetry, signals can be traded and go against the bias only where it was written since it was read, better neighbours never hurt, risk bounded | prices 1..4, one value or two per indicator, at most 4 neighbours, balances 1..500, 2 leverage caps |
| `limits` | what resets can take back and what not, blocks hold for whoever passes, limits but for losses taken back | instants 0, 95, 105 (quarter hours), 2 symbols, 2 streams, 2 losses, 2 events |
| `transfer` | the chain lives until stopped, reserve and margin stay covered, the cache never falls behind | 2 runs, 2 requests, 2 PUTs, half days 0..2, 2 starts, 1 manual transfer, 1 trade, 2 attempts |
| `backtest` | books balance, the report is true, no window lost, the gate is honest | 8 slots of 2 prices, 3 stop prices, sizes 1 and 2; windows of 2/2/1 months over 3 ranges |
| `executor_no_stop`, `backtest_fill` | disagreements (section 6) | smaller or equal instances of the same modules |

Why these bounds: the hazards of the store are races of two handlers over one
row, so two handlers and one more ticket or session than they need (three
tickets: a parent, its child and a competitor) reach each of them; a second
symbol is there to see that the symbols do not mix and to have one recovery does
not write. A second crash repeats the first, since a crash forgets everything
but the tables. In `reconcile` two fills are needed: the second is the one whose
createTicket is refused. In `lifecycle` two crashes are: the first leaves half a
state, the second interrupts its recovery; the second fill is the one the kill
switch does not know of. One handler is enough there because start-up excludes
handlers, and the proofs cover any number.

In `candle_feed` a day is one
bar, so that a sync, yesterday's end, a hole and the bar in progress fit in four
bars; two pending upserts are the fewest that can land in the wrong order; the
cache holds one close and a close is repeated at most one bar late, the relation
`CacheAssumption` states for the real numbers (1000 entries shared by all
streams). In `exits` the prices lie below the stop, at the entry, at TP1, at TP2
and beyond; two faults are a failing edit and a failing cancel or create of the
same stop. Time outs, prices, sizes beyond four quarters and the identity of
symbols have no influence on a guard.

In `signals` four prices are enough for every order of open, close, wick and two
band edges; the balances lie below, in, at the end of and above the two risk
tiers; one leverage cap lies below the program's own of 38, one above. The instants
of `limits` lie at midnight inside a funding and an opening window, in the last slot of
the day inside the funding window of the next midnight, and in the next day outside
every window but within two hours of a three-star event, so that
days and hours change between them; two streams of one symbol race for its resets
while another symbol loses. In `transfer` two runs are a chained one and a
manual or orphaned one, two requests are the fewest that can overlap, and
the configurations differ in all fields. In `backtest` eight slots hold one
candle of each length from the day down, so that every timeframe meets the
others; the ranges include starts on the 30th and 31st and a leap-free February.

Deadlock is not checked where a model really stops: executeEntry returns, a
position is flat, a backtest is reported, and the identifiers, crashes, bars and
requests of the other models are used up. It is checked in `signals` and
`limits`.

Every property has a mutant (`PROJECT.json`), a plausible bug in a mapped
definition under which TLC finds the property violated; the variants stand next
to the definitions they replace. Type invariants are not kept as properties of
the runs: they are parts of the inductive invariants of section 5.

## 4. Fairness

* `executor`: `WF(Next)`. Every HTTP call is answered or runs into its timeout.
* `reconcile`: weak fairness of each handler once started and of the worker
  (event loop and timers run what is scheduled), strong fairness of a successful
  fetch and of a successful panic close: an exchange that is asked for ever
  answers in the end. Candles are not assumed to arrive, crashes are finitely
  many.
* `lifecycle`: weak fairness of `TimerExits`, the shutdown's 30 second timer, and
  of nothing else: each await of a shutdown may hang for ever.
* `candle_feed`: weak fairness of the reconnect timer and of the answer to a
  connection attempt or closing handshake (the operating system reports a
  timeout). Nothing is assumed of messages, queries or the clock.
* `exits`: time passes, 1M candles keep closing (a market trades every minute;
  the candle feed's own liveness is `Reconnects`), and a handler that began goes
  on. Failing calls are finitely many.
* `signals`, `limits`, `transfer` and `backtest` check safety only and assume none.

## 5. Proofs

All proofs are checked by TLAPS for every value of the constants that satisfies
the modules' named assumptions. The theorems a reader should know of:

* **TicketStoreProofs**: `StoreTypeOK`, `StoreOneActiveRoot`, `StorePositionHasTicket`,
  `StorePositionAgrees`, `StoreFsmFollowsMap`, `StorePyramidsCounted`,
  `StoreImplementsLifecycle`. `StorePositionHasTicket` and `StorePositionAgrees`
  assume that no caller asks transitionTicket for CLOSED (it would close a ticket
  and leave the symbol); `PositionAgrees` and `FsmFollowsMap` speak of the symbols
  recovery does not write, `PositionAgrees` of those that have not pyramided.
  `OneActiveRoot` is not inductive: a handler between createTicket's checks and its
  commit would break it. `IInv` adds `CreatorsHoldLock`: such a handler holds its
  symbol's row lock, the symbol is still WATCHING and has no active root.
  `Counted` strengthens `PyramidsCounted` with what an add-on under way carries,
  which is never more than the children stored; it rests on the cardinality of
  growing finite sets. The refinement needs one lemma per action: the steps that
  write tickets map to Open, HitTp1, HitTp2 or Close of one symbol, all others to
  a stutter.
* **DaemonProofs**, the worker: `ReconcileImplementsStore` (every step of the
  composition is a step of TicketStore or a stutter, so the store's theorems carry
  over), `ReconcileImplementsLifecycle`, `ReconcileOneActiveRoot`,
  `ReconcileOrphanWasFlat`. The last rests on `FlatWasFlat`: once an exchange was
  found flat, every ticket that existed at the snapshot had lost its position, and a
  ticket created since is `recent`.
* **DaemonProofs**, the daemon's life: `LifeImplementsStore`,
  `LifeImplementsLifecycle`, `LifeOneActiveRoot`, `LifeRecoveredAgrees`,
  `LifeKillLeavesLate`. `LifeInv` adds to the store's `IInv` that during start-up no
  handler is under way (`BootQuiet`) and that the tickets recovery has read are the
  active ones as long as it works (`Queried`); without these recovery's writes would
  not be the store's `SetFsmState` and `SetSymbolStateIdle`. `Progress` says, phase
  by phase, which of the symbols recovery has been through are settled; `KillTrue`
  bounds what is open by what the script has still to close and what came late.
* **EntryProofs**, the executor: `ExecutorPlacedOnce`, `ExecutorAbortedIsFlat`,
  `ExecutorSuccessIsProtected` (assuming `BracketCarriesSl`), `ExecutorWorkShrinks`.
  The invariant says for each statement how much is open and how much of it a stop
  covers, and ties the position to `taken`, whether the request in flight was
  processed. `Work` bounds the requests an entry may still send; it is positive
  before every step and lower after it.
* **CandleFeedProofs**: `FeedOneSocket` (inductive once the sockets are known to be
  a function: the timer is armed only without a live socket), `FeedClosedStays`
  (every action writes rows through `Upsert`), `FeedEachCloseOnce`: `CloseInv` says
  that a bar that fired is still cached or too old to be repeated, and a
  pigeonhole argument over the cache shows with `CacheAssumption` that what is
  evicted is too old; `FeedRecoveredNoHoles`: `HoleInv` says that every bar missing
  between two bars seen lies in a gap still to be fetched or in rows fetched.
* **ExitsProofs**: `ExitsStopRatchets`, `ExitsRowCovers`, `ExitsAtRest`. `RatchetInv`
  has one half per caller. Under the contract one candle is handled at a time on
  the row as it is, and every stop is at or below the row's trailing price or the
  target of the move under way; the pipeline never writes the row, so it never
  trails, and its only target is the entry. `CoverInv` adds that, while nothing has
  failed, a stop at the entry exists after TP1 or the move to it is under way;
  `LadderInv` that row and position differ by exactly the close under way.
  `ExitsRowCovers` needs no assumption on failures: a close moves the row on only
  after a good answer, so that a lost one leaves the row above the position.
* **TransferProofs**: `TransferCacheAgrees` (`Served`: outside overlapping requests
  the rows a request has read are the rows stored, and the cache is empty while
  it works), `TransferStopsQuietly`, `TransferKeepsRunning` (`Alive`, and arithmetic on
  the schedule for every instant), `TransferBufferKept` (`AccountKnown`: a run nothing
  has disturbed sees the account that the amount of any run about to send was
  computed on).
* **EntryProofs**, limits and blocks: `LimitsBlocksHold` (`KnownBlocked`: each event
  the calendar knew has its row or its day's; plus the equivalence of the wrapping
  comparisons with distances on the clock, for every instant), `LimitsCountersTrue`
  (per symbol: what the counters lack of all losses is what resets took back, and
  nothing is taken back of a settled column, since only a handler that has the reset
  still to make could), `LimitsLimitsHold` (what a handler under way has seen, less
  what was taken back since, is in the counters it reads; the account's limit needs
  the sum over the symbols to grow with each of its terms).
* **EntryProofs**, signals, for any grid of prices, bands and indicator values:
  `SignalsSignalSound` (with `SignalInv`, which adds the types and `Gated`: the bias the
  entry handler has read is the stored one unless that was written since, and what
  it holds has passed the gates on the bias it read), `SignalsSizeBounded` (nothing but
  the arithmetic of the floors and ceilings), `SignalsKnnMonotone` (sums over ages of
  neighbours, compared term by term), `SignalsMirrorFair` (one lemma per gate,
  `Flipped...`: reflecting prices about the grid swaps LONG and SHORT; the sums and
  cardinalities of the levels carry over along a bijection).
* **BacktestProofs**: `BacktestBooksBalance` and `BacktestReportTrue` from `BtInv`, the
  inductive invariant of the replay. While a position is held exactly one stop of
  its size is pending, so the first fill closes all of it, and what the account
  gains is what the trade records; the account's total is therefore the initial
  balance and the sum of the trades' profits (`Gain`). Expectancy is that sum split
  into wins and losses; the drawdown is followed through the loop over the trades
  (`CurveTrue`: the peak is the highest and the fall the deepest up to here).
  `BacktestWindowsComplete` rests on `Lands`: a date k months after the start has the
  start's day or has run over, by at most three days, into the month after, and
  stays there however the months are added, in one step or in several. It assumes
  `RollMonths < OosMonths`, as the code's 6, 2 and 1 have it; were both equal
  and the data started on a 31st, one window's last tested day could come before
  the first of the next, because the two have run over differently.
  `BacktestGateHonest`: if no window kept more than half of what it earned, each
  efficiency is at most half and so is their average; dividing by what a window
  earned is exact in parts of `Scale`.
* **SumTheorems**: how a sum over a finite set (`SumFunctionOnSet`, a fold whose order
  is a CHOOSE) behaves when an element is added, removed or changed, when terms are
  compared, negated, or renamed along a bijection, and when the set is split.

Sums, sequences and recursive functions are reasoned about without induction: a
set of counterexamples has a least element, among natural numbers or among the
subsets of a finite set, and the element before it gives the contradiction.

Only model-checked: liveness (`Terminates`, `UntrackedIsClosed`, `Reconnects`,
`ClosesDown`, `TimeExitCloses`, `ShutdownEnds`), since the prover has no reasoning
about ENABLED. The safety half of `Terminates` is `ExecutorWorkShrinks`: no
behaviour of executeEntry takes more than `(SlMaxRetries + 6) * MaxTries` steps.
Every invariant and every action property of the passing runs is stated by a
theorem.

## 6. Disagreements met

Shown by a run (quotes in `PROJECT.json`):

1. `executor_no_stop`: a bracket entry through the Binance adapter has no stop
   loss, since createOrder drops `params.stopLoss`; the executor records one.
2. `backtest_fill`: a market order of a backtest fills at the close of the oldest
   one-minute candle of the range, since the adapter takes the last element of an
   array that is loaded newest first.

Seen while modelling, and part of the models' behaviour, without a run of their
own. Positions and pipeline:

* When all answers of a bracket call are lost, the fallback sends a second entry
  under a new key (`executor.ts:461`; `anti-patterns.md:20` forbids it).
* An abort after a lost entry answer leaves the position without an emergency
  close; reconciliation is what ends it.
* The tickets of an exchange that failed to answer are taken for orphans
  (`worker.ts:174`; the header at `worker.ts:12` says otherwise). "Orphaned" only sets
  the symbol IDLE; the ticket stays active.
* A ticket committed between the worker's fetch and its query keeps its symbol
  out of the unmatched ones, one committed after the query does not: its
  position is panic closed.
* An entry may fill on a symbol that is not WATCHING (`pipeline.ts:981`; PRD:191).
* createTicket is given the vector's id as `signalId`, although `tickets.signal_id`
  references `signals`, and the pipeline never calls createSignal.
* The pyramid cap counts a copy of the parent read before the order: two add-ons
  may both pass (`pyramid.ts:283`); a child may be inserted after its parent was
  closed. closeTicket of a pyramid child sets the symbol IDLE under its open parent.
* A late invalidateWatchSession resets the symbol under a newer session.
* Crash recovery and reconciliation write fsm_state transitions the map forbids.
* The daemon drops what processExit returns, so TP1 repeats (`pipeline.ts:1094`;
  `manager.ts:273`, PRD:326), and only the exchange's reduce-only rule keeps the
  closes together from exceeding the position.
* A failing createOrder after a successful cancelOrder in moveSl leaves a
  position without a stop, and processTrailing reports `updated: true`.
* manager.ts:268 says TP2 closes a third of the rest; the code closes half, as
  the PRD's 25 % requires.

Daemon lifecycle:

* The kill switch exits 0 although a close failed (`kill-switch.ts:140`, `:258`;
  `executor.ts:238` swallows the error).
* recoverFromCrash "Never throws", but its queries are not caught; a failed
  emergency close of an unmatched position counts no error.
* shutdown does not await the handlers; getExecutionMode is never called, so a
  mode set while the daemon runs has no effect until the next start.

Candles:

* ARCHITECTURE.md:184 has gap recovery at startup; the code never runs it then,
  and sync ends with yesterday. A gap of up to three bars triggers no recovery.
* A REST candle of the bar in progress is stored as closed and the real close no
  longer changes it (`binance.ts:239`, `repository.ts:69`; T-04-006:35).

Signals and limits:

* process1D asks for two daily candles and drops one, so the bias is never
  written, and process1H opens no session while it is null.
* A NEUTRAL bias opens sessions in both directions which checkInvalidation ends
  an hour later; a BB4 touch that closes beyond BB20 is invalidated likewise.
* A squeeze breakout sets LONG's TP1 to the middle band, below the close, and TP2
  to the lower band; refreshWatchSessionTp uses the upper one.
* The amount at risk is not monotone in the balance between the two tiers.
* `sessionStartTime`, once set, resets the session's losses at every later candle
  (`pipeline.ts:331` says "on the next call"); a database error in isTradeBlocked
  counts as a block whose end starts a session, and so do funding windows.
* The calendar first runs at the next midnight, and an event shortly after
  midnight is not blocked before it (PRD:227 asks for 120 minutes).
* A loss recorded before the first reset of its hour or day, or while a handler has
  that reset still to make, is taken back by it, and entries may then pass the limit
  it had reached (`loss-limit.ts:388`). When one reset of several fails, the caller
  remembers none and the ones that landed are made again.
* processEntry reads the bias at `pipeline.ts:765` and orders at `:981` without looking
  at it again, so an entry may go against a bias process1D wrote in between.
* recordLoss, resetAllExpired, the daily calendar's scheduling, seedTradeBlocks and
  TransferScheduler have no caller in `src/`; computeEntrySize is only
  implemented in pipeline-adapter.ts.

Transfer and configuration:

* stop() during a run leaves the chain alive until stop() is called once more at rest
  (T-14-004:49 claims otherwise); a
  second start() leaves a timer stop() cannot reach.
* The day's profit is transferred again at each run of that day.
* TRANSFER_FAILED is logged for a transfer that moved money when the balance query
  or the log fails after it.
* A PUT whose refresh fails leaves no cache; two overlapping ones may leave an
  older cache.

Backtest:

* Longer candles are replayed at their open time with their final close
  (ARCHITECTURE.md:281 excludes look-ahead), and the 1M candles inside a 5M
  candle come after its close and may stop the position with earlier prices.
* getCandles' inclusive end puts the first out-of-sample candle into the
  in-sample range, which wfo.ts calls half-open; a start on the 29th to the 31st
  shifts the windows off the month boundaries.
* From the CLI the optimisation tunes nothing (no space, parameters ignored, no
  updateConfig). The best parameters are those of the window with the highest
  in-sample expectancy, though it may have lost out-of-sample.
* A trade of zero profit counts as a win; child rows get parent "" when the
  parent's insert failed; an opposite entry drops the old position's profit; the
  adapter's fetchOHLCV ignores the timeframe; makeAdapter ignores slippagePct.

## 7. Not modelled, and the plan

Not modelled, for good:

* the other exchange adapters (stubs that throw), and of binance.ts what no
  caller of the models uses; the token bucket delays calls and changes no outcome;
* vectors, indicators and normalisation (numeric, stateless: their results are
  the small sets `signals` chooses from);
* labelling (a pure classification inside closeTicket's transaction);
* candle clean-up (sequential deletes of old rows);
* API and web handlers other than the control, configuration and transfer routes,
  notifications, logging, the database pool;
* updateWatchSessionTp, updateTpPrices, MFE/MAE and close reasons (prices and
  statistics nothing modelled reads);
* `backtest/parallel.ts` and `backtest/pipeline-adapter.ts` (tests only), and of
  metrics.ts the ratios beyond count, wins, expectancy and drawdown.

Left for later, in this order:

1. `PositionAgrees` for pyramided symbols, once closeTicket distinguishes a child.
2. A composition of Exits with TicketStore, when the pipeline stores what
   processExit returns.
3. A second symbol in `lifecycle` and a second handler, which the proofs cover and
   TLC does not.
