------------------------------ MODULE Backtest ------------------------------
(***************************************************************************)
(* One backtest: the candles as backtest/cli.ts loads them, the replay of  *)
(* backtest/engine.ts, the strategy of backtest/strategy.ts on the         *)
(* simulated exchange, and the figures of backtest/metrics.ts.             *)
(*                                                                         *)
(* The signal gates are those of module Signals and may answer anything    *)
(* here.  A candle's callback is awaited before the next one, so a candle  *)
(* is one step.  Lengths of candles are scaled down; sizes are multiples   *)
(* of the smallest order.                                                  *)
(***************************************************************************)
EXTENDS MockExchange, Functions

CONSTANTS
  Horizon,          \* slots of history
  EndDate,          \* the last slot a candle may open at, inclusive
  Prices,           \* closing prices of a slot
  StopPrices, Sizes \* what the gates and calculateSize may ask for

Held == [direction : {"LONG", "SHORT"}, entry : Int, size : Nat \ {0}, opened : Nat]

ASSUME BacktestAssumption ==
  /\ Horizon \in Nat \ {0} /\ EndDate \in 0..(Horizon - 1)
  /\ Prices \subseteq Nat \ {0} /\ StopPrices \subseteq Int /\ Sizes \subseteq Nat
  /\ None \notin Held

Length(tf) == CASE tf = "1D" -> 8 [] tf = "1H" -> 4 [] tf = "5M" -> 2 [] tf = "1M" -> 1

VARIABLES
  candles,          \* what the adapter was given: the array loaded, in its order
  queue,            \* what the replay has left
  clock,            \* the adapter's currentTimestamp
  account,
  session,          \* the strategy's watchSession: its direction, or None
  position,         \* the strategy's own PositionState
  trades

btVars == <<candles, queue, clock, account, session, position, trades>>

-----------------------------------------------------------------------------
\* The price's path: the close of each slot, the open of the next.
CandleAt(path, tf, at) ==
  LET closes == {path[i] : i \in at..(at + Length(tf) - 1)} \cup {path[IF at = 0 THEN 0 ELSE at - 1]} IN
  [tf |-> tf, at |-> at, close |-> path[at + Length(tf) - 1], low |-> Min(closes), high |-> Max(closes)]

\* getCandles: those that opened by the end of the range and are closed, newest first.
GetCandles(path, tf) ==
  LET n == Min({EndDate, Horizon - Length(tf)}) \div Length(tf) + 1 IN
  [i \in 1..n |-> CandleAt(path, tf, (n - i) * Length(tf))]

\* loadCandlesFromDb: timeframe after timeframe.
LoadedCandles(path) ==
  GetCandles(path, "1D") \o GetCandles(path, "1H") \o GetCandles(path, "5M") \o GetCandles(path, "1M")

\* The order of the replay.
TimeframePriority(tf) == CASE tf = "1D" -> 0 [] tf = "1H" -> 1 [] tf = "5M" -> 2 [] tf = "1M" -> 3
Earlier(x, y) == x.at < y.at \/ (x.at = y.at /\ TimeframePriority(x.tf) < TimeframePriority(y.tf))
IsNext(c) == c \in queue /\ \A other \in queue \ {c} : Earlier(c, other)

-----------------------------------------------------------------------------
BacktestInit ==
  /\ candles = None /\ queue = {} /\ clock = 0 /\ account = NewAccount
  /\ session = None /\ position = None /\ trades = <<>>

\* loadCandlesFromDb, after a sync where the table was empty.
LoadCandles ==
  /\ candles = None /\ \E path \in [0..(Horizon - 1) -> Prices] : candles' = LoadedCandles(path)
  /\ queue' = Range(candles')
  /\ UNCHANGED <<clock, account, session, position, trades>>

Side(direction) == IF direction = "LONG" THEN "BUY" ELSE "SELL"
Opposite(side) == IF side = "BUY" THEN "SELL" ELSE "BUY"

TradeOf(p, fill, at) ==
  LET pnl == IF p.direction = "LONG" THEN (fill - p.entry) * p.size ELSE (p.entry - fill) * p.size IN
  [pnl |-> pnl, result |-> IF pnl >= 0 THEN "WIN" ELSE "LOSS", opened |-> p.opened, closed |-> at]

\* The stop is looked at first, on every candle: the account after it, and whether
\* the position is gone.  The first fill clears the strategy's position and makes the trade.
Checked(c) == IF position = None THEN account ELSE CheckPendingOrders(account, c)
Stopped(c) == position # None /\ Fills(account, c) # {}
Recorded(c) ==
  IF Stopped(c)
  THEN Append(trades, TradeOf(position, StopFill(account.orders[Min(Fills(account, c))]), c.at))
  ELSE trades

\* 1H: a session may be invalidated, and where there is none one may be detected.
WatchSession(c, held, watched) ==
  IF c.tf = "1H" /\ held = None THEN {watched, "LONG", "SHORT", None} ELSE {watched}

CapSize(asked, balance, price) ==
  LET cap == (balance * 95) \div (100 * price) IN IF asked > cap THEN cap ELSE asked

\* 5M and 1M: evidence and safety, size, market order, stop order.
Enters(c, held, watched) == c.tf \in {"5M", "1M"} /\ held = None /\ watched # None
Enter(c, a) ==
  \E direction \in {"LONG", "SHORT"}, stop \in StopPrices, asked \in Sizes :
    LET size == CapSize(asked, a.available, c.close)
        fill == ApplySlippage(GetCurrentCandle(candles, c.at).close, Side(direction))
    IN  /\ IF direction = "LONG" THEN stop <= c.low ELSE stop >= c.high
        /\ size >= 1 /\ Affordable(a, fill, size)
        /\ account' = RegisterPendingOrder(FillMarketEntry(a, Side(direction), size, fill),
                                           Opposite(Side(direction)), size, stop)
        /\ position' = [direction |-> direction, entry |-> fill, size |-> size, opened |-> c.at]

\* One callback.
OnCandleClose(c) ==
  LET held == IF Stopped(c) THEN None ELSE position
      watched == IF Stopped(c) THEN None ELSE session
  IN  /\ trades' = Recorded(c)
      /\ session' \in WatchSession(c, held, watched)
      /\ \/ account' = Checked(c) /\ position' = held
         \/ Enters(c, held, watched) /\ Enter(c, Checked(c))

\* run: candle after candle.
Replay ==
  \E c \in queue :
    /\ IsNext(c) /\ queue' = queue \ {c} /\ clock' = c.at
    /\ OnCandleClose(c) /\ UNCHANGED candles

BacktestDone == candles # None /\ queue = {}

-----------------------------------------------------------------------------
(***************************************************************************)
(* calcBasicMetrics: expectancy times the number of trades (the code       *)
(* divides and multiplies decimals), and the drawdown.                     *)
(***************************************************************************)
Won == {i \in DOMAIN trades : trades[i].result = "WIN"}
Magnitude(x) == IF x < 0 THEN -x ELSE x
Pnls == [i \in DOMAIN trades |-> trades[i].pnl]
TotalExpectancy ==
  SumFunctionOnSet(Pnls, Won)
    - SumFunctionOnSet([i \in DOMAIN trades |-> Magnitude(Pnls[i])], DOMAIN trades \ Won)

\* One turn of the loop over the trades, which carries these three, and the loop.
CurveStepSingle(s, pnl) ==                       \* variant: a fall is that of one trade
  [equity |-> s.equity + pnl, peak |-> s.equity, worst |-> IF pnl < s.worst THEN pnl ELSE s.worst]
CurveStep(s, pnl) ==
  LET equity == s.equity + pnl
      peak == IF equity > s.peak THEN equity ELSE s.peak
  IN  [equity |-> equity, peak |-> peak, worst |-> IF equity - peak < s.worst THEN equity - peak ELSE s.worst]

Curve[n \in 0..Len(trades)] ==
  IF n = 0 THEN [equity |-> 0, peak |-> 0, worst |-> 0] ELSE CurveStep(Curve[n - 1], Pnls[n])
MaxDrawdown == Curve[Len(trades)].worst

-----------------------------------------------------------------------------
\* The adapter's balances add up at every step, the strategy and the adapter agree on the
\* position, and the one stop that waits is of its size and its way out.
Pending == {i \in DOMAIN account.orders : account.orders[i].status = "PENDING"}
BooksBalance ==
  LET p == account.position IN
  /\ account.total = account.available + (IF p = None THEN 0 ELSE p.locked)
  /\ (p = None) = (position = None)
  /\ position = None => Pending = {}
  /\ position # None =>
       /\ p = [side |-> position.direction, size |-> position.size, locked |-> position.entry * position.size]
       /\ \E i \in Pending : Pending = {i} /\ account.orders[i].size = p.size
                              /\ account.orders[i].side = Opposite(Side(position.direction))

\* The report is about the account: expectancy times trades is what the balance has
\* gained, and the drawdown is the deepest fall between two moments of that gain.
Equity(n) == SumFunctionOnSet(Pnls, 1..n)
Falls == {Equity(x[2]) - Equity(x[1]) : x \in {y \in (0..Len(trades)) \X (0..Len(trades)) : y[1] <= y[2]}}
ReportTrue ==
  /\ TotalExpectancy = account.total - InitialBalance
  /\ MaxDrawdown = Min(Falls)

\* What mock-adapter.ts:76 promises: a market order fills at the current candle's close.
FillsAtClose ==
  [][position = None /\ position' # None
       => \E c \in queue \ queue' : position'.entry = ApplySlippage(c.close, Side(position'.direction))]_btVars
=============================================================================
