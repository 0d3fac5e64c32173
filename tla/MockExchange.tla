---------------------------- MODULE MockExchange ----------------------------
(***************************************************************************)
(* The simulated exchange of a backtest (backtest/mock-adapter.ts): one    *)
(* account, one symbol, market orders that fill at once and stop orders    *)
(* that wait for a candle.  Everything is a function of the account, the   *)
(* candles in the order the adapter was given them, and its clock.         *)
(***************************************************************************)
EXTENDS Integers, Sequences, FiniteSetsExt, Folds

CONSTANTS
  InitialBalance,
  SlippagePct,     \* in percent; prices are multiples of 100
  None             \* no position

Positions == [side : {"LONG", "SHORT"}, size : Nat \ {0}, locked : Int]

ASSUME ExchangeAssumption ==
  InitialBalance \in Nat /\ SlippagePct \in 0..99 /\ None \notin Positions

\* entryPrice * size is what lockedCost holds: a position keeps the product only.
NewAccount ==
  [total |-> InitialBalance, available |-> InitialBalance, position |-> None, orders |-> <<>>]

\* The last candle of the array that has opened by now.
GetCurrentCandle(candles, clock) == candles[Max({i \in DOMAIN candles : candles[i].at <= clock})]

ApplySlippage(price, side) ==
  (price * (IF side = "BUY" THEN 100 + SlippagePct ELSE 100 - SlippagePct)) \div 100

Profit(position, fill, size) ==
  LET cost == (position.locked * size) \div position.size IN
  IF position.side = "LONG" THEN fill * size - cost ELSE cost - fill * size

ClosePositionAtCost(a, fill, asked) ==           \* variant: what was locked is not released
  IF a.position = None THEN a ELSE
  [a EXCEPT !.available = @ + Profit(a.position, fill, a.position.size), !.total = a.available, !.position = None]

\* A full close equates total with available, a part leaves the rest locked.
ClosePosition(a, fill, asked) ==
  LET p == a.position
      size == IF asked > p.size THEN p.size ELSE asked
      released == (p.locked * size) \div p.size
      free == a.available + released + Profit(p, fill, size)
  IN  IF p = None THEN a
      ELSE IF size = p.size
      THEN [a EXCEPT !.available = free, !.total = free, !.position = None]
      ELSE [a EXCEPT !.available = free, !.total = free + p.locked - released,
                     !.position = [p EXCEPT !.size = @ - size, !.locked = @ - released]]

\* createOrder, market: an opposite position is given up at its cost.
Affordable(a, fill, size) == fill * size <= a.available
FillMarketEntry(a, side, size, fill) ==
  LET p == a.position  cost == fill * size  direction == IF side = "BUY" THEN "LONG" ELSE "SHORT" IN
  IF p # None /\ p.side = direction
  THEN [a EXCEPT !.available = @ - cost, !.position = [p EXCEPT !.size = @ + size, !.locked = @ + cost]]
  ELSE [a EXCEPT !.available = @ - cost + (IF p # None THEN p.locked ELSE 0),
                 !.position = [side |-> direction, size |-> size, locked |-> cost]]

RegisterPendingOrder(a, side, size, price) ==
  [a EXCEPT !.orders = Append(@, [side |-> side, size |-> size, trigger |-> price, status |-> "PENDING"])]

Triggered(o, c) ==
  o.status = "PENDING" /\ (IF o.side = "SELL" THEN c.low <= o.trigger ELSE c.high >= o.trigger)
StopFill(o) == ApplySlippage(o.trigger, o.side)
Fills(a, c) == {i \in DOMAIN a.orders : Triggered(a.orders[i], c)}

\* checkPendingOrders: every triggered stop closes what it can, in the order of its placing
\* (the fold applies the chosen one last).
CloseAll(a, fills) ==
  MapThenFoldSet(LAMBDA o, b : ClosePosition(b, StopFill(o), o.size), a, LAMBDA i : a.orders[i], Max, fills)
MarkFilled(orders, fills) ==
  [i \in DOMAIN orders |-> IF i \in fills THEN [orders[i] EXCEPT !.status = "FILLED"] ELSE orders[i]]
CheckPendingOrders(a, c) ==
  [CloseAll(a, Fills(a, c)) EXCEPT !.orders = MarkFilled(a.orders, Fills(a, c))]
=============================================================================
