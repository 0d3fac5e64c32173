------------------------------- MODULE Exits --------------------------------
(***************************************************************************)
(* The exits of one position: what a candle close does to it               *)
(* (daemon/pipeline.ts processExits, exits/checker.ts, exits/manager.ts,   *)
(* exits/trailing.ts), the stop orders it leaves on the exchange, and the  *)
(* exchange.                                                               *)
(*                                                                         *)
(* Prices are profits: how far the price lies from the entry in the        *)
(* position's favour.  In profits LONG and SHORT are alike (isTpHit,       *)
(* shouldUpdateTrailingSl, calculateTrailingSl turn every comparison and   *)
(* sign round for SHORT), the entry is 0 and profits are even numbers, so  *)
(* that half of one is exact.                                              *)
(*                                                                         *)
(* processExit leaves the database to its caller (manager.ts:272-273).     *)
(* There are two callers to look at: "contract" writes what processExit    *)
(* and processTrailing return, closes one candle after the other and       *)
(* passes the stop order's id; "pipeline" is the daemon's, which writes    *)
(* nothing, passes no id, and handles candles concurrently.                *)
(***************************************************************************)
EXTENDS Integers, FiniteSets

CONSTANTS Profits,    \* bound: the profits the price takes
          Sl,         \* the initial stop loss, a negative profit
          Tp1, Tp2,   \* tp1_price and tp2_price
          Size,       \* the ticket's size
          MaxHold,    \* TIME_EXIT_THRESHOLD, in steps of time
          SupportsEdit,  \* exchangeConfig.supports_edit_order
          Callers,    \* which callers are looked at
          MaxFaults,  \* bound: calls that fail
          MaxStops,   \* bound: stop orders ever created
          None        \* no stop order id

ASSUME ExitsAssumption ==
  /\ Profits \subseteq Int /\ {Sl, Tp1, Tp2} \subseteq Int
  /\ Sl < 0 /\ 0 < Tp1 /\ Tp1 <= Tp2
  /\ Size \in Nat /\ Size % 4 = 0
  /\ {MaxHold, MaxFaults, MaxStops} \subseteq Nat
  /\ Callers \subseteq {"contract", "pipeline"}
  /\ None \notin Nat /\ SupportsEdit \in BOOLEAN

VARIABLES caller,   \* who calls the exit manager
          ticket,   \* the row: state, remaining, trailing, maxProfit, slId ...
          pos,      \* the position on the exchange
          stops,    \* stop orders on the exchange: [id, at]
          nextId,   \* the id of the next stop order
          profit,   \* the last price, as a profit
          age,      \* how long the position has been held
          run,      \* per timeframe: the candle close being handled
          faults,   \* calls that failed
          tp1s,     \* history: TP1 closes that were filled
          stopped   \* history: a stop order closed the position

vars == <<caller, ticket, pos, stops, nextId, profit, age, run, faults, tp1s, stopped>>

Timeframes == {"1M", "5M", "1H"}
States == {"INITIAL", "TP1_HIT", "TP2_HIT", "CLOSED"}
Actions == {"TP1", "TP2", "TIME_EXIT", "NONE"}

\* What `trailing_price ?? entry_price` and `max_profit ?? 0` are at first.
NewTicket == [state |-> "INITIAL", remaining |-> Size, trailing |-> FALSE,
              trailingAt |-> 0, maxProfit |-> 0, slId |-> 0]

Idle == [pc |-> "idle", ticket |-> NewTicket, profit |-> 0, action |-> "NONE",
         target |-> 0, max |-> 0]

Busy(tf) == run[tf].pc # "idle"
Quiet == \A tf \in Timeframes : ~Busy(tf)

\* The entry has filled and its stop loss, order 0, is registered.
Init ==
  /\ caller \in Callers
  /\ ticket = NewTicket
  /\ pos = Size /\ stops = {[id |-> 0, at |-> Sl]} /\ nextId = 1
  /\ profit \in {p \in Profits : Sl < p /\ p < Tp1}
  /\ age = 0 /\ run = [tf \in Timeframes |-> Idle]
  /\ faults = 0 /\ tp1s = 0 /\ stopped = FALSE

-----------------------------------------------------------------------------
(* The decisions. *)

\* Mutant: after TP2 nothing is checked any more, the time limit included.
CheckExitTillTp2(t, p, tf) ==
  IF t.state \in {"CLOSED", "TP2_HIT"} THEN "NONE"
  ELSE IF age > MaxHold THEN "TIME_EXIT"
  ELSE IF tf = "5M" /\ t.state = "INITIAL" /\ p >= Tp1 THEN "TP1"
  ELSE IF tf = "5M" /\ t.state = "TP1_HIT" /\ p >= Tp2 THEN "TP2"
  ELSE "NONE"

\* checkExit: the time limit on every timeframe, the targets on 5M only.
CheckExit(t, p, tf) ==
  IF t.state = "CLOSED" THEN "NONE"
  ELSE IF age > MaxHold THEN "TIME_EXIT"
  ELSE IF tf = "5M" /\ t.state = "INITIAL" /\ p >= Tp1 THEN "TP1"
  ELSE IF tf = "5M" /\ t.state = "TP1_HIT" /\ p >= Tp2 THEN "TP2"
  ELSE "NONE"

\* Mutant: TP2 closes half of the whole size.
CalcCloseSizeOfAll(t, action) ==
  IF action \in {"TP1", "TP2"} THEN Size \div 2
  ELSE IF action = "TIME_EXIT" THEN t.remaining ELSE 0

\* calcCloseSize: half of the size, then half of what is left, then all.
CalcCloseSize(t, action) ==
  IF action = "TP1" THEN Size \div 2
  ELSE IF action = "TP2" THEN t.remaining \div 2
  ELSE IF action = "TIME_EXIT" THEN t.remaining ELSE 0

DecMax(a, b) == IF a > b THEN a ELSE b
CalcMaxProfit(p) == DecMax(0, p)
CalculateTrailingSl(max) == max \div 2

ShouldUpdateTrailingSl(current, new) == new > current

\* processTrailing until it moves the stop: what it would move it to.
NewMax(t, p) == DecMax(t.maxProfit, CalcMaxProfit(p))
Trails(t, p, tf) ==
  /\ tf = "1H" /\ t.trailing
  /\ ShouldUpdateTrailingSl(t.trailingAt, CalculateTrailingSl(NewMax(t, p)))

-----------------------------------------------------------------------------
(* A candle close of timeframe tf. *)

\* What is left to do after the exit check: the trailing stop, or nothing.
Proceed(tf, r) ==
  LET sl == [r EXCEPT !.action = "NONE", !.max = NewMax(r.ticket, r.profit),
                      !.target = CalculateTrailingSl(NewMax(r.ticket, r.profit))]
  IN  run' = [run EXCEPT ![tf] =
        IF ~Trails(r.ticket, r.profit, tf) THEN Idle
        ELSE IF sl.ticket.slId = None THEN [sl EXCEPT !.pc = "create"]
        ELSE [sl EXCEPT !.pc = "edit"]]

\* The ticket as the caller hands it to the exit manager.
Handed == IF caller = "pipeline" THEN [ticket EXCEPT !.slId = None] ELSE ticket

\* processExits reads the ticket and the candle's close.
Begin(tf) ==
  /\ ~Busy(tf) /\ ticket.state # "CLOSED"
  /\ caller = "contract" => Quiet
  /\ age <= MaxHold => nextId + Cardinality({t \in Timeframes : Busy(t)}) <= MaxStops
  /\ LET action == CheckExit(ticket, profit, tf)
         r == [Idle EXCEPT !.ticket = Handed, !.profit = profit, !.action = action]
     IN  IF action = "NONE" THEN Proceed(tf, r)
         ELSE run' = [run EXCEPT ![tf] = [r EXCEPT !.pc = "close"]]
  /\ UNCHANGED <<caller, ticket, pos, stops, nextId, profit, age, faults, tp1s, stopped>>

\* The database writes of a caller that keeps processExit's contract.
Write(t) == ticket' = IF caller = "contract" THEN t ELSE ticket

\* The exchange's: a reduce-only order never takes more than there is.
Reduced(size) == IF size > pos THEN 0 ELSE pos - size

Fault == faults < MaxFaults /\ faults' = faults + 1
NoFault == faults' = faults

\* The exchange fills the close order.
CloseFilled(tf) ==
  LET r == run[tf]
      size == CalcCloseSize(r.ticket, r.action)
  IN  /\ pos > 0
      /\ pos' = Reduced(size)
      /\ tp1s' = IF r.action = "TP1" THEN tp1s + 1 ELSE tp1s

\* What follows a filled TP1: the stop moves to the entry.
ToBreakeven(r) ==
  [r EXCEPT !.pc = IF r.ticket.slId = None THEN "create" ELSE "edit", !.target = 0]

\* Mutant: TP2 moves the stop to the entry as well.
MovesStopAtTp2(action) == action \in {"TP1", "TP2"}

MovesStop(action) == action = "TP1"

\* actionTypeToNewState.
NewState(action) == [TP1 |-> "TP1_HIT", TP2 |-> "TP2_HIT", TIME_EXIT |-> "CLOSED"][action]

\* The row after a successful exit, as ticketUpdates and newState say.
Exited(r) == [ticket EXCEPT
  !.state = NewState(r.action),
  !.remaining = r.ticket.remaining - CalcCloseSize(r.ticket, r.action)]

\* processExit: the close order is answered.
CloseAnswered(tf) ==
  LET r == run[tf]
  IN  /\ r.pc = "close"
      /\ CloseFilled(tf) /\ NoFault
      /\ IF MovesStop(r.action)
         THEN run' = [run EXCEPT ![tf] = ToBreakeven(r)] /\ UNCHANGED ticket
         ELSE Write(Exited(r)) /\ Proceed(tf, r)
      /\ UNCHANGED <<caller, stops, nextId, profit, age, stopped>>

\* Mutant: the row is moved on though the close order got no good answer.
CloseFailsRecorded(tf) ==
  /\ run[tf].pc = "close"
  /\ \/ Fault /\ UNCHANGED <<pos, tp1s>>
     \/ Fault /\ CloseFilled(tf)
     \/ pos = 0 /\ NoFault /\ UNCHANGED <<pos, tp1s>>
  /\ Write(Exited(run[tf])) /\ Proceed(tf, run[tf])
  /\ UNCHANGED <<caller, stops, nextId, profit, age, stopped>>

\* The close order fails, was filled though the answer got lost, or there is
\* nothing left to reduce: processExit reports no success.
CloseFails(tf) ==
  /\ run[tf].pc = "close"
  /\ \/ Fault /\ UNCHANGED <<pos, tp1s>>
     \/ Fault /\ CloseFilled(tf)
     \/ pos = 0 /\ NoFault /\ UNCHANGED <<pos, tp1s>>
  /\ Proceed(tf, run[tf])
  /\ UNCHANGED <<caller, ticket, stops, nextId, profit, age, stopped>>

-----------------------------------------------------------------------------
(* moveSl. *)

\* moveSl returns: id is the new stop order's, or None.  After TP1 the row is
\* moved on; after a trailing step it keeps the new stop and profit, even
\* when there is no order (processTrailing's `updated: true`).
Moved(tf, id) ==
  LET r == run[tf]
      slId == IF id = None THEN ticket.slId ELSE id
  IN  IF r.action # "NONE"
      THEN /\ Write([Exited(r) EXCEPT !.trailing = TRUE, !.slId = slId])
           /\ Proceed(tf, r)
      ELSE /\ Write([ticket EXCEPT !.trailingAt = r.target, !.maxProfit = r.max,
                                   !.slId = slId])
           /\ run' = [run EXCEPT ![tf] = Idle]

Goto(tf, pc) == run' = [run EXCEPT ![tf].pc = pc] /\ UNCHANGED ticket

Known(tf) == {s \in stops : s.id = run[tf].ticket.slId}
Edited(tf) == (stops \ Known(tf)) \cup {[s EXCEPT !.at = run[tf].target] : s \in Known(tf)}

\* editOrder: where it is not supported, or fails, the stop is cancelled and
\* created anew.
EditSl(tf) ==
  /\ run[tf].pc = "edit"
  /\ \/ /\ SupportsEdit /\ Known(tf) # {} /\ NoFault
        /\ stops' = Edited(tf) /\ Moved(tf, run[tf].ticket.slId)
     \/ /\ ~SupportsEdit \/ Known(tf) = {}
        /\ NoFault /\ UNCHANGED stops /\ Goto(tf, "cancel")
     \/ /\ SupportsEdit /\ Fault
        /\ stops' \in {stops, Edited(tf)} /\ Goto(tf, "cancel")
  /\ UNCHANGED <<caller, pos, nextId, profit, age, tp1s, stopped>>

\* cancelOrder: a failure is logged, and the new stop created all the same.
CancelSl(tf) ==
  /\ run[tf].pc = "cancel"
  /\ \/ NoFault /\ stops' = stops \ Known(tf)
     \/ Fault /\ UNCHANGED stops
  /\ Goto(tf, "create")
  /\ UNCHANGED <<caller, pos, nextId, profit, age, tp1s, stopped>>

\* createOrder of the new stop: it may fail, or succeed without an answer; a
\* reduce-only order without a position is refused.
CreateSl(tf) ==
  /\ run[tf].pc = "create"
  /\ \/ /\ pos > 0 /\ stops' = stops \cup {[id |-> nextId, at |-> run[tf].target]}
        /\ nextId' = nextId + 1
        /\ \/ NoFault /\ Moved(tf, nextId)
           \/ Fault /\ Moved(tf, None)
     \/ /\ (pos = 0 /\ NoFault) \/ Fault
        /\ Moved(tf, None) /\ UNCHANGED <<stops, nextId>>
  /\ UNCHANGED <<caller, pos, profit, age, tp1s, stopped>>

MoveSl(tf) == EditSl(tf) \/ CancelSl(tf) \/ CreateSl(tf)
Handle(tf) == CloseAnswered(tf) \/ CloseFails(tf) \/ MoveSl(tf)

-----------------------------------------------------------------------------
(* The market. *)

PriceMoves ==
  /\ profit' \in Profits \ {profit}
  /\ UNCHANGED <<caller, ticket, pos, stops, nextId, age, run, faults, tp1s, stopped>>

\* A stop order triggers and closes what is left of the position.
StopTriggers ==
  /\ pos > 0
  /\ \E s \in stops : profit <= s.at /\ stops' = stops \ {s}
  /\ pos' = 0 /\ stopped' = TRUE
  /\ UNCHANGED <<caller, ticket, nextId, profit, age, run, faults, tp1s>>

TimePasses ==
  /\ age <= MaxHold
  /\ age' = age + 1
  /\ UNCHANGED <<caller, ticket, pos, stops, nextId, profit, run, faults, tp1s, stopped>>

Next ==
  \/ \E tf \in Timeframes : Begin(tf) \/ Handle(tf)
  \/ PriceMoves \/ StopTriggers \/ TimePasses

\* Fairness: time passes, a handler that began goes on (every call of the
\* exchange is answered or times out), and 1M candles keep closing.
Fairness ==
  /\ WF_vars(TimePasses)
  /\ WF_vars(Begin("1M"))
  /\ \A tf \in Timeframes : WF_vars(Handle(tf))

Spec == Init /\ [][Next]_vars
FairSpec == Spec /\ Fairness

-----------------------------------------------------------------------------
(***************************************************************************)
(* Whatever closes fail or lose their answer, in whatever order candles    *)
(* are handled, and for both callers: the row never says less than the     *)
(* exchange holds, a row is closed only when the position is gone, and the *)
(* close of a TIME_EXIT, however old the row it was computed from, takes   *)
(* all that is left (manager.ts calcCloseSize from remaining_size, the row *)
(* moved on only after a good answer).  Too much may be asked for: that    *)
(* is cut by the exchange, the order being reduce-only.                    *)
(***************************************************************************)
RowCovers ==
  /\ pos <= ticket.remaining
  /\ ticket.state = "CLOSED" => pos = 0
  /\ \A tf \in Timeframes :
       run[tf].pc = "close" /\ run[tf].action = "TIME_EXIT" => pos <= run[tf].ticket.remaining

(***************************************************************************)
(* Whatever fails, a stop order is only ever placed, or moved, above every *)
(* stop the position has: to the entry at TP1 and upwards by trailing      *)
(* (manager.ts moveSl, trailing.ts shouldUpdateTrailingSl, PRD 7.13).      *)
(***************************************************************************)
StopRatchets == [][\A s \in stops' \ stops, o \in stops : s.at >= o.at]_vars

(***************************************************************************)
(* Whenever no candle is being handled and no request has failed: for a    *)
(* caller that keeps the contract, the row, the exchange and PRD 7.13      *)
(* agree on the size (all of the position, half of it after TP1, a quarter *)
(* after TP2, none when closed); and for both callers, what is left after  *)
(* TP1 can no longer lose, a stop stands at the entry or above it.         *)
(***************************************************************************)
Ladder(state) ==
  [INITIAL |-> Size, TP1_HIT |-> Size \div 2, TP2_HIT |-> Size \div 4, CLOSED |-> 0][state]

AtRest ==
  Quiet /\ faults = 0 =>
    /\ caller = "contract" /\ ~stopped => pos = ticket.remaining /\ pos = Ladder(ticket.state)
    /\ tp1s > 0 /\ pos > 0 => \E s \in stops : s.at >= 0

(***************************************************************************)
(* No position outlives the hold limit for ever: for both callers, and     *)
(* after failing and unanswered close orders, it is flat in the end        *)
(* (checker.ts TIME_EXIT on every timeframe).                              *)
(***************************************************************************)
TimeExitCloses == (age > MaxHold) ~> (pos = 0)
=============================================================================
