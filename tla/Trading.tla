------------------------------ MODULE Trading ------------------------------
(***************************************************************************)
(* The live pipeline of daemon/pipeline.ts over the ticket store and the   *)
(* exchange: the 1H handler that opens and invalidates watch sessions, the *)
(* 5M/1M handler that enters a position and then stores its ticket.        *)
(*                                                                         *)
(* handleCandleClose is not awaited, so handlers interleave at each of     *)
(* their awaits.  A gate that may return early (trade block, loss limits,  *)
(* evidence, safety, KNN, mode) is a handler that never reaches the order, *)
(* and is not represented.  executeEntry is one step, with the outcomes    *)
(* OrderExecutor allows.                                                   *)
(***************************************************************************)
EXTENDS TicketStore

CONSTANT MaxFills    \* bound on the number of entry orders explored

ASSUME FillsAssumption == MaxFills \in Nat

VARIABLES
  stage,   \* what each handler has read and is about to do
  units,   \* units of size open on the exchange, per symbol
  fills    \* entry orders filled so far

tradingVars == <<stage, units, fills>>
storeVars == vars

At(a, s, w) == [at |-> a, symbol |-> s, session |-> w]
AtRest == At("rest", NoSymbol, NoSession)
Stages == [at : {"rest", "entry", "ordered", "hour"},
           symbol : Symbols \cup {NoSymbol}, session : Sessions \cup {NoSession}]

Free(p) == stage[p] = AtRest /\ op[p] = Ready
Leave(p) == stage' = [stage EXCEPT ![p] = AtRest]

\* A handler is between its entry order and the commit of its ticket.
Entering(s) ==
  \E p \in Procs : \/ stage[p].at \in {"entry", "ordered"} /\ stage[p].symbol = s
                   \/ op[p].pc = "create" /\ op[p].symbol = s

-----------------------------------------------------------------------------
TradingInit ==
  /\ Init
  /\ stage = [p \in Procs |-> AtRest]
  /\ units = [s \in Symbols |-> 0]
  /\ fills = 0

(***************************************************************************)
(* processEntry.  It requires an active watch session and looks at neither *)
(* fsm_state nor the active ticket before it orders.                       *)
(***************************************************************************)
EntryStart(p, s) ==
  /\ Free(p)
  /\ ActiveSessions(s) # {}
  /\ stage' = [stage EXCEPT ![p] = At("entry", s, NoSession)]
  /\ UNCHANGED <<storeVars, units, fills>>

Fill(s) ==
  /\ fills < MaxFills
  /\ fills' = fills + 1
  /\ units' = [units EXCEPT ![s] = @ + 1]

EntryFill(p) ==
  /\ stage[p].at = "entry"
  /\ Fill(stage[p].symbol)
  /\ stage' = [stage EXCEPT ![p].at = "ordered"]
  /\ UNCHANGED storeVars

\* executeEntry does not succeed, and leaves nothing open.
EntryFails(p) ==
  /\ stage[p].at = "entry"
  /\ Leave(p)
  /\ UNCHANGED <<storeVars, units, fills>>

\* It does not succeed and leaves a position: its order or its close was lost.
EntryLost(p) ==
  /\ stage[p].at = "entry"
  /\ Fill(stage[p].symbol)
  /\ Leave(p)
  /\ UNCHANGED storeVars

EntryCreate(p) ==
  /\ stage[p].at = "ordered"
  /\ CreateBegin(p, stage[p].symbol)
  /\ Leave(p)
  /\ UNCHANGED <<units, fills>>

\* createTicket throws InvalidStateError or DuplicateTicketError.
EntryRefused(p) ==
  /\ stage[p].at = "ordered"
  /\ Unlocked(stage[p].symbol) /\ ~MayCreate(stage[p].symbol)
  /\ Leave(p)
  /\ UNCHANGED <<storeVars, units, fills>>

(***************************************************************************)
(* process1H: it reads the active session, then acts on what it read.      *)
(***************************************************************************)
HourRead(p, s) ==
  /\ Free(p)
  /\ \/ \E w \in ActiveSessions(s) : stage' = [stage EXCEPT ![p] = At("hour", s, w)]
     \/ ActiveSessions(s) = {} /\ stage' = [stage EXCEPT ![p] = At("hour", s, NoSession)]
  /\ UNCHANGED <<storeVars, units, fills>>

HourOpen(p) ==
  /\ stage[p].at = "hour" /\ stage[p].session = NoSession
  /\ OpenInvalidate(p, stage[p].symbol)
  /\ Leave(p)
  /\ UNCHANGED <<units, fills>>

HourInvalidate(p) ==
  /\ stage[p].at = "hour" /\ stage[p].session # NoSession
  /\ InvalidateMark(p, stage[p].session)
  /\ Leave(p)
  /\ UNCHANGED <<units, fills>>

\* Nothing detected, or the session stays (its take-profit prices refreshed).
HourKeep(p) ==
  /\ stage[p].at = "hour"
  /\ Leave(p)
  /\ UNCHANGED <<storeVars, units, fills>>

\* A stop loss or a reduce-only exit order fills on the exchange.
ExchangeCloses(s) ==
  /\ units[s] > 0
  /\ units' = [units EXCEPT ![s] = @ - 1]
  /\ UNCHANGED <<storeVars, stage, fills>>

\* Whoever closes a ticket does it once the position is gone (no caller in src/).
TicketCloses(t) ==
  /\ state[t] \in ActiveStates /\ units[symbol[t]] = 0
  /\ CloseTicket(t)
  /\ UNCHANGED tradingVars

TradingCrash ==
  /\ Crash
  /\ stage' = [p \in Procs |-> AtRest]
  /\ UNCHANGED <<units, fills>>

\* The rest of an operation of the store that a handler has begun.
Continue(p) ==
  \/ \E t \in Tickets : CreateCommit(p, t)
  \/ CreateRollback(p)
  \/ \E w \in Sessions : OpenInsert(p, w)
  \/ OpenFails(p)
  \/ OpenFsm(p)
  \/ InvalidateFsm(p)

Handler(p) ==
  \/ EntryFill(p) \/ EntryFails(p) \/ EntryLost(p)
  \/ EntryCreate(p) \/ EntryRefused(p)
  \/ HourOpen(p) \/ HourInvalidate(p) \/ HourKeep(p)
  \/ Continue(p) /\ UNCHANGED tradingVars

Candle(p) == \E s \in Symbols : EntryStart(p, s) \/ HourRead(p, s)

TradingStep ==
  \/ \E p \in Procs : Handler(p) \/ Candle(p)
  \/ \E s \in Symbols : ExchangeCloses(s)
  \/ \E t \in Tickets : TicketCloses(t)

TradingSpec == TradingInit /\ [][TradingStep \/ TradingCrash]_<<vars, tradingVars>>
=============================================================================
