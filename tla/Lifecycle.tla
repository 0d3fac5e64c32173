----------------------------- MODULE Lifecycle -----------------------------
(***************************************************************************)
(* The life of the daemon around the pipeline: startDaemon of daemon.ts,   *)
(* recoverFromCrash, gracefulShutdown, a crash at any moment, and beside   *)
(* it, in a process of its own, scripts/kill-switch.ts.                    *)
(*                                                                         *)
(* Nothing but the start-up runs before the candle callback is registered, *)
(* so recovery's writes meet no handler; the exchange fills stop orders    *)
(* all the same, and the kill switch works on the same account.  Handlers  *)
(* are not awaited by a shutdown: they run on into the closed pool.  Each  *)
(* element of Symbols is on an exchange of its own.                        *)
(***************************************************************************)
EXTENDS Trading

CONSTANT PendingRows   \* symbols that may have an order row PENDING; no code in src/ writes any

ASSUME PendingAssumption == PendingRows \subseteq Symbols
VARIABLES
  phase,   \* where startDaemon or stop() is; "down" where no process runs
  todo,    \* of the loop the phase is in: symbols, tickets or sessions left
  cur,     \* the matched symbol at work
  snap,    \* what recovery knows: sizes seen, tickets read
  erred,   \* symbols for which recovery counted an error
  missed,  \* history: symbols whose emergency close failed in recovery
  memory,  \* execution mode the daemon was started with (activeSymbols)
  mode,    \* symbol_state.execution_mode
  stops,   \* is there a stop order on the exchange?
  orders,  \* per symbol its PENDING row: "none", or its order "open" or "cancelled"
  kill,    \* the kill switch script
  late     \* history: fills since the kill switch fetched the symbol's position

recoveryVars == <<todo, cur, snap, erred, missed>>
controlVars == <<memory, mode, orders>>
killVars == <<kill, late>>
daemonVars == <<phase, recoveryVars, memory>>
lifeVars == <<vars, tradingVars, phase, recoveryVars, controlVars, stops, killVars>>

Booting == {"initDb", "config", "fetch", "query", "matched", "check", "register", "restore",
            "unmatched", "orphaned", "sessions", "candles"}
Stopping == {"stopping", "cancel", "pool"}
Phases == Booting \cup Stopping \cup {"down", "running", "closed"}

NoSnap == [seen |-> [s \in Symbols |-> 0], tickets |-> {}]
NoKill == [at |-> "idle", left |-> {}, cur |-> NoSymbol, size |-> 0, failed |-> {}, missed |-> {}]

LifeInit ==
  /\ TradingInit
  /\ phase = "down" /\ todo = {} /\ cur = NoSymbol /\ snap = NoSnap
  /\ erred = {} /\ missed = {}
  /\ memory = "analysis" /\ mode = "analysis"
  /\ stops = [s \in Symbols |-> FALSE]
  /\ \E rows \in SUBSET PendingRows :
        orders = [s \in Symbols |-> IF s \in rows THEN "open" ELSE "none"]
  /\ kill = NoKill /\ late = [s \in Symbols |-> 0]

Pending == {s \in Symbols : orders[s] # "none"}        \* no cancellation updates its row
Goto(from, to) == phase = from /\ phase' = to
Quiet == UNCHANGED <<vars, tradingVars, stops>>        \* tables and exchange stay
Idle == \A p \in Procs : Free(p)

-----------------------------------------------------------------------------
(***************************************************************************)
(* startDaemon: initDb, loadAllConfig and candleManager.start may throw,   *)
(* and startDaemon with them.  The active symbols, with their execution    *)
(* mode, are handed over once.                                             *)
(***************************************************************************)
Start ==
  /\ Goto("down", "initDb") /\ Idle
  /\ memory' = mode
  /\ UNCHANGED <<recoveryVars, mode, orders>> /\ Quiet

InitDb == Goto("initDb", "config") /\ UNCHANGED <<recoveryVars, controlVars>> /\ Quiet

LoadAllConfig ==
  /\ Goto("config", "fetch") /\ todo' = Symbols
  /\ UNCHANGED <<cur, snap, erred, missed, controlVars>> /\ Quiet

Forget == todo' = {} /\ cur' = NoSymbol /\ snap' = NoSnap /\ erred' = {} /\ missed' = {}

BootFails ==
  /\ phase \in {"initDb", "config", "query", "candles"} /\ phase' = "down"
  /\ Forget
  /\ UNCHANGED controlVars /\ Quiet

(***************************************************************************)
(* recoverFromCrash: all exchanges are fetched, a failing one contributes  *)
(* nothing; then the queries, which nothing catches (BootFails).           *)
(***************************************************************************)
FetchPositions(s) ==
  /\ phase = "fetch" /\ s \in todo /\ todo' = todo \ {s}
  /\ snap' = [snap EXCEPT !.seen[s] = units[s]]
  /\ UNCHANGED <<phase, cur, erred, missed, controlVars>> /\ Quiet

FetchThrows(s) ==
  /\ phase = "fetch" /\ s \in todo /\ todo' = todo \ {s}
  /\ erred' = erred \cup {s}
  /\ UNCHANGED <<phase, cur, snap, missed, controlVars>> /\ Quiet

Fetched ==
  /\ Goto("fetch", "query") /\ todo = {}
  /\ UNCHANGED <<recoveryVars, controlVars>> /\ Quiet

\* comparePositions; every ticket is older than the start of recovery.
Ticketed(s) == \E t \in snap.tickets : symbol[t] = s
Matched == {s \in Symbols : snap.seen[s] > 0 /\ Ticketed(s)}
Unmatched == {s \in Symbols : snap.seen[s] > 0 /\ ~Ticketed(s) /\ s \notin Pending}
Orphaned == {t \in snap.tickets : snap.seen[symbol[t]] = 0}

Query ==
  /\ Goto("query", "matched") /\ Quiet
  /\ snap' = [snap EXCEPT !.tickets = {t \in Tickets : state[t] \in ActiveStates}]
  /\ todo' = Matched'
  /\ UNCHANGED <<cur, erred, missed, controlVars>>

\* A matched position: its stop order is looked up, registered again where it
\* is missing, and fsm_state restored whatever came of that.
TakeMatched(s) ==
  /\ Goto("matched", "check") /\ s \in todo
  /\ todo' = todo \ {s} /\ cur' = s
  /\ UNCHANGED <<snap, erred, missed, controlVars>> /\ Quiet

CheckSl ==
  /\ phase = "check" /\ phase' = IF stops[cur] THEN "restore" ELSE "register"
  /\ UNCHANGED <<recoveryVars, controlVars>> /\ Quiet

ReRegisterSl ==
  /\ Goto("register", "restore")
  /\ stops' = [stops EXCEPT ![cur] = TRUE]
  /\ UNCHANGED <<vars, tradingVars, recoveryVars, controlVars>>

SlThrows ==
  /\ phase \in {"check", "register"} /\ phase' = "restore"
  /\ erred' = erred \cup {cur}
  /\ UNCHANGED <<todo, cur, snap, missed, controlVars>> /\ Quiet

SetHasPosition ==
  /\ Goto("restore", "matched")
  /\ SetFsmState(cur)
  /\ UNCHANGED <<tradingVars, stops, recoveryVars, controlVars>>

SetFsmThrows ==
  /\ Goto("restore", "matched")
  /\ erred' = erred \cup {cur}
  /\ UNCHANGED <<todo, cur, snap, missed, controlVars>> /\ Quiet

MatchedDone ==
  /\ Goto("matched", "unmatched") /\ todo = {}
  /\ todo' = Unmatched
  /\ UNCHANGED <<cur, snap, erred, missed, controlVars>> /\ Quiet

\* emergencyClose, reduce-only, of the size that was seen.  It reports a failure
\* in the order it returns and does not throw: nobody counts an error.
ReduceOnly(s, n) == units' = [units EXCEPT ![s] = IF @ > n THEN @ - n ELSE 0]

ClosesUnmatched(s) ==
  /\ phase = "unmatched" /\ s \in todo /\ todo' = todo \ {s}
  /\ ReduceOnly(s, snap.seen[s])
  /\ UNCHANGED <<vars, stage, fills, stops, phase, cur, snap, erred, missed, controlVars>>

FailsUnmatched(s) ==
  /\ phase = "unmatched" /\ s \in todo /\ todo' = todo \ {s}
  /\ missed' = missed \cup {s}
  /\ UNCHANGED <<phase, cur, snap, erred, controlVars>> /\ Quiet

UnmatchedDone ==
  /\ Goto("unmatched", "orphaned") /\ todo = {}
  /\ todo' = Orphaned
  /\ UNCHANGED <<cur, snap, erred, missed, controlVars>> /\ Quiet

OrphanIdle(t) ==
  /\ phase = "orphaned" /\ t \in todo /\ todo' = todo \ {t}
  /\ SetSymbolStateIdle(symbol[t])
  /\ UNCHANGED <<tradingVars, stops, phase, cur, snap, erred, missed, controlVars>>

OrphanThrows(t) ==
  /\ phase = "orphaned" /\ t \in todo /\ todo' = todo \ {t}
  /\ erred' = erred \cup {symbol[t]}
  /\ UNCHANGED <<phase, cur, snap, missed, controlVars>> /\ Quiet

\* Loss counters are restored; then the watch sessions are gone through (none if
\* their query throws).
OrphansDone ==
  /\ Goto("orphaned", "sessions") /\ todo = {}
  /\ todo' \in {{}, {w \in Sessions : session[w] = "active"}}
  /\ UNCHANGED <<cur, snap, erred, missed, controlVars>> /\ Quiet

\* Its direction fits the daily bias and it is younger than a day, or invalidating it throws.
KeepSession(w) ==
  /\ phase = "sessions" /\ w \in todo /\ Idle /\ todo' = todo \ {w}
  /\ UNCHANGED <<phase, cur, snap, erred, missed, controlVars>> /\ Quiet

InvalidateSession(p, w) ==
  /\ phase = "sessions" /\ w \in todo /\ Idle /\ todo' = todo \ {w}
  /\ InvalidateMark(p, w)
  /\ UNCHANGED <<tradingVars, stops, phase, cur, snap, erred, missed, controlVars>>

SessionFsm(p) ==
  /\ phase = "sessions" /\ InvalidateFsm(p)
  /\ UNCHANGED <<tradingVars, stops, phase, recoveryVars, controlVars>>

Recovered ==
  /\ Goto("sessions", "candles") /\ todo = {} /\ Idle
  /\ UNCHANGED <<recoveryVars, controlVars>> /\ Quiet

CandlesStart ==
  /\ Goto("candles", "running")
  /\ Forget
  /\ UNCHANGED controlVars /\ Quiet

Boot ==
  \/ Start \/ InitDb \/ LoadAllConfig \/ BootFails \/ Fetched \/ Query
  \/ CheckSl \/ ReRegisterSl \/ SlThrows \/ SetHasPosition \/ SetFsmThrows
  \/ MatchedDone \/ UnmatchedDone \/ OrphansDone \/ Recovered \/ CandlesStart
  \/ \E s \in Symbols : \/ FetchPositions(s) \/ FetchThrows(s) \/ TakeMatched(s)
                        \/ ClosesUnmatched(s) \/ FailsUnmatched(s)
  \/ \E t \in Tickets : OrphanIdle(t) \/ OrphanThrows(t)
  \/ \E w \in Sessions : KeepSession(w) \/ \E p \in Procs : InvalidateSession(p, w)
  \/ \E p \in Procs : SessionFsm(p)

-----------------------------------------------------------------------------
(***************************************************************************)
(* The pipeline while the process runs.  Candles start handlers until the  *)
(* candle manager has stopped; an entry needs the live mode the daemon was *)
(* started with.  A filled entry has its stop order (OrderExecutor).       *)
(***************************************************************************)
PoolOpen == phase \in {"running"} \cup Stopping

CandleCloses(p) ==
  /\ phase \in {"running", "stopping"}
  /\ \E s \in Symbols : HourRead(p, s) \/ (memory = "live" /\ EntryStart(p, s))
  /\ UNCHANGED stops

Orders(p) ==
  \/ EntryFill(p) /\ stops' = [stops EXCEPT ![stage[p].symbol] = TRUE]
  \/ EntryLost(p) /\ \E b \in BOOLEAN : stops' = [stops EXCEPT ![stage[p].symbol] = @ \/ b]
  \/ EntryFails(p) /\ UNCHANGED stops

Queries(p) ==
  /\ PoolOpen
  /\ \/ EntryCreate(p) \/ EntryRefused(p) \/ HourOpen(p) \/ HourInvalidate(p) \/ HourKeep(p)
     \/ Continue(p) /\ UNCHANGED tradingVars
  /\ UNCHANGED stops

TicketsClose ==
  /\ phase = "running" /\ \E t \in Tickets : TicketCloses(t)
  /\ UNCHANGED stops

\* The exit handlers reduce the position, or lose its stop (a moveSl that fails).
ExitFills(s) == phase = "running" /\ ExchangeCloses(s) /\ UNCHANGED stops

StopLost(s) ==
  /\ phase = "running" /\ stops[s]
  /\ stops' = [stops EXCEPT ![s] = FALSE]
  /\ UNCHANGED <<vars, tradingVars>>

\* After the pool is closed every query throws, and its handler is over.
QueryThrows(p) ==
  /\ phase = "closed"
  /\ op[p].pc \in {"ready", "openInsert"} /\ ~Free(p) /\ stage[p].at # "entry"
  /\ IF op[p].pc = "openInsert" THEN OpenFails(p) ELSE UNCHANGED vars
  /\ Leave(p)
  /\ UNCHANGED <<units, fills, stops>>

Pipeline ==
  /\ phase \in {"running", "closed"} \cup Stopping
  /\ \/ \E p \in Procs : CandleCloses(p) \/ Orders(p) \/ Queries(p) \/ QueryThrows(p)
     \/ TicketsClose
     \/ \E s \in Symbols : ExitFills(s) \/ StopLost(s)
  /\ UNCHANGED <<phase, recoveryVars, controlVars>>

\* A stop order fills, whether or not a daemon runs.
StopFills(s) ==
  /\ stops[s] /\ ExchangeCloses(s)
  /\ stops' = [stops EXCEPT ![s] = FALSE]
  /\ UNCHANGED <<phase, recoveryVars, controlVars>>

-----------------------------------------------------------------------------
(***************************************************************************)
(* stop(): the API server, then gracefulShutdown, whose timer ends the     *)
(* process after 30 seconds; any of its awaits may take longer than that.  *)
(* A second signal finds shutting_down set.  The bound on crashes keeps    *)
(* one for the timer.                                                      *)
(***************************************************************************)
Stop ==
  /\ Goto("running", "stopping") /\ crashes < MaxCrashes
  /\ UNCHANGED <<recoveryVars, controlVars>> /\ Quiet

\* candleManager.stop(), reconciliation.stop() and getPendingOrders, which may fail.
CandlesStop ==
  /\ Goto("stopping", "cancel")
  /\ todo' \in {{}, Pending}
  /\ UNCHANGED <<cur, snap, erred, missed, controlVars>> /\ Quiet

CancelPending(s) ==
  /\ phase = "cancel" /\ s \in todo /\ todo' = todo \ {s}
  /\ orders' \in {orders, [orders EXCEPT ![s] = "cancelled"]}
  /\ UNCHANGED <<phase, cur, snap, erred, missed, memory, mode>> /\ Quiet

CancelsDone ==
  /\ Goto("cancel", "pool") /\ todo = {}
  /\ UNCHANGED <<recoveryVars, controlVars>> /\ Quiet

\* pool.end() waits for the statements and transactions under way.
ClosePool ==
  /\ Goto("pool", "closed") /\ \A p \in Procs : op[p].pc \in {"ready", "openInsert"}
  /\ UNCHANGED <<recoveryVars, controlVars>> /\ Quiet

ProcessEnds ==
  /\ Goto("closed", "down") /\ Idle
  /\ UNCHANGED <<recoveryVars, controlVars>> /\ Quiet

Dies == TradingCrash /\ phase' = "down" /\ Forget /\ UNCHANGED <<stops, controlVars>>

TimerExitsEarly == phase \in Stopping \ {"pool"} /\ Dies   \* variant: timer cleared before the pool
TimerExits == phase \in Stopping /\ Dies
DaemonCrashes == phase # "down" /\ crashes + 1 < MaxCrashes /\ Dies

Shutdown ==
  \/ Stop \/ CandlesStop \/ CancelsDone \/ ClosePool \/ ProcessEnds \/ TimerExits
  \/ \E s \in Symbols : CancelPending(s)

-----------------------------------------------------------------------------
(***************************************************************************)
(* killSwitch: exchange by exchange the positions are fetched and closed,  *)
(* then the orders cancelled, then the mode of every row set to analysis.  *)
(* A failure of fetchPositions, getOpenOrders, cancelOrder or the UPDATE   *)
(* is counted; emergencyClose does not throw, so its failure is not.       *)
(***************************************************************************)
KillStart ==
  /\ kill.at = "idle" /\ kill' = [kill EXCEPT !.at = "fetch", !.left = Symbols]
  /\ UNCHANGED <<orders, mode, stops>> /\ UNCHANGED <<vars, tradingVars>>

KillFetch(s) ==
  /\ kill.at = "fetch" /\ s \in kill.left
  /\ kill' = IF units[s] = 0 THEN [kill EXCEPT !.left = @ \ {s}]
             ELSE [kill EXCEPT !.at = "close", !.left = @ \ {s}, !.cur = s, !.size = units[s]]
  /\ UNCHANGED <<orders, mode>> /\ Quiet

KillFetchFails(s) ==
  /\ kill.at = "fetch" /\ s \in kill.left
  /\ kill' = [kill EXCEPT !.left = @ \ {s}, !.failed = @ \cup {s}]
  /\ UNCHANGED <<orders, mode>> /\ Quiet

Fetching(m) == [kill EXCEPT !.at = "fetch", !.cur = NoSymbol, !.size = 0, !.missed = m]

KillCloseOne ==                           \* variant: closes one unit, not the size
  /\ kill.at = "close" /\ kill' = Fetching(kill.missed)
  /\ ReduceOnly(kill.cur, 1)
  /\ UNCHANGED <<vars, stage, fills, stops, orders, mode>>

KillClose ==
  /\ kill.at = "close" /\ kill' = Fetching(kill.missed)
  /\ ReduceOnly(kill.cur, kill.size)
  /\ UNCHANGED <<vars, stage, fills, stops, orders, mode>>

KillCloseFails ==
  /\ kill.at = "close" /\ kill' = Fetching(kill.missed \cup {kill.cur})
  /\ UNCHANGED <<orders, mode>> /\ Quiet

KillOrders ==
  /\ kill.at = "fetch" /\ kill.left = {}
  /\ \/ kill' = [kill EXCEPT !.at = "cancel", !.left = {s \in Symbols : orders[s] = "open"}]
     \/ kill' = [kill EXCEPT !.at = "cancel", !.failed = @ \cup {"other"}]
  /\ UNCHANGED <<orders, mode>> /\ Quiet

KillCancel(s) ==
  /\ kill.at = "cancel" /\ s \in kill.left
  /\ \/ /\ orders' = [orders EXCEPT ![s] = "cancelled"]
        /\ kill' = [kill EXCEPT !.left = @ \ {s}]
     \/ /\ kill' = [kill EXCEPT !.left = @ \ {s}, !.failed = @ \cup {"other"}]
        /\ UNCHANGED orders
  /\ UNCHANGED mode /\ Quiet

KillMode ==
  /\ kill.at = "cancel" /\ kill.left = {}
  /\ \/ mode' = "analysis" /\ kill' = [kill EXCEPT !.at = "done"]
     \/ UNCHANGED mode /\ kill' = [kill EXCEPT !.at = "done", !.failed = @ \cup {"other"}]
  /\ UNCHANGED orders /\ Quiet

KillSwitch ==
  /\ \/ KillStart \/ KillClose \/ KillCloseFails \/ KillOrders \/ KillMode
     \/ \E s \in Symbols : KillFetch(s) \/ KillFetchFails(s) \/ KillCancel(s)
  /\ UNCHANGED daemonVars

\* PUT /mode and the SQL of the manual write the column the daemon does not read.
SetMode ==
  /\ kill.at = "idle" /\ mode = "analysis" /\ mode' = "live"
  /\ UNCHANGED <<orders, daemonVars>> /\ Quiet

FetchedByKill(s) == kill.at # "idle" /\ ~(kill.at \in {"fetch", "close"} /\ s \in kill.left)
CountLate ==
  late' = [s \in Symbols |-> IF units'[s] > units[s] /\ FetchedByKill(s) THEN late[s] + 1 ELSE late[s]]

LifeNext ==
  /\ \/ (Boot \/ Pipeline \/ Shutdown \/ DaemonCrashes \/ \E s \in Symbols : StopFills(s))
        /\ UNCHANGED kill
     \/ KillSwitch
     \/ SetMode /\ UNCHANGED kill
  /\ CountLate

LifeSpec == LifeInit /\ [][LifeNext]_lifeVars

\* Only the timer is sure to fire: every await of a shutdown may hang.
FairSpec == LifeSpec /\ WF_lifeVars(TimerExits /\ UNCHANGED kill /\ CountLate)
-----------------------------------------------------------------------------
\* Crash recovery (PRD 7.18): once recovery has returned, a position that is as it
\* was fetched, on an exchange without an error, has a ticket, HAS_POSITION and a
\* stop order - whatever state the last crash or shutdown left, and although the
\* stale watch sessions are invalidated afterwards - or it has no ticket and its
\* emergency close failed (which recovery does not notice).
RecoveredAgrees ==
  phase = "candles" =>
    \A s \in Symbols \ (erred \cup missed \cup Pending) :
      units[s] > 0 /\ units[s] = snap.seen[s] =>
        ActiveTickets(s) # {} /\ fsm[s] = "HAS_POSITION" /\ stops[s]

\* When the kill switch is done, what is open was opened after it had fetched the
\* symbol's position, or was one it failed on.
KillLeavesLate ==
  kill.at = "done" => \A s \in Symbols \ (kill.failed \cup kill.missed) : units[s] <= late[s]

\* shutdown.ts "Enforces a 30-second timeout": a shutdown ends, whatever hangs.
ShutdownEnds == phase \in Stopping ~> phase \in {"closed", "down"}
=============================================================================
