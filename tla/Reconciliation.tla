--------------------------- MODULE Reconciliation ---------------------------
(***************************************************************************)
(* reconciliation/worker.ts and comparator.ts running beside the pipeline: *)
(* the worker takes a snapshot time, fetches each exchange's positions,    *)
(* then the active tickets and the pending symbols, compares them, and     *)
(* acts on one mismatch after another.  Each of these awaits lets the      *)
(* handlers run.                                                           *)
(*                                                                         *)
(* Each element of Symbols is on an exchange of its own.  A symbol is      *)
(* pending while a handler is entering it: src/ declares getPendingSymbols *)
(* ("keys with pending orders") and does not implement it.                 *)
(***************************************************************************)
EXTENDS Trading

CONSTANT FetchFails    \* fetchPositions of an exchange may throw

ASSUME FetchAssumption == FetchFails \in BOOLEAN

VARIABLES
  cycle,     \* of the worker: "sleep", "fetch", "query", "panic" or "orphans"
  awaited,   \* the exchanges, then the queries, still to be answered
  seen,      \* position sizes fetched
  failed,    \* symbols whose exchange threw
  recent,    \* tickets created after the snapshot time
  tickets,   \* getActiveTickets' answer
  pending,   \* getPendingSymbols' answer
  unmatched, \* positions still to be closed
  orphaned,  \* tickets still to be handled
  held       \* history: tickets whose symbol had a position ever since

answers == <<seen, failed, tickets, pending>>
toHandle == <<unmatched, orphaned>>
workerVars == <<cycle, awaited, answers, recent, toHandle>>
allVars == <<vars, tradingVars, workerVars, held>>

CycleQueries == {"tickets", "pending"}

ReconcileInit ==
  /\ TradingInit
  /\ cycle = "sleep" /\ awaited = {}
  /\ seen = [s \in Symbols |-> 0] /\ failed = {}
  /\ recent = {} /\ tickets = {} /\ pending = {}
  /\ unmatched = {} /\ orphaned = {} /\ held = {}
-----------------------------------------------------------------------------
\* runOnce: the snapshot time is taken before anything is fetched.
Begin ==
  /\ cycle = "sleep"
  /\ cycle' = "fetch" /\ awaited' = Symbols
  /\ recent' = {}
  /\ UNCHANGED <<vars, tradingVars, answers, toHandle>>

FetchExchange(s) ==
  /\ cycle = "fetch" /\ s \in awaited
  /\ awaited' = awaited \ {s}
  /\ seen' = [seen EXCEPT ![s] = units[s]]
  /\ UNCHANGED <<vars, tradingVars, cycle, failed, recent, tickets, pending, toHandle>>

\* A failed exchange contributes no positions.
ExchangeThrows(s) ==
  /\ FetchFails
  /\ cycle = "fetch" /\ s \in awaited
  /\ awaited' = awaited \ {s}
  /\ seen' = [seen EXCEPT ![s] = 0]
  /\ failed' = failed \cup {s}
  /\ UNCHANGED <<vars, tradingVars, cycle, recent, tickets, pending, toHandle>>

\* Promise.all over the two queries, which the database answers in any order.
QueryAll ==
  /\ cycle = "fetch" /\ awaited = {}
  /\ cycle' = "query" /\ awaited' = CycleQueries
  /\ UNCHANGED <<vars, tradingVars, answers, recent, toHandle>>

GetActiveTickets ==
  /\ cycle = "query" /\ "tickets" \in awaited
  /\ awaited' = awaited \ {"tickets"}
  /\ tickets' = {t \in Tickets : state[t] \in ActiveStates}
  /\ UNCHANGED <<vars, tradingVars, cycle, seen, failed, pending, recent, toHandle>>

GetPendingSymbols ==
  /\ cycle = "query" /\ "pending" \in awaited
  /\ awaited' = awaited \ {"pending"}
  /\ pending' = {s \in Symbols : Entering(s)}
  /\ UNCHANGED <<vars, tradingVars, cycle, seen, failed, tickets, recent, toHandle>>

(***************************************************************************)
(* comparePositions.  A position whose symbol has a ticket is matched if   *)
(* the ticket is older than the snapshot and excluded if it is not.        *)
(***************************************************************************)
Comparable == tickets \ recent

UnmatchedIdleOnly ==                       \* variant: only where fsm_state is IDLE
  {s \in Symbols : seen[s] > 0 /\ s \notin pending /\ fsm[s] = "IDLE"
                   /\ \A t \in tickets : symbol[t] # s}

UnmatchedPositions ==
  {s \in Symbols : seen[s] > 0 /\ s \notin pending
                   /\ \A t \in tickets : symbol[t] # s}

OrphanedAll == {t \in tickets : seen[symbol[t]] = 0}   \* variant: recent ones too
OrphanedTickets == {t \in Comparable : seen[symbol[t]] = 0}

Compare ==
  /\ cycle = "query" /\ awaited = {}
  /\ cycle' = "panic"
  /\ unmatched' = UnmatchedPositions
  /\ orphaned' = OrphanedTickets
  /\ UNCHANGED <<vars, tradingVars, awaited, answers, recent>>

\* emergencyClose of the size the snapshot showed, reduce-only.
PanicClose(s) ==
  /\ cycle = "panic" /\ s \in unmatched
  /\ unmatched' = unmatched \ {s}
  /\ units' = [units EXCEPT ![s] = IF @ > seen[s] THEN @ - seen[s] ELSE 0]
  /\ UNCHANGED <<vars, stage, fills, cycle, awaited, answers, recent, orphaned>>

\* emergencyClose throws: the error is counted and the cycle goes on.
PanicFails(s) ==
  /\ cycle = "panic" /\ s \in unmatched
  /\ unmatched' = unmatched \ {s}
  /\ UNCHANGED <<vars, tradingVars, cycle, awaited, answers, recent, orphaned>>

PanicsDone ==
  /\ cycle = "panic" /\ unmatched = {}
  /\ cycle' = "orphans"
  /\ UNCHANGED <<vars, tradingVars, awaited, answers, recent, toHandle>>

OrphanToIdle(t) ==
  /\ cycle = "orphans" /\ t \in orphaned
  /\ orphaned' = orphaned \ {t}
  /\ SetSymbolStateIdle(symbol[t])
  /\ UNCHANGED <<tradingVars, cycle, awaited, answers, recent, unmatched>>

\* The next cycle is scheduled when this one has completed; runOnce's local
\* variables are gone.
CycleEnds ==
  /\ cycle' = "sleep"
  /\ seen' = [s \in Symbols |-> 0] /\ failed' = {}
  /\ tickets' = {} /\ pending' = {} /\ recent' = {}

Sleep ==
  /\ cycle = "orphans" /\ orphaned = {}
  /\ CycleEnds
  /\ UNCHANGED <<vars, tradingVars, awaited, toHandle>>

Worker ==
  \/ Begin \/ QueryAll \/ GetActiveTickets \/ GetPendingSymbols \/ Compare
  \/ PanicsDone \/ Sleep
  \/ \E s \in Symbols : FetchExchange(s) \/ ExchangeThrows(s) \/ PanicClose(s) \/ PanicFails(s)
  \/ \E t \in Tickets : OrphanToIdle(t)

Created == {t \in Tickets : state[t] = "ABSENT" /\ state'[t] # "ABSENT"}

\* The daemon restarts with a fresh worker.
WorkerCrash ==
  /\ TradingCrash
  /\ CycleEnds /\ awaited' = {} /\ unmatched' = {} /\ orphaned' = {}

\* Any step of the pipeline, while the worker waits.
PipelineStep ==
  /\ TradingStep
  /\ recent' = IF cycle = "sleep" THEN {} ELSE recent \cup Created
  /\ UNCHANGED <<cycle, awaited, answers, toHandle>>

StillHeld == held' = {t \in held \cup Created : units'[symbol'[t]] > 0}

ReconcileNext == (Worker \/ PipelineStep \/ WorkerCrash) /\ StillHeld

ReconcileSpec == ReconcileInit /\ [][ReconcileNext]_allVars

(***************************************************************************)
(* Handlers and the worker keep running, and the exchange answers: a panic *)
(* close or a fetch that is tried again and again succeeds.                *)
(***************************************************************************)
ReconcileFair ==
  /\ ReconcileSpec
  /\ \A p \in Procs : WF_allVars(Handler(p) /\ PipelineStep /\ StillHeld)
  /\ WF_allVars(Worker /\ StillHeld)
  /\ \A s \in Symbols : SF_allVars(FetchExchange(s) /\ StillHeld)
                        /\ SF_allVars(PanicClose(s) /\ StillHeld)
-----------------------------------------------------------------------------
\* A position of a symbol that has no ticket, and that nobody is entering, is
\* closed sooner or later: whatever went wrong between the order and its ticket
\* (createTicket refused, answer lost, crash), reconciliation ends it.
UntrackedIsClosed ==
  \A s \in Symbols :
    units[s] > 0 /\ ActiveTickets(s) = {} /\ ~Entering(s)
      ~> units[s] = 0 \/ ActiveTickets(s) # {} \/ Entering(s)

\* A ticket is never given up as orphaned while the position it was created for
\* is open, although positions and tickets are fetched at different times,
\* except on an exchange that did not answer.
OrphanWasFlat ==
  [][\A t \in Tickets :
       OrphanToIdle(t) => t \notin held \/ symbol[t] \in failed]_allVars
=============================================================================
