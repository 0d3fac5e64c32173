---------------------------- MODULE DaemonProofs ----------------------------
(***************************************************************************)
(* Proofs about the ticket store's two compositions, which both use it     *)
(* only through its operations, so that what TicketStoreProofs shows of    *)
(* the store holds of both.                                                *)
(*                                                                         *)
(* Reconciliation: the worker beside the pipeline never gives up a ticket  *)
(* whose position is open, because a symbol found flat at the fetch has    *)
(* no ticket older than the snapshot whose position stayed open.           *)
(*                                                                         *)
(* Lifecycle: what recovery leaves agrees with the exchange, and the kill  *)
(* switch leaves open only what was opened behind its back.  Recovery runs *)
(* alone: no handler exists while the process boots (BootQuiet), so        *)
(* tickets stay as they were queried, positions only shrink, and each      *)
(* phase may rely on what the phases before it did for a position that is  *)
(* still as it was fetched.                                                *)
(***************************************************************************)
EXTENDS Reconciliation, Lifecycle, TicketStoreProofs

\* A handler that is past its start knows its symbol.
StageOK ==
  /\ stage \in [Procs -> Stages]
  /\ \A p \in Procs : stage[p].at # "rest" => stage[p].symbol \in Symbols

-----------------------------------------------------------------------------
(* The reconciliation worker beside the pipeline. *)

\* The worker's fetch found s flat.
FoundFlat(s) ==
  /\ cycle # "sleep" /\ s \notin failed
  /\ cycle = "fetch" => s \notin awaited
  /\ seen[s] = 0

\* No ticket older than the snapshot then has a position open ever since.
FlatWasFlat ==
  \A s \in Symbols : FoundFlat(s) => \A t \in held : t \in recent \/ symbol[t] # s

\* The worker has an answer for each symbol; the tickets it knows are rows of the
\* table, which never go away.
KnownRows ==
  /\ DOMAIN seen = Symbols
  /\ held \subseteq Tickets /\ tickets \subseteq Tickets /\ orphaned \subseteq Tickets
  /\ \A t \in held \cup tickets \cup orphaned : state[t] # "ABSENT"

OrphanedFoundFlat ==
  /\ cycle \in {"sleep", "fetch", "query"} => orphaned = {}
  /\ \A t \in orphaned : t \notin recent /\ seen[symbol[t]] = 0

WInv == StageOK /\ IInv /\ FlatWasFlat /\ KnownRows /\ OrphanedFoundFlat
-----------------------------------------------------------------------------
LEMMA AtType ==
  ASSUME NEW a \in {"rest", "entry", "ordered", "hour"},
         NEW s \in Symbols \cup {NoSymbol}, NEW w \in Sessions \cup {NoSession}
  PROVE  At(a, s, w) \in Stages /\ At(a, s, w).at = a /\ At(a, s, w).symbol = s
BY DEF At, Stages

LEMMA AtRestType == AtRest \in Stages /\ AtRest.at = "rest"
BY AtType DEF AtRest

LEMMA StageInit == ReconcileInit => StageOK
BY AtRestType DEF ReconcileInit, TradingInit, StageOK

\* Which steps of the composition change a handler's stage.
LEMMA StagesChange ==
  ASSUME [ReconcileNext]_allVars
  PROVE  \/ \E p \in Procs : Leave(p) \/ EntryFill(p)
         \/ \E p \in Procs, s \in Symbols : EntryStart(p, s) \/ HourRead(p, s)
         \/ TradingCrash
         \/ UNCHANGED stage
<1>1. PipelineStep => \/ \E p \in Procs : Leave(p) \/ EntryFill(p)
                      \/ \E p \in Procs, s \in Symbols : EntryStart(p, s) \/ HourRead(p, s)
                      \/ UNCHANGED stage
  <2>1. ASSUME NEW p \in Procs, Handler(p) PROVE Leave(p) \/ EntryFill(p) \/ UNCHANGED stage
    BY <2>1 DEF Handler, EntryFails, EntryLost, EntryCreate, EntryRefused, HourOpen,
                HourInvalidate, HourKeep, tradingVars
  <2>2. ASSUME NEW p \in Procs, Candle(p) PROVE \E s \in Symbols : EntryStart(p, s) \/ HourRead(p, s)
    BY <2>2 DEF Candle
  <2>3. (\E s \in Symbols : ExchangeCloses(s)) \/ (\E t \in Tickets : TicketCloses(t)) => UNCHANGED stage
    BY DEF ExchangeCloses, TicketCloses, tradingVars
  <2> QED BY <2>1, <2>2, <2>3 DEF PipelineStep, TradingStep
<1>2. Worker => UNCHANGED stage
  BY DEF Worker, Begin, FetchExchange, ExchangeThrows, QueryAll, GetActiveTickets,
         GetPendingSymbols, Compare, PanicClose, PanicFails, PanicsDone, OrphanToIdle,
         Sleep, tradingVars
<1> QED
  BY <1>1, <1>2 DEF ReconcileNext, WorkerCrash, allVars, tradingVars

LEMMA WorkerStageStep == StageOK /\ [ReconcileNext]_allVars => StageOK'
<1> SUFFICES ASSUME StageOK, [ReconcileNext]_allVars PROVE StageOK'
  OBVIOUS
<1> USE DEF StageOK
<1>1. ASSUME NEW p \in Procs, Leave(p) PROVE StageOK'
  BY <1>1, AtRestType DEF Leave
<1>2. ASSUME NEW p \in Procs, EntryFill(p) PROVE StageOK'
  BY <1>2 DEF EntryFill, Stages
<1>3. ASSUME NEW p \in Procs, NEW s \in Symbols, EntryStart(p, s) PROVE StageOK'
  BY <1>3, AtType DEF EntryStart
<1>4. ASSUME NEW p \in Procs, NEW s \in Symbols, HourRead(p, s) PROVE StageOK'
  <2>1. PICK w \in Sessions \cup {NoSession} : stage' = [stage EXCEPT ![p] = At("hour", s, w)]
    BY <1>4 DEF HourRead, ActiveSessions
  <2> QED BY <2>1, AtType
<1>5. CASE TradingCrash
  BY <1>5, AtRestType DEF TradingCrash
<1> QED
  BY <1>1, <1>2, <1>3, <1>4, <1>5, StagesChange

\* A step of the composition is a step of the ticket store, or none.
LEMMA WorkerStoreStep == StageOK /\ IInv /\ KnownRows /\ [ReconcileNext]_allVars => [Next]_vars
<1> SUFFICES ASSUME StageOK, IInv, KnownRows, [ReconcileNext]_allVars PROVE [Next]_vars
  OBVIOUS
<1>1. ASSUME NEW p \in Procs, Handler(p) PROVE [Next]_vars
  <2>1. CASE EntryCreate(p)
    <3>1. stage[p].symbol \in Symbols /\ CreateBegin(p, stage[p].symbol)
      BY <2>1 DEF EntryCreate, StageOK
    <3> QED BY <3>1 DEF Next, TicketStep
  <2>2. CASE HourOpen(p)
    <3>1. stage[p].symbol \in Symbols /\ OpenInvalidate(p, stage[p].symbol)
      BY <2>2 DEF HourOpen, StageOK
    <3> QED BY <3>1 DEF Next, SessionStep
  <2>3. CASE HourInvalidate(p)
    <3>1. stage[p].session \in Sessions /\ InvalidateMark(p, stage[p].session)
      BY <2>3 DEF HourInvalidate, StageOK, Stages
    <3> QED BY <3>1 DEF Next, SessionStep
  <2>4. CASE Continue(p)
    BY <2>4 DEF Continue, Next, TicketStep, SessionStep
  <2>5. CASE EntryFill(p) \/ EntryFails(p) \/ EntryLost(p) \/ EntryRefused(p) \/ HourKeep(p)
    BY <2>5 DEF EntryFill, EntryFails, EntryLost, EntryRefused, HourKeep, storeVars
  <2> QED BY <1>1, <2>1, <2>2, <2>3, <2>4, <2>5 DEF Handler
<1>2. CASE PipelineStep
  <2>1. ASSUME NEW p \in Procs, Candle(p) PROVE [Next]_vars
    BY <2>1 DEF Candle, EntryStart, HourRead, storeVars
  <2>2. ASSUME NEW s \in Symbols, ExchangeCloses(s) PROVE [Next]_vars
    BY <2>2 DEF ExchangeCloses, storeVars
  <2>3. ASSUME NEW t \in Tickets, TicketCloses(t) PROVE [Next]_vars
    BY <2>3 DEF TicketCloses, Next, TicketStep
  <2> QED BY <1>1, <1>2, <2>1, <2>2, <2>3 DEF PipelineStep, TradingStep
<1>3. CASE WorkerCrash
  BY <1>3 DEF WorkerCrash, TradingCrash, Next, RecoveryStep
<1>4. CASE Worker
  <2>1. ASSUME NEW t \in Tickets, OrphanToIdle(t) PROVE [Next]_vars
    <3>1. symbol[t] \in Symbols
      BY <2>1 DEF OrphanToIdle, KnownRows, IInv, TypeOK
    <3> QED BY <2>1, <3>1 DEF OrphanToIdle, Next, RecoveryStep
  <2>2. CASE ~\E t \in Tickets : OrphanToIdle(t)
    BY <1>4, <2>2
       DEF Worker, Begin, FetchExchange, ExchangeThrows, QueryAll, GetActiveTickets,
           GetPendingSymbols, Compare, PanicClose, PanicFails, PanicsDone, Sleep, CycleEnds
  <2> QED BY <2>1, <2>2
<1> QED
  BY <1>2, <1>3, <1>4 DEF ReconcileNext, allVars, vars

\* A row of the tickets table keeps its symbol for good.
LEMMA RowsStay ==
  ASSUME IInv, [Next]_vars, NEW t \in Tickets, state[t] # "ABSENT"
  PROVE  state'[t] # "ABSENT" /\ symbol'[t] = symbol[t]
<1> USE DEF IInv, TypeOK, ActiveStates, TicketStates
<1>1. ASSUME NEW p \in Procs, NEW u \in Tickets, CreateCommit(p, u)
      PROVE  state'[t] # "ABSENT" /\ symbol'[t] = symbol[t]
  BY <1>1 DEF CreateCommit, InsertTicket
<1>2. ASSUME NEW p \in Procs, NEW u \in Tickets, PyramidCommit(p, u)
      PROVE  state'[t] # "ABSENT" /\ symbol'[t] = symbol[t]
  BY <1>2 DEF PyramidCommit, InsertTicket
<1>3. ASSUME NEW u \in Tickets, NEW to \in TargetStates, TransitionTicket(u, to)
      PROVE  state'[t] # "ABSENT" /\ symbol'[t] = symbol[t]
  BY <1>3, TargetsAssumption DEF TransitionTicket
<1>4. ASSUME NEW u \in Tickets, CloseTicket(u)
      PROVE  state'[t] # "ABSENT" /\ symbol'[t] = symbol[t]
  BY <1>4 DEF CloseTicket
<1> QED
  BY <1>1, <1>2, <1>3, <1>4, RowsChange

\* The worker inserts no ticket, and neither does a crash.
LEMMA OnlyPipelineCreates ==
  ASSUME Worker \/ WorkerCrash \/ UNCHANGED allVars
  PROVE  Created = {} /\ UNCHANGED <<state, symbol>>
<1>1. UNCHANGED <<state, symbol>>
  BY DEF Worker, Begin, FetchExchange, ExchangeThrows, QueryAll, GetActiveTickets,
         GetPendingSymbols, Compare, PanicClose, PanicFails, PanicsDone, Sleep, CycleEnds, OrphanToIdle,
         SetSymbolStateIdle, WorkerCrash, TradingCrash, Crash, allVars, vars, ticketVars
<1> QED
  BY <1>1 DEF Created

LEMMA KnownRowsStep ==
  ASSUME IInv, KnownRows, [Next]_vars, [ReconcileNext]_allVars
  PROVE  KnownRows'
<1>1. held' \subseteq held \cup Created
  BY DEF ReconcileNext, StillHeld, allVars
<1>2. tickets' \subseteq tickets \cup {t \in Tickets : state[t] \in ActiveStates}
  BY DEF ReconcileNext, PipelineStep, WorkerCrash, Worker, Begin, FetchExchange, ExchangeThrows, QueryAll,
         GetActiveTickets, GetPendingSymbols, Compare, PanicClose, PanicFails, PanicsDone,
         Sleep, CycleEnds,
         OrphanToIdle, allVars, workerVars, answers
<1>3. orphaned' \subseteq orphaned \cup tickets
  BY DEF ReconcileNext, PipelineStep, WorkerCrash, Worker, Begin, FetchExchange, ExchangeThrows, QueryAll,
         GetActiveTickets, GetPendingSymbols, Compare, OrphanedTickets, Comparable, PanicClose, PanicFails,
         PanicsDone, Sleep, CycleEnds, OrphanToIdle, allVars, workerVars, toHandle
<1>4. \A t \in Created : t \in Tickets /\ state'[t] # "ABSENT"
  BY DEF Created
<1>5. DOMAIN seen = Symbols => DOMAIN seen' = Symbols
  <2>1. CASE WorkerCrash \/ Sleep
    BY <2>1 DEF WorkerCrash, Sleep, CycleEnds
  <2>2. CASE ~WorkerCrash /\ ~Sleep
    BY <2>2 DEF ReconcileNext, PipelineStep, Worker, Begin, FetchExchange, ExchangeThrows, QueryAll,
         GetActiveTickets, GetPendingSymbols, Compare, PanicClose, PanicFails, PanicsDone,
         OrphanToIdle, allVars, workerVars, answers
  <2> QED BY <2>1, <2>2
<1> QED
  BY <1>1, <1>2, <1>3, <1>4, <1>5, RowsStay DEF KnownRows, ActiveStates

\* Once an exchange was found flat it stays so, until the next snapshot.
LEMMA FlatStep ==
  ASSUME IInv, KnownRows, FlatWasFlat, [Next]_vars, [ReconcileNext]_allVars
  PROVE  FlatWasFlat'
<1>0. ASSUME NEW t \in held PROVE t \in Tickets /\ symbol'[t] = symbol[t]
  BY RowsStay DEF KnownRows
<1>1. CASE PipelineStep /\ StillHeld
  <2>1. /\ held' \subseteq held \cup Created /\ cycle' = cycle
        /\ cycle # "sleep" => recent' = recent \cup Created
    BY <1>1 DEF PipelineStep, StillHeld
  <2>2. \A s \in Symbols : FoundFlat(s)' <=> FoundFlat(s)
    BY <1>1 DEF PipelineStep, FoundFlat, answers
  <2> QED BY <1>0, <2>1, <2>2 DEF FlatWasFlat, FoundFlat
<1>2. CASE WorkerCrash
  BY <1>2 DEF WorkerCrash, CycleEnds, FlatWasFlat, FoundFlat
<1>3. CASE Worker /\ StillHeld
  <2>0. /\ held' \subseteq held /\ symbol' = symbol
        /\ \A t \in held' : units'[symbol[t]] > 0
    BY <1>3, OnlyPipelineCreates DEF StillHeld
  <2>1. CASE Begin \/ Sleep
    BY <2>1 DEF Begin, Sleep, CycleEnds, FlatWasFlat, FoundFlat
  <2>2. ASSUME NEW s \in Symbols, FetchExchange(s) PROVE FlatWasFlat'
    <3>1. seen'[s] = 0 => \A t \in held' : symbol[t] # s
      BY <2>0, <2>2 DEF FetchExchange, tradingVars, KnownRows
    <3>2. \A r \in Symbols : r # s /\ FoundFlat(r)' => FoundFlat(r)
      BY <2>2 DEF FetchExchange, FoundFlat
    <3> QED BY <2>0, <2>2, <3>1, <3>2 DEF FlatWasFlat, FetchExchange, FoundFlat
  <2>3. ASSUME NEW s \in Symbols, ExchangeThrows(s) PROVE FlatWasFlat'
    <3>1. \A r \in Symbols : FoundFlat(r)' => FoundFlat(r)
      BY <2>3 DEF ExchangeThrows, FoundFlat
    <3> QED BY <2>0, <2>3, <3>1 DEF FlatWasFlat, ExchangeThrows
  <2>4. CASE \/ QueryAll \/ GetActiveTickets \/ GetPendingSymbols \/ Compare \/ PanicsDone
             \/ \E s \in Symbols : PanicClose(s) \/ PanicFails(s)
             \/ \E t \in Tickets : OrphanToIdle(t)
    <3>1. /\ \A r \in Symbols : FoundFlat(r)' => FoundFlat(r)
          /\ recent' = recent
      BY <2>4 DEF QueryAll, GetActiveTickets, GetPendingSymbols, Compare, PanicClose, PanicFails,
                  PanicsDone, OrphanToIdle, answers, FoundFlat
    <3> QED BY <2>0, <3>1 DEF FlatWasFlat
  <2> QED BY <1>3, <2>1, <2>2, <2>3, <2>4 DEF Worker
<1>4. CASE UNCHANGED allVars
  BY <1>4 DEF FlatWasFlat, FoundFlat, allVars, workerVars, answers, vars, ticketVars
<1> QED
  BY <1>1, <1>2, <1>3, <1>4 DEF ReconcileNext

LEMMA OrphanedStep ==
  ASSUME IInv, KnownRows, OrphanedFoundFlat, [Next]_vars, [ReconcileNext]_allVars
  PROVE  OrphanedFoundFlat'
<1>0. ASSUME NEW t \in orphaned \cup tickets PROVE t \in Tickets /\ symbol'[t] = symbol[t]
  BY RowsStay DEF KnownRows
<1>1. CASE PipelineStep
  <2>1. \A t \in orphaned : t \notin Created
    BY DEF KnownRows, Created
  <2> QED BY <1>0, <1>1, <2>1 DEF PipelineStep, OrphanedFoundFlat, answers, toHandle
<1>2. CASE WorkerCrash
  BY <1>2 DEF WorkerCrash, CycleEnds, OrphanedFoundFlat
<1>3. CASE Compare
  BY <1>0, <1>3 DEF Compare, OrphanedTickets, Comparable, OrphanedFoundFlat, answers
<1>4. CASE Begin \/ Sleep \/ QueryAll \/ GetActiveTickets \/ GetPendingSymbols
           \/ \E s \in Symbols : FetchExchange(s) \/ ExchangeThrows(s)
  BY <1>4 DEF Begin, Sleep, CycleEnds, QueryAll, GetActiveTickets, GetPendingSymbols, FetchExchange,
              ExchangeThrows, OrphanedFoundFlat, toHandle
<1>5. CASE \/ PanicsDone \/ \E s \in Symbols : PanicClose(s) \/ PanicFails(s)
           \/ \E t \in Tickets : OrphanToIdle(t)
           \/ UNCHANGED allVars
  <2>1. /\ orphaned' \subseteq orphaned /\ seen' = seen /\ recent' = recent
        /\ cycle' \in {"sleep", "fetch", "query"} => cycle' = cycle
    BY <1>5 DEF PanicsDone, PanicClose, PanicFails, OrphanToIdle, answers, toHandle, allVars, workerVars
  <2> QED BY <1>0, <2>1 DEF OrphanedFoundFlat
<1> QED
  BY <1>1, <1>2, <1>3, <1>4, <1>5 DEF ReconcileNext, Worker
-----------------------------------------------------------------------------
LEMMA WInvInit == ReconcileInit => WInv
BY StageInit, InitIInv
DEF ReconcileInit, TradingInit, WInv, FlatWasFlat, KnownRows, OrphanedFoundFlat, FoundFlat

LEMMA WInvStep == WInv /\ [ReconcileNext]_allVars => WInv' /\ [Next]_vars
BY WorkerStageStep, WorkerStoreStep, IInvStep, KnownRowsStep, FlatStep, OrphanedStep DEF WInv

LEMMA WInvHolds == ReconcileSpec => []WInv
BY WInvInit, WInvStep, PTL DEF ReconcileSpec

\* The pipeline and the worker implement the ticket store: every step of theirs
\* is one of its operations or leaves it alone.
THEOREM ReconcileImplementsStore == ReconcileSpec => Spec
<1>1. ReconcileInit => Init
  BY DEF ReconcileInit, TradingInit
<1> QED BY <1>1, WInvHolds, WInvStep, PTL DEF ReconcileSpec, Spec

\* Hence the pipeline and the worker never show a symbol's position anything but the
\* life the PRD draws: opened, TP1, TP2, closed.
THEOREM ReconcileImplementsLifecycle == ReconcileSpec => ImplementsLifecycle
BY ReconcileImplementsStore, StoreImplementsLifecycle, PTL

\* Hence no symbol ever has two active root tickets, with the whole pipeline
\* and the worker running.
THEOREM ReconcileOneActiveRoot == ReconcileSpec => []OneActiveRoot
BY ReconcileImplementsStore, StoreOneActiveRoot, PTL

\* A ticket whose position is open is never given up as orphaned, unless its
\* exchange did not answer.
THEOREM ReconcileOrphanWasFlat == ReconcileSpec => OrphanWasFlat
<1>1. WInv /\ [ReconcileNext]_allVars
        => [\A t \in Tickets : OrphanToIdle(t) => t \notin held \/ symbol[t] \in failed]_allVars
  <2> SUFFICES ASSUME WInv, NEW t \in Tickets, OrphanToIdle(t), t \in held, symbol[t] \notin failed
               PROVE  FALSE
    OBVIOUS
  <2>1. symbol[t] \in Symbols
    BY DEF WInv, KnownRows, IInv, TypeOK
  <2>2. FoundFlat(symbol[t]) /\ t \notin recent
    BY DEF WInv, OrphanedFoundFlat, OrphanToIdle, FoundFlat
  <2> QED BY <2>1, <2>2 DEF WInv, FlatWasFlat
<1> QED BY <1>1, WInvHolds, PTL DEF ReconcileSpec, OrphanWasFlat

-----------------------------------------------------------------------------
(* The daemon's life. *)

AfterFetch     == Booting \ {"initDb", "config", "fetch"}
AfterQuery     == AfterFetch \ {"query"}
AtMatched      == {"matched", "check", "register", "restore"}
AfterMatched   == AfterQuery \ AtMatched
AfterUnmatched == AfterMatched \ {"unmatched"}

KillTypes ==
  [at : {"idle", "fetch", "close", "cancel", "done"}, left : SUBSET Symbols,
   cur : Symbols \cup {NoSymbol}, size : Nat,
   failed : SUBSET (Symbols \cup {"other"}), missed : SUBSET Symbols]

LifeTypes ==
  /\ phase \in Phases
  /\ cur \in Symbols \cup {NoSymbol}
  /\ snap \in [seen : [Symbols -> Nat], tickets : SUBSET Tickets]
  /\ units \in [Symbols -> Nat] /\ late \in [Symbols -> Nat]
  /\ stops \in [Symbols -> BOOLEAN]
  /\ orders \in [Symbols -> {"none", "open", "cancelled"}]
  /\ kill \in KillTypes
  /\ phase \in AtMatched \ {"matched"} => cur \in Symbols
  /\ kill.at = "close" => kill.cur \in Symbols /\ kill.cur \notin kill.left
  /\ kill.at = "cancel" => kill.left \subseteq Pending
  /\ phase = "cancel" => todo \subseteq Pending

\* Nothing but the start-up runs until the candle callback is registered.
BootQuiet ==
  phase \in Booting =>
    /\ \A p \in Procs : stage[p] = AtRest
    /\ phase # "sessions" => \A p \in Procs : op[p] = Ready
    /\ \A p \in Procs : op[p].pc \in {"ready", "invalidateFsm"}

\* The tickets recovery works on are the active ones, as long as it works.
Queried ==
  /\ phase \in AfterQuery => snap.tickets = {t \in Tickets : state[t] \in ActiveStates}
  /\ phase = "orphaned" => todo \subseteq Orphaned

\* What recovery has reached for the symbols it has been through.
Protected(s) == stops[s] \/ units[s] < snap.seen[s]
Settled(s) == fsm[s] = "HAS_POSITION" /\ Protected(s)

Progress ==
  /\ phase = "fetch" => \A s \in Symbols \ (todo \cup erred) : units[s] <= snap.seen[s]
  /\ phase \in AfterFetch => \A s \in Symbols \ erred : units[s] <= snap.seen[s]
  /\ phase \in AtMatched =>
       \A s \in Matched \ (todo \cup erred) :
         IF phase # "matched" /\ s = cur THEN phase = "restore" => Protected(s) ELSE Settled(s)
  /\ phase \in AfterMatched => \A s \in Matched \ erred : Settled(s)
  /\ phase = "unmatched" => \A s \in Unmatched \ (todo \cup missed \cup erred) : units[s] = 0
  /\ phase \in AfterUnmatched => \A s \in Unmatched \ (missed \cup erred) : units[s] = 0

\* What the kill switch has fetched is open because it came later, or is about to be closed.
KillTrue ==
  \A s \in Symbols \ (kill.failed \cup kill.missed) :
    FetchedByKill(s) =>
      units[s] <= late[s] + (IF kill.at = "close" /\ s = kill.cur THEN kill.size ELSE 0)

LifeInv == IInv /\ StageOK /\ LifeTypes /\ BootQuiet /\ Queried

-----------------------------------------------------------------------------
LEMMA RestIsStage == AtRest \in Stages /\ AtRest.at = "rest" /\ Ready.pc = "ready"
BY DEF AtRest, At, Stages, Ready, Doing

LEMMA StageStep == StageOK /\ [LifeNext]_lifeVars => StageOK'
<1> SUFFICES ASSUME StageOK, [LifeNext]_lifeVars PROVE StageOK'
  OBVIOUS
<1> USE RestIsStage DEF StageOK
<1>1. ASSUME NEW p \in Procs, Leave(p) PROVE StageOK'
  BY <1>1 DEF Leave
<1>2. ASSUME NEW p \in Procs, EntryFill(p) PROVE StageOK'
  BY <1>2 DEF EntryFill, Stages
<1>3. ASSUME NEW p \in Procs, NEW s \in Symbols, EntryStart(p, s) PROVE StageOK'
  BY <1>3 DEF EntryStart, At, Stages
<1>4. ASSUME NEW p \in Procs, NEW s \in Symbols, HourRead(p, s) PROVE StageOK'
  <2>1. PICK w \in Sessions \cup {NoSession} : stage' = [stage EXCEPT ![p] = At("hour", s, w)]
    BY <1>4 DEF HourRead, ActiveSessions
  <2> QED BY <2>1 DEF At, Stages
<1>5. CASE Dies
  BY <1>5 DEF Dies, TradingCrash
<1>6. CASE Pipeline
  <2>1. \/ \E p \in Procs : Leave(p) \/ EntryFill(p)
        \/ \E p \in Procs, s \in Symbols : EntryStart(p, s) \/ HourRead(p, s)
        \/ UNCHANGED stage
    BY <1>6 DEF Pipeline, CandleCloses, Orders, Queries, QueryThrows, TicketsClose, ExitFills,
         StopLost, EntryFails, EntryLost, EntryCreate, EntryRefused, HourOpen, HourInvalidate,
         HourKeep, ExchangeCloses, TicketCloses, tradingVars
  <2> QED BY <1>1, <1>2, <1>3, <1>4, <2>1
<1>7. CASE Boot
  BY <1>7 DEF Boot, Start, InitDb, LoadAllConfig, BootFails, Fetched, Query, CheckSl, ReRegisterSl,
       SlThrows, SetHasPosition, SetFsmThrows, MatchedDone, UnmatchedDone, OrphansDone, Recovered,
       CandlesStart, FetchPositions, FetchThrows, TakeMatched, ClosesUnmatched, FailsUnmatched,
       OrphanIdle, OrphanThrows, KeepSession, InvalidateSession, SessionFsm, Quiet, tradingVars
<1>8. CASE Shutdown \/ DaemonCrashes \/ \E s \in Symbols : StopFills(s)
  BY <1>5, <1>8 DEF Shutdown, Stop, CandlesStop, CancelsDone, ClosePool, ProcessEnds, TimerExits,
       CancelPending, DaemonCrashes, StopFills, ExchangeCloses, Quiet, tradingVars
<1>9. CASE KillSwitch \/ SetMode \/ UNCHANGED lifeVars
  BY <1>9 DEF KillSwitch, KillStart, KillFetch, KillFetchFails, KillClose, KillCloseFails,
       KillOrders, KillCancel, KillMode, SetMode, Quiet, tradingVars, lifeVars
<1> QED
  BY <1>6, <1>7, <1>8, <1>9 DEF LifeNext

\* A step of the daemon's life is a step of the ticket store, or none.
LEMMA StoreStep == LifeInv /\ [LifeNext]_lifeVars => [Next]_vars
<1> SUFFICES ASSUME LifeInv, [LifeNext]_lifeVars PROVE [Next]_vars
  OBVIOUS
<1> USE DEF LifeInv
<1>1. CASE Pipeline
  <2>1. ASSUME NEW p \in Procs, EntryCreate(p) PROVE [Next]_vars
    <3>1. stage[p].symbol \in Symbols /\ CreateBegin(p, stage[p].symbol)
      BY <2>1 DEF EntryCreate, StageOK
    <3> QED BY <3>1 DEF Next, TicketStep
  <2>2. ASSUME NEW p \in Procs, HourOpen(p) PROVE [Next]_vars
    <3>1. stage[p].symbol \in Symbols /\ OpenInvalidate(p, stage[p].symbol)
      BY <2>2 DEF HourOpen, StageOK
    <3> QED BY <3>1 DEF Next, SessionStep
  <2>3. ASSUME NEW p \in Procs, HourInvalidate(p) PROVE [Next]_vars
    <3>1. stage[p].session \in Sessions /\ InvalidateMark(p, stage[p].session)
      BY <2>3 DEF HourInvalidate, StageOK, Stages
    <3> QED BY <3>1 DEF Next, SessionStep
  <2>4. ASSUME NEW p \in Procs, Continue(p) \/ OpenFails(p) PROVE [Next]_vars
    BY <2>4 DEF Continue, Next, TicketStep, SessionStep
  <2>5. ASSUME NEW t \in Tickets, TicketCloses(t) PROVE [Next]_vars
    BY <2>5 DEF TicketCloses, Next, TicketStep
  <2>6. \/ \E p \in Procs : \/ EntryCreate(p) \/ HourOpen(p) \/ HourInvalidate(p)
                            \/ Continue(p) \/ OpenFails(p)
        \/ \E t \in Tickets : TicketCloses(t)
        \/ UNCHANGED vars
    BY <1>1 DEF Pipeline, CandleCloses, EntryStart, HourRead, Orders, EntryFill, EntryLost,
         EntryFails, Queries, EntryRefused, HourKeep, QueryThrows, TicketsClose, ExitFills,
         StopLost, ExchangeCloses, storeVars
  <2> QED BY <2>1, <2>2, <2>3, <2>4, <2>5, <2>6
<1>2. CASE Dies
  BY <1>2 DEF Dies, TradingCrash, Next, RecoveryStep
<1>3. ASSUME NEW t \in Tickets, OrphanIdle(t) PROVE [Next]_vars
  <2>1. symbol[t] \in Symbols
    BY <1>3 DEF OrphanIdle, Queried, Orphaned, AfterQuery, AfterFetch, Booting, ActiveStates, IInv,
         TypeOK
  <2> QED BY <1>3, <2>1 DEF OrphanIdle, Next, RecoveryStep
<1>4. CASE SetHasPosition
  BY <1>4 DEF SetHasPosition, LifeTypes, AtMatched, Goto, Next, RecoveryStep
<1>5. CASE Boot
  <2>1. ASSUME NEW p \in Procs, SessionFsm(p) PROVE [Next]_vars
    BY <2>1 DEF SessionFsm, Next, SessionStep
  <2>2. ASSUME NEW p \in Procs, NEW w \in Sessions, InvalidateSession(p, w) PROVE [Next]_vars
    BY <2>2 DEF InvalidateSession, Next, SessionStep
  <2>3. CASE /\ ~\E p \in Procs : SessionFsm(p) \/ \E w \in Sessions : InvalidateSession(p, w)
             /\ ~\E t \in Tickets : OrphanIdle(t)
             /\ ~SetHasPosition
    BY <1>5, <2>3 DEF Boot, Start, InitDb, LoadAllConfig, BootFails, Fetched, Query, CheckSl,
         ReRegisterSl, SlThrows, SetFsmThrows, MatchedDone, UnmatchedDone, OrphansDone, Recovered,
         CandlesStart, FetchPositions, FetchThrows, TakeMatched, ClosesUnmatched, FailsUnmatched,
         OrphanThrows, KeepSession, Quiet
  <2> QED BY <1>3, <1>4, <2>1, <2>2, <2>3
<1>6. CASE Shutdown \/ DaemonCrashes \/ \E s \in Symbols : StopFills(s)
  BY <1>2, <1>6 DEF Shutdown, Stop, CandlesStop, CancelsDone, ClosePool, ProcessEnds, TimerExits,
       CancelPending, DaemonCrashes, StopFills, ExchangeCloses, Quiet, storeVars
<1>7. CASE KillSwitch \/ SetMode \/ UNCHANGED lifeVars
  BY <1>7 DEF KillSwitch, KillStart, KillFetch, KillFetchFails, KillClose, KillCloseFails,
       KillOrders, KillCancel, KillMode, SetMode, Quiet, lifeVars
<1> QED
  BY <1>1, <1>5, <1>6, <1>7 DEF LifeNext

-----------------------------------------------------------------------------
\* Which steps change the positions, and how far.
LEMMA UnitsChange ==
  ASSUME LifeInv, [LifeNext]_lifeVars
  PROVE  /\ units' \in [Symbols -> Nat]
         /\ \A s \in Symbols : units'[s] <= units[s] + 1
         /\ ~Pipeline => \A s \in Symbols : units'[s] <= units[s]
<1> USE DEF LifeInv, LifeTypes
<1>1. ASSUME NEW s \in Symbols, Fill(s)
      PROVE  units' \in [Symbols -> Nat] /\ \A r \in Symbols : units'[r] <= units[r] + 1
  BY <1>1 DEF Fill
<1>2. ASSUME NEW s \in Symbols, ExchangeCloses(s)
      PROVE  units' \in [Symbols -> Nat] /\ \A r \in Symbols : units'[r] <= units[r]
  BY <1>2 DEF ExchangeCloses
<1>3. ASSUME NEW s \in Symbols, NEW n \in Nat, ReduceOnly(s, n)
      PROVE  units' \in [Symbols -> Nat] /\ \A r \in Symbols : units'[r] <= units[r]
  BY <1>3 DEF ReduceOnly
<1>4. CASE UNCHANGED units
  BY <1>4
<1>5. CASE Pipeline
  <2>1. \/ \E s \in Symbols : Fill(s) \/ ExchangeCloses(s)
        \/ UNCHANGED units
    BY <1>5 DEF Pipeline, CandleCloses, Orders, Queries, QueryThrows, TicketsClose, ExitFills,
         StopLost, EntryStart, HourRead, EntryFill, EntryFails, EntryLost, EntryCreate,
         EntryRefused, HourOpen, HourInvalidate, HourKeep, TicketCloses, tradingVars, StageOK
  <2> QED BY <1>1, <1>2, <1>4, <1>5, <2>1
<1>6. CASE Boot
  <2>1. ASSUME NEW s \in Symbols, ClosesUnmatched(s)
        PROVE  units' \in [Symbols -> Nat] /\ \A r \in Symbols : units'[r] <= units[r]
    BY <1>3, <2>1 DEF ClosesUnmatched
  <2>2. CASE ~\E s \in Symbols : ClosesUnmatched(s)
    <3>1. UNCHANGED units
      BY <1>6, <2>2 DEF Boot, Start, InitDb, LoadAllConfig, BootFails, Fetched, Query, CheckSl,
         ReRegisterSl, SlThrows, SetHasPosition, SetFsmThrows, MatchedDone, UnmatchedDone,
         OrphansDone, Recovered, CandlesStart, FetchPositions, FetchThrows, TakeMatched,
         FailsUnmatched, OrphanIdle, OrphanThrows, KeepSession, InvalidateSession, SessionFsm,
         Quiet, tradingVars
    <3> QED BY <1>4, <3>1
  <2> QED BY <2>1, <2>2
<1>7. CASE Shutdown \/ DaemonCrashes \/ \E s \in Symbols : StopFills(s)
  <2>1. UNCHANGED units \/ \E s \in Symbols : ExchangeCloses(s)
    BY <1>7 DEF Shutdown, Stop, CandlesStop, CancelsDone, ClosePool, ProcessEnds, TimerExits,
       CancelPending, DaemonCrashes, Dies, TradingCrash, StopFills, Quiet, tradingVars
  <2> QED BY <1>2, <1>4, <2>1
<1>8. CASE KillSwitch \/ SetMode \/ UNCHANGED lifeVars
  <2>1. CASE KillClose
    BY <1>3, <2>1 DEF KillClose, KillTypes
  <2>2. CASE ~KillClose
    <3>1. UNCHANGED units
      BY <1>8, <2>2 DEF KillSwitch, KillStart, KillFetch, KillFetchFails, KillCloseFails,
         KillOrders, KillCancel, KillMode, SetMode, Quiet, tradingVars, lifeVars
    <3> QED BY <1>4, <3>1
  <2> QED BY <2>1, <2>2
<1> QED
  BY <1>5, <1>6, <1>7, <1>8 DEF LifeNext

\* What the process outside of start-up does to recovery's knowledge: nothing,
\* unless the process ends.
LEMMA RecoveryAlone ==
  ASSUME LifeInv, [LifeNext]_lifeVars, ~Boot
  PROVE  UNCHANGED <<cur, snap, erred, missed>> \/ phase' = "down"
BY DEF LifeNext, Pipeline, Shutdown, Stop, CandlesStop, CancelsDone, ClosePool, ProcessEnds,
       TimerExits, CancelPending, DaemonCrashes, Dies, StopFills, KillSwitch, SetMode, daemonVars,
       recoveryVars, lifeVars

LEMMA SnapStep ==
  ASSUME LifeInv, [LifeNext]_lifeVars
  PROVE  /\ snap' \in [seen : [Symbols -> Nat], tickets : SUBSET Tickets]
         /\ cur' \in Symbols \cup {NoSymbol}
<1> USE DEF LifeInv, LifeTypes
<1>0. NoSnap \in [seen : [Symbols -> Nat], tickets : SUBSET Tickets]
  BY DEF NoSnap
<1>1. ASSUME NEW s \in Symbols, FetchPositions(s)
      PROVE  snap' \in [seen : [Symbols -> Nat], tickets : SUBSET Tickets] /\ cur' = cur
  BY <1>1 DEF FetchPositions
<1>2. CASE Query
  BY <1>2 DEF Query
<1>3. ASSUME NEW s \in Symbols, TakeMatched(s)
      PROVE  snap' = snap /\ cur' = s
  BY <1>3 DEF TakeMatched
<1>4. CASE Forget
  BY <1>0, <1>4 DEF Forget
<1>5. CASE UNCHANGED <<cur, snap>>
  BY <1>5
<1>6. CASE Boot
  <2>1. \/ \E s \in Symbols : FetchPositions(s) \/ TakeMatched(s)
        \/ Query \/ Forget \/ UNCHANGED <<cur, snap>>
    BY <1>6 DEF Boot, Start, InitDb, LoadAllConfig, BootFails, Fetched, CheckSl,
         ReRegisterSl, SlThrows, SetHasPosition, SetFsmThrows, MatchedDone, UnmatchedDone,
         OrphansDone, Recovered, CandlesStart, FetchThrows, ClosesUnmatched,
         FailsUnmatched, OrphanIdle, OrphanThrows, KeepSession, InvalidateSession, SessionFsm,
         recoveryVars
  <2> QED BY <1>1, <1>2, <1>3, <1>4, <1>5, <2>1
<1>7. CASE ~Boot
  <2>1. Forget \/ UNCHANGED <<cur, snap>>
    BY <1>7 DEF LifeNext, Pipeline, Shutdown, Stop, CandlesStop, CancelsDone, ClosePool, ProcessEnds,
       TimerExits, CancelPending, DaemonCrashes, Dies, StopFills, KillSwitch, SetMode, daemonVars,
       recoveryVars, lifeVars
  <2> QED BY <1>4, <1>5, <2>1
<1> QED BY <1>6, <1>7

\* The phases: how a step moves them.
LEMMA PhaseStep ==
  ASSUME LifeInv, [LifeNext]_lifeVars
  PROVE  /\ phase' \in Phases
         /\ phase' \in AtMatched \ {"matched"} => cur' \in Symbols
<1> USE DEF LifeInv, LifeTypes, Phases, Booting, Stopping, AtMatched, Goto
<1>1. CASE Boot
  BY <1>1 DEF Boot, Start, InitDb, LoadAllConfig, BootFails, Fetched, Query, CheckSl,
         ReRegisterSl, SlThrows, SetHasPosition, SetFsmThrows, MatchedDone, UnmatchedDone,
         OrphansDone, Recovered, CandlesStart, FetchPositions, FetchThrows, TakeMatched,
         ClosesUnmatched, FailsUnmatched, OrphanIdle, OrphanThrows, KeepSession,
         InvalidateSession, SessionFsm, recoveryVars
<1>2. CASE ~Boot
  BY <1>2 DEF LifeNext, Pipeline, Shutdown, Stop, CandlesStop, CancelsDone, ClosePool, ProcessEnds,
       TimerExits, CancelPending, DaemonCrashes, Dies, StopFills, KillSwitch, SetMode, daemonVars,
       recoveryVars, lifeVars
<1> QED BY <1>1, <1>2

LEMMA OrdersStep ==
  ASSUME LifeInv, [LifeNext]_lifeVars
  PROVE  /\ orders' \in [Symbols -> {"none", "open", "cancelled"}]
         /\ Pending' = Pending
         /\ phase' = "cancel" => todo' \subseteq Pending
<1> USE DEF LifeInv, LifeTypes, Pending
<1>1. ASSUME NEW s \in Symbols, orders[s] # "none", orders' = [orders EXCEPT ![s] = "cancelled"]
      PROVE  /\ orders' \in [Symbols -> {"none", "open", "cancelled"}]
             /\ Pending' = Pending
  BY <1>1
<1>2. ASSUME UNCHANGED orders
      PROVE  /\ orders' \in [Symbols -> {"none", "open", "cancelled"}]
             /\ Pending' = Pending
  BY <1>2
<1>3. ASSUME NEW s \in Symbols, CancelPending(s)
      PROVE  UNCHANGED orders \/ (orders[s] # "none" /\ orders' = [orders EXCEPT ![s] = "cancelled"])
  BY <1>3 DEF CancelPending
<1>4. ASSUME NEW s \in Symbols, KillCancel(s)
      PROVE  UNCHANGED orders \/ (orders[s] # "none" /\ orders' = [orders EXCEPT ![s] = "cancelled"])
  BY <1>4 DEF KillCancel
<1>5. (\E s \in Symbols : CancelPending(s) \/ KillCancel(s)) \/ UNCHANGED orders
  <2>1. Boot => UNCHANGED orders
    BY DEF Boot, Start, InitDb, LoadAllConfig, BootFails, Fetched, Query, CheckSl,
         ReRegisterSl, SlThrows, SetHasPosition, SetFsmThrows, MatchedDone, UnmatchedDone,
         OrphansDone, Recovered, CandlesStart, FetchPositions, FetchThrows, TakeMatched,
         ClosesUnmatched, FailsUnmatched, OrphanIdle, OrphanThrows, KeepSession,
         InvalidateSession, SessionFsm, controlVars
  <2>2. ~Boot => (\E s \in Symbols : CancelPending(s) \/ KillCancel(s)) \/ UNCHANGED orders
    BY DEF LifeNext, Pipeline, Shutdown, Stop, CandlesStop, CancelsDone, ClosePool,
         ProcessEnds, TimerExits, DaemonCrashes, Dies, StopFills, KillSwitch, KillStart, KillFetch,
         KillFetchFails, KillClose, KillCloseFails, KillOrders, KillMode, SetMode, controlVars,
         lifeVars
  <2> QED BY <2>1, <2>2
<1>6. phase' = "cancel" => todo' \subseteq todo \/ todo' \subseteq {s \in Symbols : orders[s] # "none"}
  <2>1. CASE Boot
    BY <2>1 DEF Boot, Start, InitDb, LoadAllConfig, BootFails, Fetched, Query, CheckSl,
         ReRegisterSl, SlThrows, SetHasPosition, SetFsmThrows, MatchedDone, UnmatchedDone,
         OrphansDone, Recovered, CandlesStart, FetchPositions, FetchThrows, TakeMatched,
         ClosesUnmatched, FailsUnmatched, OrphanIdle, OrphanThrows, KeepSession,
         InvalidateSession, SessionFsm, Goto
  <2>2. CASE ~Boot
    BY <2>2 DEF LifeNext, Pipeline, Shutdown, Stop, CandlesStop, CancelPending, CancelsDone, ClosePool,
         ProcessEnds, TimerExits, DaemonCrashes, Dies, StopFills, KillSwitch, SetMode, daemonVars,
         recoveryVars, lifeVars, Goto
  <2> QED BY <2>1, <2>2
<1>7. phase' = "cancel" /\ phase # "cancel" => CandlesStop
  BY DEF LifeNext, Boot, Start, InitDb, LoadAllConfig, BootFails, Fetched, Query, CheckSl,
         ReRegisterSl, SlThrows, SetHasPosition, SetFsmThrows, MatchedDone, UnmatchedDone,
         OrphansDone, Recovered, CandlesStart, FetchPositions, FetchThrows, TakeMatched,
         ClosesUnmatched, FailsUnmatched, OrphanIdle, OrphanThrows, KeepSession,
         InvalidateSession, SessionFsm, Pipeline, Shutdown, Stop, CancelPending, CancelsDone,
         ClosePool, ProcessEnds, TimerExits, DaemonCrashes, Dies, StopFills, KillSwitch, SetMode,
         daemonVars, lifeVars, Goto
<1>8. CandlesStop => todo' \subseteq {s \in Symbols : orders[s] # "none"}
  BY DEF CandlesStop
<1>9. Pending' = Pending /\ orders' \in [Symbols -> {"none", "open", "cancelled"}]
  BY <1>1, <1>2, <1>3, <1>4, <1>5
<1> QED BY <1>6, <1>7, <1>8, <1>9

LEMMA StopsStep ==
  ASSUME LifeInv, [LifeNext]_lifeVars
  PROVE  stops' \in [Symbols -> BOOLEAN]
<1> USE DEF LifeInv, LifeTypes
<1>1. ASSUME NEW s, NEW b \in BOOLEAN, stops' = [stops EXCEPT ![s] = b]
      PROVE  stops' \in [Symbols -> BOOLEAN]
  BY <1>1
<1>2. CASE Boot \/ KillSwitch \/ SetMode \/ UNCHANGED lifeVars
  <2>1. stops' = [stops EXCEPT ![cur] = TRUE] \/ UNCHANGED stops
    BY <1>2 DEF Boot, Start, InitDb, LoadAllConfig, BootFails, Fetched, Query, CheckSl,
         ReRegisterSl, SlThrows, SetHasPosition, SetFsmThrows, MatchedDone, UnmatchedDone,
         OrphansDone, Recovered, CandlesStart, FetchPositions, FetchThrows, TakeMatched,
         ClosesUnmatched, FailsUnmatched, OrphanIdle, OrphanThrows, KeepSession,
         InvalidateSession, SessionFsm, Quiet, KillSwitch, KillStart, KillFetch, KillFetchFails,
         KillClose, KillCloseFails, KillOrders, KillCancel, KillMode, SetMode, lifeVars
  <2> QED BY <1>1, <2>1
<1>3. CASE Shutdown \/ DaemonCrashes \/ \E s \in Symbols : StopFills(s)
  <2>1. UNCHANGED stops \/ \E s \in Symbols : stops' = [stops EXCEPT ![s] = FALSE]
    BY <1>3 DEF Shutdown, Stop, CandlesStop, CancelPending, CancelsDone, ClosePool, ProcessEnds,
         TimerExits, DaemonCrashes, Dies, StopFills, Quiet
  <2> QED BY <1>1, <2>1
<1>4. CASE Pipeline
  <2>1. ASSUME NEW p \in Procs, EntryLost(p),
               \E b \in BOOLEAN : stops' = [stops EXCEPT ![stage[p].symbol] = @ \/ b]
        PROVE  stops' \in [Symbols -> BOOLEAN]
    BY <2>1
  <2>2. ASSUME NEW p \in Procs, stops' = [stops EXCEPT ![stage[p].symbol] = TRUE]
        PROVE  stops' \in [Symbols -> BOOLEAN]
    BY <1>1, <2>2
  <2>3. ASSUME NEW s \in Symbols, StopLost(s) PROVE stops' \in [Symbols -> BOOLEAN]
    BY <1>1, <2>3 DEF StopLost
  <2> QED BY <1>4, <2>1, <2>2, <2>3
          DEF Pipeline, CandleCloses, Orders, Queries, QueryThrows, TicketsClose, ExitFills
<1> QED BY <1>2, <1>3, <1>4 DEF LifeNext

LEMMA KillStep ==
  ASSUME LifeInv, [LifeNext]_lifeVars
  PROVE  /\ kill' \in KillTypes
         /\ late' \in [Symbols -> Nat]
         /\ kill'.at = "close" => kill'.cur \in Symbols /\ kill'.cur \notin kill'.left
         /\ kill'.at = "cancel" => kill'.left \subseteq Pending
<1>00. kill \in KillTypes
  BY DEF LifeInv, LifeTypes
<1>0. /\ units \in [Symbols -> Nat] /\ late \in [Symbols -> Nat]
      /\ kill.at = "close" => kill.cur \in Symbols /\ kill.cur \notin kill.left
      /\ kill.at = "cancel" => kill.left \subseteq Pending
  BY DEF LifeInv, LifeTypes
<1>1. late' \in [Symbols -> Nat]
  BY <1>0 DEF LifeNext, CountLate, lifeVars, killVars
<1> DEFINE Fits(k) == /\ k.at = "close" => k.cur \in Symbols /\ k.cur \notin k.left
                      /\ k.at = "cancel" => k.left \subseteq Pending
<1>2. ASSUME UNCHANGED kill PROVE kill' \in KillTypes /\ Fits(kill')
  BY <1>00, <1>0, <1>2
<1>3. ASSUME KillStart PROVE kill' \in KillTypes /\ Fits(kill')
  BY <1>00, <1>0, <1>3 DEF KillStart, KillTypes
<1>4. ASSUME NEW s \in Symbols, KillFetch(s) \/ KillFetchFails(s)
      PROVE  kill' \in KillTypes /\ Fits(kill')
  <2>0. \/ kill' = [kill EXCEPT !.left = @ \ {s}] /\ kill.at = "fetch"
        \/ /\ kill' = [kill EXCEPT !.at = "close", !.left = @ \ {s}, !.cur = s, !.size = units[s]]
           /\ kill.at = "fetch"
        \/ /\ kill' = [kill EXCEPT !.left = @ \ {s}, !.failed = @ \cup {s}]
           /\ kill.at = "fetch"
    BY <1>4 DEF KillFetch, KillFetchFails
  <2>1. kill' \in KillTypes
    <3>1. CASE kill' = [kill EXCEPT !.left = @ \ {s}]
      BY <1>00, <3>1 DEF KillTypes
    <3>2. CASE kill' = [kill EXCEPT !.at = "close", !.left = @ \ {s}, !.cur = s, !.size = units[s]]
      BY <1>00, <3>2, <1>0 DEF KillTypes
    <3>3. CASE kill' = [kill EXCEPT !.left = @ \ {s}, !.failed = @ \cup {s}]
      BY <1>00, <3>3 DEF KillTypes
    <3> QED BY <2>0, <3>1, <3>2, <3>3
  <2>2. /\ kill'.at \in {"fetch", "close"}
        /\ kill'.at = "close" => kill'.cur = s /\ s \notin kill'.left
    BY <1>00, <1>0, <2>0 DEF KillTypes
  <2> QED BY <2>1, <2>2
<1>5. ASSUME KillClose \/ KillCloseFails PROVE kill' \in KillTypes /\ Fits(kill')
  <2>0. PICK m \in SUBSET Symbols :
          kill' = [kill EXCEPT !.at = "fetch", !.cur = NoSymbol, !.size = 0, !.missed = m]
    <3>1. kill.missed \in SUBSET Symbols /\ kill.missed \cup {kill.cur} \in SUBSET Symbols
      BY <1>00, <1>0, <1>5 DEF KillClose, KillCloseFails, KillTypes
    <3> QED BY <1>5, <3>1 DEF KillClose, KillCloseFails, Fetching
  <2>1. kill' \in KillTypes
    BY <1>00, <2>0 DEF KillTypes
  <2>2. kill'.at = "fetch"
    BY <1>00, <1>0, <2>0 DEF KillTypes
  <2> QED BY <2>1, <2>2
<1>6. ASSUME KillOrders PROVE kill' \in KillTypes /\ Fits(kill')
  <2>1. {s \in Symbols : orders[s] = "open"} \subseteq Pending /\ Pending \subseteq Symbols
    BY DEF Pending
  <2>0. /\ kill.left = {}
        /\ \/ kill' = [kill EXCEPT !.at = "cancel", !.left = {s \in Symbols : orders[s] = "open"}]
           \/ kill' = [kill EXCEPT !.at = "cancel", !.failed = @ \cup {"other"}]
    BY <1>6 DEF KillOrders
  <2>2. kill' \in KillTypes
    <3>1. CASE kill' = [kill EXCEPT !.at = "cancel", !.left = {s \in Symbols : orders[s] = "open"}]
      BY <1>00, <3>1 DEF KillTypes
    <3>2. CASE kill' = [kill EXCEPT !.at = "cancel", !.failed = @ \cup {"other"}]
      BY <1>00, <3>2 DEF KillTypes
    <3> QED BY <2>0, <3>1, <3>2
  <2>3. kill'.at = "cancel" /\ kill'.left \subseteq Pending
    BY <1>00, <1>0, <2>0, <2>1 DEF KillTypes
  <2> QED BY <2>2, <2>3
<1>7. ASSUME NEW s \in Symbols, KillCancel(s) PROVE kill' \in KillTypes /\ Fits(kill')
  <2>0. /\ kill.at = "cancel"
        /\ \/ kill' = [kill EXCEPT !.left = @ \ {s}]
           \/ kill' = [kill EXCEPT !.left = @ \ {s}, !.failed = @ \cup {"other"}]
    BY <1>7 DEF KillCancel
  <2>1. kill' \in KillTypes
    <3>1. CASE kill' = [kill EXCEPT !.left = @ \ {s}]
      BY <1>00, <3>1 DEF KillTypes
    <3>2. CASE kill' = [kill EXCEPT !.left = @ \ {s}, !.failed = @ \cup {"other"}]
      BY <1>00, <3>2 DEF KillTypes
    <3> QED BY <2>0, <3>1, <3>2
  <2>2. kill'.at = "cancel" /\ kill'.left \subseteq Pending
    BY <1>00, <1>0, <2>0 DEF KillTypes
  <2> QED BY <2>1, <2>2
<1>8. ASSUME KillMode PROVE kill' \in KillTypes /\ Fits(kill')
  <2>0. \/ kill' = [kill EXCEPT !.at = "done"]
        \/ kill' = [kill EXCEPT !.at = "done", !.failed = @ \cup {"other"}]
    BY <1>8 DEF KillMode
  <2>1. kill' \in KillTypes
    <3>1. CASE kill' = [kill EXCEPT !.at = "done"]
      BY <1>00, <3>1 DEF KillTypes
    <3>2. CASE kill' = [kill EXCEPT !.at = "done", !.failed = @ \cup {"other"}]
      BY <1>00, <3>2 DEF KillTypes
    <3> QED BY <2>0, <3>1, <3>2
  <2>2. kill'.at = "done"
    BY <1>00, <1>0, <2>0 DEF KillTypes
  <2> QED BY <2>1, <2>2
<1>9. UNCHANGED kill \/ KillSwitch
  BY DEF LifeNext, lifeVars, killVars
<1> QED BY <1>1, <1>2, <1>3, <1>4, <1>5, <1>6, <1>7, <1>8, <1>9 DEF KillSwitch

LEMMA LifeTypesStep == LifeInv /\ [LifeNext]_lifeVars => LifeTypes'
BY UnitsChange, SnapStep, PhaseStep, OrdersStep, StopsStep, KillStep DEF LifeTypes

-----------------------------------------------------------------------------
\* While the process boots, the steps outside of the start-up leave the store, the
\* handlers and the phase alone, or end the process.
LEMMA BootAlone ==
  ASSUME LifeInv, [LifeNext]_lifeVars, phase \in Booting, ~Boot
  PROVE  \/ Dies
         \/ UNCHANGED <<vars, stage, daemonVars>>
<1>1. ~Pipeline /\ ~Shutdown
  BY DEF Pipeline, Shutdown, Stop, CandlesStop, CancelPending, CancelsDone, ClosePool, ProcessEnds,
       TimerExits, Booting, Stopping, Goto
<1>2. CASE KillSwitch
  BY <1>2 DEF KillSwitch, KillStart, KillFetch, KillFetchFails, KillClose, KillCloseFails,
       KillOrders, KillCancel, KillMode, Quiet, vars, tradingVars, daemonVars
<1>3. CASE SetMode \/ UNCHANGED lifeVars
  BY <1>3 DEF SetMode, Quiet, tradingVars, lifeVars, daemonVars, controlVars
<1>4. CASE DaemonCrashes \/ \E s \in Symbols : StopFills(s)
  BY <1>4 DEF DaemonCrashes, StopFills, ExchangeCloses, storeVars, daemonVars, controlVars
<1> QED BY <1>1, <1>2, <1>3, <1>4 DEF LifeNext

LEMMA BootQuietStep == LifeInv /\ [LifeNext]_lifeVars => BootQuiet'
<1> SUFFICES ASSUME LifeInv, [LifeNext]_lifeVars, phase' \in Booting PROVE BootQuiet'
  BY DEF BootQuiet
<1> USE DEF BootQuiet
<1>0. /\ stage \in [Procs -> Stages] /\ op \in [Procs -> Ops]
      /\ BootQuiet
  BY DEF LifeInv, StageOK, IInv, TypeOK
<1>1. CASE ~Boot /\ phase \in Booting
  <2>1. phase' = "down" \/ UNCHANGED <<vars, stage, daemonVars>>
    BY <1>1, BootAlone DEF Dies
  <2> QED BY <1>0, <2>1 DEF daemonVars, vars, Booting
<1>2. CASE ~Boot /\ phase \notin Booting
  <2>1. phase' = phase \/ phase' \notin Booting
    BY <1>2 DEF LifeNext, Pipeline, Shutdown, Stop, CandlesStop, CancelPending, CancelsDone, ClosePool,
         ProcessEnds, TimerExits, DaemonCrashes, Dies, StopFills, KillSwitch, SetMode, daemonVars,
         recoveryVars, lifeVars, Goto, Booting
  <2> QED BY <1>2, <2>1
<1>3. CASE Start
  <2>1. \A p \in Procs : stage'[p] = AtRest /\ op'[p] = Ready
    BY <1>3 DEF Start, Idle, Free, Quiet, tradingVars, vars
  <2> QED BY <2>1, RestIsStage
<1>4. ASSUME NEW p \in Procs, NEW w \in Sessions, InvalidateSession(p, w) PROVE BootQuiet'
  <2>1. phase = "sessions" /\ phase' = "sessions" /\ stage' = stage
    BY <1>4 DEF InvalidateSession, tradingVars
  <2>2. op' = [op EXCEPT ![p] = Doing("invalidateFsm", watches[w])]
    BY <1>4 DEF InvalidateSession, InvalidateMark
  <2>3. \A q \in Procs : op'[q].pc \in {"ready", "invalidateFsm"}
    BY <1>0, <2>1, <2>2 DEF Doing, Booting
  <2> QED BY <1>0, <2>1, <2>3 DEF Booting
<1>5. ASSUME NEW p \in Procs, SessionFsm(p) PROVE BootQuiet'
  <2>1. phase = "sessions" /\ phase' = "sessions" /\ stage' = stage
    BY <1>5 DEF SessionFsm, tradingVars
  <2>2. op' = [op EXCEPT ![p] = Ready]
    BY <1>5 DEF SessionFsm, InvalidateFsm, Finish
  <2>3. \A q \in Procs : op'[q].pc \in {"ready", "invalidateFsm"}
    BY <1>0, <2>1, <2>2, RestIsStage DEF Booting
  <2> QED BY <1>0, <2>1, <2>3 DEF Booting
<1>6. CASE Boot /\ ~Start /\ ~\E p \in Procs : SessionFsm(p) \/ \E w \in Sessions : InvalidateSession(p, w)
  <2>1. UNCHANGED <<op, stage>> /\ phase \in Booting
    BY <1>6 DEF Boot, InitDb, LoadAllConfig, BootFails, Fetched, Query, CheckSl,
         ReRegisterSl, SlThrows, SetHasPosition, SetFsmThrows, MatchedDone, UnmatchedDone,
         OrphansDone, Recovered, CandlesStart, FetchPositions, FetchThrows, TakeMatched,
         ClosesUnmatched, FailsUnmatched, OrphanIdle, OrphanThrows, KeepSession,
         Quiet, vars, tradingVars, SetFsmState, SetSymbolStateIdle, Goto, Booting
  <2>2. phase = "sessions" /\ phase' # "sessions" => Idle
    BY <1>6 DEF Boot, InitDb, LoadAllConfig, BootFails, Fetched, Query, CheckSl,
         ReRegisterSl, SlThrows, SetHasPosition, SetFsmThrows, MatchedDone, UnmatchedDone,
         OrphansDone, Recovered, CandlesStart, FetchPositions, FetchThrows, TakeMatched,
         ClosesUnmatched, FailsUnmatched, OrphanIdle, OrphanThrows, KeepSession, Goto
  <2> QED BY <1>0, <2>1, <2>2 DEF Idle, Free
<1> QED BY <1>1, <1>2, <1>3, <1>4, <1>5, <1>6

\* No step of the start-up writes a ticket.
LEMMA BootKeepsTickets ==
  ASSUME Boot
  PROVE  UNCHANGED <<state, symbol, parent>>
BY DEF Boot, Start, InitDb, LoadAllConfig, BootFails, Fetched, Query, CheckSl,
       ReRegisterSl, SlThrows, SetHasPosition, SetFsmThrows, MatchedDone, UnmatchedDone,
       OrphansDone, Recovered, CandlesStart, FetchPositions, FetchThrows, TakeMatched,
       ClosesUnmatched, FailsUnmatched, OrphanIdle, OrphanThrows, KeepSession, InvalidateSession,
       SessionFsm, SetFsmState, SetSymbolStateIdle, InvalidateMark, InvalidateFsm, Quiet, vars,
       ticketVars

\* Only the fetches and the query change what recovery knows, before the matching.
LEMMA SnapFrozen ==
  ASSUME Boot, phase' \in AfterQuery, ~Query
  PROVE  snap' = snap /\ phase \in AfterQuery
BY DEF Boot, Start, InitDb, LoadAllConfig, BootFails, Fetched, CheckSl,
       ReRegisterSl, SlThrows, SetHasPosition, SetFsmThrows, MatchedDone, UnmatchedDone,
       OrphansDone, Recovered, CandlesStart, FetchPositions, FetchThrows, TakeMatched,
       ClosesUnmatched, FailsUnmatched, OrphanIdle, OrphanThrows, KeepSession, InvalidateSession,
       SessionFsm, Goto, AfterQuery, AfterFetch, Booting, recoveryVars

LEMMA QueriedStep == LifeInv /\ [LifeNext]_lifeVars => Queried'
<1> SUFFICES ASSUME LifeInv, [LifeNext]_lifeVars, phase' \in AfterQuery PROVE Queried'
  BY DEF Queried, AfterQuery, AfterFetch, Booting
<1> USE DEF Queried
<1>1. CASE Query
  BY <1>1, BootKeepsTickets DEF Query, Goto, Quiet, vars, LifeInv, LifeTypes
<1>2. CASE Boot /\ ~Query
  <2>1. snap' = snap /\ phase \in AfterQuery /\ UNCHANGED <<state, symbol>>
    BY <1>2, SnapFrozen, BootKeepsTickets
  <2>2. Orphaned' = Orphaned
    BY <2>1 DEF Orphaned
  <2>3. phase' = "orphaned" => todo' \subseteq Orphaned
    <3>1. phase' = "orphaned" => (phase = "orphaned" /\ todo' \subseteq todo) \/ todo' = Orphaned
      BY <1>2 DEF Boot, Start, InitDb, LoadAllConfig, BootFails, Fetched, CheckSl,
       ReRegisterSl, SlThrows, SetHasPosition, SetFsmThrows, MatchedDone, UnmatchedDone,
       OrphansDone, Recovered, CandlesStart, FetchPositions, FetchThrows, TakeMatched,
       ClosesUnmatched, FailsUnmatched, OrphanIdle, OrphanThrows, KeepSession, InvalidateSession,
       SessionFsm, Goto, recoveryVars
    <3> QED BY <3>1 DEF LifeInv
  <2> QED BY <2>1, <2>2, <2>3 DEF LifeInv
<1>3. CASE ~Boot
  <2>1. phase \in Booting
    BY <1>3 DEF LifeNext, Pipeline, Shutdown, Stop, CandlesStop, CancelPending, CancelsDone, ClosePool,
         ProcessEnds, TimerExits, DaemonCrashes, Dies, StopFills, KillSwitch, SetMode, daemonVars,
         recoveryVars, lifeVars, Goto, AfterQuery, AfterFetch, Booting, Stopping
  <2>2. UNCHANGED <<vars, stage, daemonVars>>
    BY <1>3, <2>1, BootAlone DEF Dies, AfterQuery, AfterFetch, Booting
  <2>3. UNCHANGED <<state, symbol, phase, snap, todo>>
    BY <2>2 DEF vars, daemonVars, recoveryVars
  <2>4. Orphaned' = Orphaned
    BY <2>3 DEF Orphaned
  <2> QED BY <2>3, <2>4 DEF LifeInv
<1>4. Query => Boot
  BY DEF Boot
<1> QED BY <1>1, <1>2, <1>3

LEMMA LifeInit_ == LifeInit => LifeInv
<1> SUFFICES ASSUME LifeInit PROVE LifeInv
  OBVIOUS
<1>1. IInv
  BY InitIInv DEF LifeInit, TradingInit
<1>2. StageOK
  BY RestIsStage DEF LifeInit, TradingInit, StageOK
<1>3. LifeTypes
  <2>1. NoKill \in KillTypes /\ NoKill.at = "idle"
    BY DEF NoKill, KillTypes
  <2>2. NoSnap \in [seen : [Symbols -> Nat], tickets : SUBSET Tickets]
    BY DEF NoSnap
  <2>3. orders \in [Symbols -> {"none", "open", "cancelled"}]
    BY DEF LifeInit
  <2> QED BY <2>1, <2>2, <2>3 DEF LifeInit, TradingInit, LifeTypes, Phases, AtMatched
<1>4. BootQuiet /\ Queried
  BY DEF LifeInit, BootQuiet, Queried, AfterQuery, AfterFetch, Booting
<1> QED BY <1>1, <1>2, <1>3, <1>4 DEF LifeInv

LEMMA LifeInvStep == LifeInv /\ [LifeNext]_lifeVars => LifeInv'
BY StoreStep, IInvStep, StageStep, LifeTypesStep, BootQuietStep, QueriedStep DEF LifeInv

LEMMA LifeInvHolds == LifeSpec => []LifeInv
BY LifeInit_, LifeInvStep, PTL DEF LifeSpec

\* The daemon's life uses the ticket store only through its operations: whatever
\* starts, recovers, stops, dies or is killed, every step of it is a step of the
\* ticket store, so all that is proved of the store holds of the running daemon.
THEOREM LifeImplementsStore == LifeSpec => Spec
<1>1. LifeInit => Init
  BY DEF LifeInit, TradingInit
<1> QED BY <1>1, LifeInvHolds, StoreStep, PTL DEF LifeSpec, Spec

\* Through every start, recovery, crash and shutdown the tickets of a symbol go
\* through the life cycle of a position and no other.
THEOREM LifeImplementsLifecycle == LifeSpec => ImplementsLifecycle
BY LifeImplementsStore, StoreImplementsLifecycle, PTL

\* Through every start, crash and shutdown a symbol has at most one position.
THEOREM LifeOneActiveRoot == LifeSpec => []OneActiveRoot
BY LifeImplementsStore, StoreOneActiveRoot, PTL

-----------------------------------------------------------------------------
\* What happens to the positions and their stop orders while the process boots: a
\* stop order that disappears has filled, and nothing opens.
LEMMA EnvKeeps ==
  ASSUME LifeInv, [LifeNext]_lifeVars, ~Boot, phase' \in Booting
  PROVE  /\ phase \in Booting
         /\ UNCHANGED <<fsm, symbol, phase, todo, cur, snap, erred, missed>>
         /\ \A s \in Symbols : units'[s] <= units[s]
         /\ \A s \in Symbols : stops[s] => stops'[s] \/ units'[s] < units[s]
<1>0. units \in [Symbols -> Nat] /\ stops \in [Symbols -> BOOLEAN]
  BY DEF LifeInv, LifeTypes
<1>1. phase \in Booting
  BY DEF LifeNext, Pipeline, Shutdown, Stop, CandlesStop, CancelPending, CancelsDone, ClosePool,
       ProcessEnds, TimerExits, DaemonCrashes, Dies, StopFills, KillSwitch, SetMode, daemonVars,
       recoveryVars, lifeVars, Goto, Booting, Stopping
<1>2. ~Pipeline /\ ~Shutdown /\ ~DaemonCrashes
  BY <1>1 DEF Pipeline, Shutdown, Stop, CandlesStop, CancelPending, CancelsDone, ClosePool,
       ProcessEnds, TimerExits, DaemonCrashes, Dies, Booting, Stopping, Goto
<1>3. UNCHANGED <<vars, stage, daemonVars>>
  BY <1>1, BootAlone DEF Dies, Booting
<1>4. \A s \in Symbols : units'[s] <= units[s]
  BY <1>2, UnitsChange
<1>5. ASSUME NEW r \in Symbols, StopFills(r)
      PROVE  \A s \in Symbols : stops[s] => stops'[s] \/ units'[s] < units[s]
  BY <1>0, <1>5 DEF StopFills, ExchangeCloses
<1>6. KillSwitch \/ SetMode \/ UNCHANGED lifeVars => stops' = stops
  BY DEF KillSwitch, KillStart, KillFetch, KillFetchFails, KillClose, KillCloseFails,
       KillOrders, KillCancel, KillMode, SetMode, Quiet, lifeVars
<1> QED BY <1>1, <1>2, <1>3, <1>4, <1>5, <1>6 DEF LifeNext, vars, daemonVars, recoveryVars

\* A position recovery has protected stays so, and none grows past what was fetched.
LEMMA ProgressEnv ==
  ASSUME LifeInv, Progress, [LifeNext]_lifeVars, ~Boot, phase' \in Booting
  PROVE  Progress'
<1>0. units \in [Symbols -> Nat] /\ units' \in [Symbols -> Nat] /\ snap.seen \in [Symbols -> Nat]
  BY UnitsChange DEF LifeInv, LifeTypes
<1>1. /\ UNCHANGED <<fsm, symbol, phase, todo, cur, snap, erred, missed>>
      /\ \A s \in Symbols : units'[s] <= units[s]
      /\ \A s \in Symbols : stops[s] => stops'[s] \/ units'[s] < units[s]
      /\ Pending' = Pending
  BY EnvKeeps, OrdersStep
<1>2. Matched' = Matched /\ Unmatched' = Unmatched
  BY <1>1 DEF Matched, Unmatched, Ticketed
<1>3. ASSUME NEW s \in Symbols, units[s] <= snap.seen[s], Protected(s) PROVE Protected(s)'
  BY <1>0, <1>1, <1>3 DEF Protected
<1>4. ASSUME NEW s \in Symbols, units[s] <= snap.seen[s], Settled(s) PROVE Settled(s)'
  BY <1>1, <1>3, <1>4 DEF Settled
<1>5. Matched \subseteq Symbols /\ Unmatched \subseteq Symbols
  BY DEF Matched, Unmatched
<1>6. /\ phase = "fetch" => \A s \in Symbols \ (todo \cup erred) : units'[s] <= snap.seen[s]
      /\ phase \in AfterFetch => \A s \in Symbols \ erred : units'[s] <= snap.seen[s]
  BY <1>0, <1>1 DEF Progress
<1>7. /\ phase = "unmatched" =>
           \A s \in Unmatched \ (todo \cup missed \cup erred) : units'[s] = 0
      /\ phase \in AfterUnmatched => \A s \in Unmatched \ (missed \cup erred) : units'[s] = 0
  BY <1>0, <1>1, <1>5 DEF Progress
<1>8. AtMatched \subseteq AfterFetch /\ AfterMatched \subseteq AfterFetch
  BY DEF AtMatched, AfterMatched, AfterQuery, AfterFetch, Booting
<1>9. phase \in AtMatched =>
        \A s \in Matched \ (todo \cup erred) :
          IF phase # "matched" /\ s = cur THEN phase = "restore" => Protected(s)' ELSE Settled(s)'
  BY <1>3, <1>4, <1>5, <1>8 DEF Progress
<1>10. phase \in AfterMatched => \A s \in Matched \ erred : Settled(s)'
  BY <1>4, <1>5, <1>8 DEF Progress
<1> QED BY <1>1, <1>2, <1>6, <1>7, <1>9, <1>10 DEF Progress

\* What recovery knows and what it has settled is the same after a step that leaves
\* positions, stop orders and states alone.
LEMMA StillKeeps ==
  ASSUME LifeInv, [LifeNext]_lifeVars, Boot, UNCHANGED snap
  PROVE  /\ Matched' = Matched /\ Unmatched' = Unmatched
         /\ Matched \subseteq Symbols /\ Unmatched \subseteq Symbols
         /\ UNCHANGED <<units, stops, fsm>> =>
              \A s \in Symbols : Settled(s)' = Settled(s) /\ Protected(s)' = Protected(s)
<1>1. UNCHANGED symbol /\ Pending' = Pending
  BY BootKeepsTickets, OrdersStep
<1>2. Matched' = Matched /\ Unmatched' = Unmatched
  BY <1>1 DEF Matched, Unmatched, Ticketed
<1>3. UNCHANGED <<units, stops, fsm>> =>
        \A s \in Symbols : Settled(s)' = Settled(s) /\ Protected(s)' = Protected(s)
  BY DEF Settled, Protected
<1> QED BY <1>1, <1>2, <1>3 DEF Matched, Unmatched

LEMMA ProgressStill ==
  ASSUME LifeInv, Progress, [LifeNext]_lifeVars, phase' \in Booting,
         \/ Start \/ InitDb \/ LoadAllConfig \/ Fetched \/ CheckSl \/ SlThrows \/ SetFsmThrows
         \/ MatchedDone \/ UnmatchedDone \/ OrphansDone \/ Recovered
         \/ \E s \in Symbols : FetchThrows(s) \/ TakeMatched(s) \/ FailsUnmatched(s)
         \/ \E t \in Tickets : OrphanThrows(t)
         \/ \E w \in Sessions : KeepSession(w)
  PROVE  Progress'
<1>0. Boot
  BY DEF Boot
<1>1. UNCHANGED <<units, stops, fsm, snap>>
  BY DEF Start, InitDb, LoadAllConfig, Fetched, CheckSl, SlThrows, SetFsmThrows, MatchedDone,
       UnmatchedDone, OrphansDone, Recovered, FetchThrows, TakeMatched, FailsUnmatched,
       OrphanThrows, KeepSession, Quiet, recoveryVars, tradingVars, vars
<1>2. /\ Matched' = Matched /\ Unmatched' = Unmatched
      /\ Matched \subseteq Symbols /\ Unmatched \subseteq Symbols
      /\ \A s \in Symbols : Settled(s)' = Settled(s) /\ Protected(s)' = Protected(s)
  BY <1>0, <1>1, StillKeeps
<1> USE <1>1, <1>2 DEF Progress, AfterUnmatched, AfterMatched, AtMatched, AfterQuery, AfterFetch,
      Booting, Goto
<1>3. CASE Start \/ InitDb \/ LoadAllConfig \/ Fetched \/ OrphansDone \/ Recovered
  BY <1>3 DEF Start, InitDb, LoadAllConfig, Fetched, OrphansDone, Recovered, recoveryVars
<1>4. CASE MatchedDone \/ UnmatchedDone
  BY <1>4 DEF MatchedDone, UnmatchedDone
<1>5. CASE CheckSl
  BY <1>5 DEF CheckSl, recoveryVars, Protected
<1>6. CASE SlThrows \/ SetFsmThrows
  BY <1>6 DEF SlThrows, SetFsmThrows
<1>7. ASSUME NEW s \in Symbols, TakeMatched(s) PROVE Progress'
  BY <1>7 DEF TakeMatched
<1>8. ASSUME NEW s \in Symbols, FetchThrows(s) \/ FailsUnmatched(s) PROVE Progress'
  BY <1>8 DEF FetchThrows, FailsUnmatched
<1>9. ASSUME NEW t \in Tickets, OrphanThrows(t) PROVE Progress'
  BY <1>9 DEF OrphanThrows
<1>10. ASSUME NEW w \in Sessions, KeepSession(w) PROVE Progress'
  BY <1>10 DEF KeepSession
<1> QED BY <1>3, <1>4, <1>5, <1>6, <1>7, <1>8, <1>9, <1>10

LEMMA ProgressBoot ==
  ASSUME LifeInv, Progress, [LifeNext]_lifeVars, phase' \in Booting, Boot
  PROVE  Progress'
<1>0. /\ units \in [Symbols -> Nat] /\ snap.seen \in [Symbols -> Nat]
      /\ stops \in [Symbols -> BOOLEAN] /\ fsm \in [Symbols -> FsmStates]
      /\ snap \in [seen : [Symbols -> Nat], tickets : SUBSET Tickets]
  BY DEF LifeInv, LifeTypes, IInv, TypeOK
<1> USE DEF Progress, AfterUnmatched, AfterMatched, AtMatched, AfterQuery, AfterFetch, Booting, Goto
<1>1. ASSUME NEW s \in Symbols, FetchPositions(s) PROVE Progress'
  <2>1. phase' = "fetch" /\ units' = units /\ erred' = erred /\ todo' = todo \ {s}
    BY <1>1 DEF FetchPositions, Quiet, tradingVars
  <2>2. snap'.seen = [snap.seen EXCEPT ![s] = units[s]]
    BY <1>0, <1>1 DEF FetchPositions
  <2>3. phase = "fetch"
    BY <1>1 DEF FetchPositions
  <2> QED BY <1>0, <2>1, <2>2, <2>3
<1>2. CASE Query
  <2>1. phase = "query" /\ phase' = "matched" /\ todo' = Matched' /\ UNCHANGED <<units, erred>>
    BY <1>2 DEF Query, Quiet, tradingVars
  <2>2. snap'.seen = snap.seen
    BY <1>0, <1>2 DEF Query
  <2> QED BY <1>0, <2>1, <2>2
<1>3. CASE ReRegisterSl
  <2>1. /\ phase = "register" /\ phase' = "restore"
        /\ UNCHANGED <<units, fsm, todo, cur, snap, erred, missed>>
        /\ stops' = [stops EXCEPT ![cur] = TRUE]
    BY <1>3 DEF ReRegisterSl, tradingVars, vars, recoveryVars
  <2>2. Matched' = Matched /\ Matched \subseteq Symbols
    BY <2>1, StillKeeps
  <2>3. \A s \in Symbols : (Settled(s) => Settled(s)') /\ (s = cur => Protected(s)')
    BY <1>0, <2>1 DEF Settled, Protected
  <2> QED BY <1>0, <2>1, <2>2, <2>3
<1>4. CASE SetHasPosition
  <2>1. /\ phase = "restore" /\ phase' = "matched"
        /\ UNCHANGED <<units, stops, todo, cur, snap, erred, missed>>
        /\ fsm' = [fsm EXCEPT ![cur] = "HAS_POSITION"]
    BY <1>4 DEF SetHasPosition, SetFsmState, tradingVars, recoveryVars
  <2>2. Matched' = Matched /\ Matched \subseteq Symbols
    BY <2>1, StillKeeps
  <2>3. \A s \in Symbols : /\ Settled(s) => Settled(s)'
                           /\ s = cur /\ Protected(s) => Settled(s)'
    BY <1>0, <2>1 DEF Settled, Protected
  <2> QED BY <1>0, <2>1, <2>2, <2>3
<1>5. ASSUME NEW s \in Symbols, ClosesUnmatched(s) PROVE Progress'
  <2>1. /\ phase = "unmatched" /\ phase' = "unmatched" /\ todo' = todo \ {s}
        /\ UNCHANGED <<fsm, stops, snap, erred, missed>>
        /\ units' = [units EXCEPT ![s] = IF @ > snap.seen[s] THEN @ - snap.seen[s] ELSE 0]
    BY <1>5 DEF ClosesUnmatched, ReduceOnly, vars
  <2>2. /\ Matched' = Matched /\ Matched \subseteq Symbols
        /\ Unmatched' = Unmatched /\ Unmatched \subseteq Symbols
    BY <2>1, StillKeeps
  <2>3. \A r \in Symbols : units'[r] <= units[r] /\ units'[r] \in Nat
    BY <1>0, <2>1
  <2>4. \A r \in Symbols : Settled(r) => Settled(r)'
    BY <1>0, <2>1, <2>3 DEF Settled, Protected
  <2>5. s \notin erred => units'[s] = 0
    BY <1>0, <2>1
  <2> QED BY <1>0, <2>1, <2>2, <2>3, <2>4, <2>5
<1>6. ASSUME UNCHANGED <<units, stops, phase, snap, erred, missed>>, phase \in {"orphaned", "sessions"},
             \A s \in Matched : fsm'[s] = fsm[s] \/ fsm[s] # "HAS_POSITION"
      PROVE  Progress'
  <2>1. /\ Matched' = Matched /\ Matched \subseteq Symbols
        /\ Unmatched' = Unmatched /\ Unmatched \subseteq Symbols
    BY <1>6, StillKeeps
  <2>2. \A s \in Matched : Settled(s) => Settled(s)'
    BY <1>6 DEF Settled, Protected
  <2> QED BY <1>0, <1>6, <2>1, <2>2
<1>7. ASSUME NEW t \in Tickets, OrphanIdle(t) PROVE Progress'
  <2>1. /\ UNCHANGED <<units, stops, phase, snap, erred, missed>> /\ phase = "orphaned"
        /\ t \in todo /\ fsm' = [fsm EXCEPT ![symbol[t]] = "IDLE"]
    BY <1>7 DEF OrphanIdle, SetSymbolStateIdle, tradingVars
  <2>2. symbol[t] \notin Matched
    BY <2>1 DEF LifeInv, Queried, Orphaned, Matched
  <2>3. \A s \in Matched : fsm'[s] = fsm[s]
    BY <1>0, <2>1, <2>2 DEF Matched
  <2> QED BY <1>6, <2>1, <2>3
<1>8. ASSUME NEW p \in Procs, NEW w \in Sessions, InvalidateSession(p, w) PROVE Progress'
  <2>1. UNCHANGED <<units, stops, phase, snap, erred, missed, fsm>> /\ phase = "sessions"
    BY <1>8 DEF InvalidateSession, InvalidateMark, tradingVars
  <2> QED BY <1>6, <2>1
<1>9. ASSUME NEW p \in Procs, SessionFsm(p) PROVE Progress'
  <2>1. UNCHANGED <<units, stops, phase, snap, erred, missed>> /\ phase = "sessions"
    BY <1>9 DEF SessionFsm, InvalidateFsm, tradingVars, recoveryVars
  <2>2. \/ (fsm' = [fsm EXCEPT ![op[p].symbol] = "IDLE"] /\ fsm[op[p].symbol] = "WATCHING")
        \/ fsm' = fsm
    BY <1>9 DEF SessionFsm, InvalidateFsm, GuardedSetFsm
  <2>3. \A s \in Symbols : fsm'[s] = fsm[s] \/ fsm[s] # "HAS_POSITION"
    BY <1>0, <2>2
  <2> QED BY <1>6, <2>1, <2>3 DEF Matched
<1>10. CASE BootFails \/ CandlesStart
  BY <1>10 DEF BootFails, CandlesStart
<1> QED
  BY <1>1, <1>2, <1>3, <1>4, <1>5, <1>7, <1>8, <1>9, <1>10, ProgressStill DEF Boot

LEMMA ProgressHolds == LifeSpec => []Progress
<1>1. LifeInit => Progress
  BY DEF LifeInit, Progress, AfterUnmatched, AfterMatched, AtMatched, AfterQuery, AfterFetch, Booting
<1>2. LifeInv /\ Progress /\ [LifeNext]_lifeVars => Progress'
  <2>1. phase' \notin Booting => Progress'
    BY DEF Progress, AfterUnmatched, AfterMatched, AtMatched, AfterQuery, AfterFetch, Booting
  <2> QED BY <2>1, ProgressEnv, ProgressBoot
<1> QED BY <1>1, <1>2, LifeInvHolds, PTL DEF LifeSpec

\* Once recovery has returned, a position it could fetch, and that is still as it
\* was fetched, has its ticket, HAS_POSITION and a stop order, or is one whose
\* emergency close failed - from whatever state the last run of the daemon left.
THEOREM LifeRecoveredAgrees == LifeSpec => []RecoveredAgrees
<1>1. LifeInv /\ Progress => RecoveredAgrees
  <2> SUFFICES ASSUME LifeInv, Progress, phase = "candles",
                      NEW s \in Symbols \ (erred \cup missed \cup Pending),
                      units[s] > 0, units[s] = snap.seen[s]
               PROVE  ActiveTickets(s) # {} /\ fsm[s] = "HAS_POSITION" /\ stops[s]
    BY DEF RecoveredAgrees
  <2>0. units[s] \in Nat
    BY DEF LifeInv, LifeTypes
  <2>1. /\ \A r \in Matched \ erred : Settled(r)
        /\ \A r \in Unmatched \ (missed \cup erred) : units[r] = 0
    BY DEF Progress, AfterUnmatched, AfterMatched, AtMatched, AfterQuery, AfterFetch, Booting
  <2>2. s \in Matched
    BY <2>0, <2>1 DEF Matched, Unmatched
  <2>3. Settled(s) /\ Ticketed(s)
    BY <2>1, <2>2 DEF Matched
  <2>4. fsm[s] = "HAS_POSITION" /\ stops[s]
    BY <2>0, <2>3 DEF Settled, Protected
  <2>5. ActiveTickets(s) # {}
    BY <2>3 DEF Ticketed, ActiveTickets, LifeInv, Queried, AfterQuery, AfterFetch, Booting
  <2> QED BY <2>4, <2>5
<1> QED BY <1>1, LifeInvHolds, ProgressHolds, PTL

-----------------------------------------------------------------------------
\* The kill switch only closes; whatever opens behind it is counted.
LEMMA LateCounts ==
  ASSUME LifeInv, [LifeNext]_lifeVars, NEW s \in Symbols
  PROVE  /\ units'[s] \in Nat /\ late'[s] \in Nat /\ late[s] <= late'[s]
         /\ FetchedByKill(s) => units'[s] - late'[s] <= units[s] - late[s]
<1>1. units \in [Symbols -> Nat] /\ late \in [Symbols -> Nat]
  BY DEF LifeInv, LifeTypes
<1>2. units' \in [Symbols -> Nat] /\ units'[s] <= units[s] + 1
  BY UnitsChange
<1>3. CountLate \/ UNCHANGED <<units, late>>
  BY DEF LifeNext, lifeVars, tradingVars, killVars
<1> QED BY <1>1, <1>2, <1>3 DEF CountLate

LEMMA KillTrueStep == LifeInv /\ KillTrue /\ [LifeNext]_lifeVars => KillTrue'
<1> SUFFICES ASSUME LifeInv, KillTrue, [LifeNext]_lifeVars,
                    NEW s \in Symbols, s \notin kill'.failed, s \notin kill'.missed, FetchedByKill(s)'
             PROVE  units'[s] <= late'[s]
                      + (IF kill'.at = "close" /\ s = kill'.cur THEN kill'.size ELSE 0)
  BY DEF KillTrue
<1>0. /\ kill \in KillTypes /\ units \in [Symbols -> Nat] /\ late \in [Symbols -> Nat]
      /\ kill.at = "close" => kill.cur \notin kill.left
  BY DEF LifeInv, LifeTypes
<1>1. /\ units'[s] \in Nat /\ late'[s] \in Nat /\ late[s] <= late'[s]
      /\ FetchedByKill(s) => units'[s] - late'[s] <= units[s] - late[s]
  BY LateCounts
<1>2. ASSUME FetchedByKill(s), s \notin kill.failed, s \notin kill.missed
      PROVE  units[s] <= late[s] + (IF kill.at = "close" /\ s = kill.cur THEN kill.size ELSE 0)
  BY <1>2 DEF KillTrue
<1>3. kill.size \in Nat /\ units[s] \in Nat /\ late[s] \in Nat
  BY <1>0 DEF KillTypes
<1>4. CASE UNCHANGED kill
  BY <1>1, <1>2, <1>3, <1>4 DEF FetchedByKill
<1>5. CASE KillStart
  BY <1>0, <1>5 DEF KillStart, FetchedByKill, KillTypes
<1>6. ASSUME NEW r \in Symbols, KillFetch(r)
      PROVE  units'[s] <= late'[s] + (IF kill'.at = "close" /\ s = kill'.cur THEN kill'.size ELSE 0)
  <2>1. units' = units /\ kill.at = "fetch"
    BY <1>6 DEF KillFetch, Quiet, tradingVars
  <2>2. CASE units[r] = 0
    <3>1. kill' = [kill EXCEPT !.left = @ \ {r}]
      BY <1>6, <2>2 DEF KillFetch
    <3>2. /\ kill'.at = "fetch" /\ kill'.left = kill.left \ {r}
          /\ kill'.failed = kill.failed /\ kill'.missed = kill.missed
      BY <1>0, <2>1, <3>1 DEF KillTypes
    <3>3. s = r \/ FetchedByKill(s)
      BY <2>1, <3>2 DEF FetchedByKill
    <3> QED BY <1>1, <1>2, <1>3, <2>1, <2>2, <3>2, <3>3
  <2>3. CASE units[r] # 0
    <3>1. kill' = [kill EXCEPT !.at = "close", !.left = @ \ {r}, !.cur = r, !.size = units[r]]
      BY <1>6, <2>3 DEF KillFetch
    <3>2. /\ kill'.at = "close" /\ kill'.left = kill.left \ {r} /\ kill'.cur = r
          /\ kill'.size = units[r] /\ kill'.failed = kill.failed /\ kill'.missed = kill.missed
      BY <1>0, <3>1 DEF KillTypes
    <3>3. s = r \/ FetchedByKill(s)
      BY <2>1, <3>2 DEF FetchedByKill
    <3> QED BY <1>1, <1>2, <1>3, <2>1, <3>2, <3>3
  <2> QED BY <2>2, <2>3
<1>7. ASSUME NEW r \in Symbols, KillFetchFails(r)
      PROVE  units'[s] <= late'[s] + (IF kill'.at = "close" /\ s = kill'.cur THEN kill'.size ELSE 0)
  <2>1. kill.at = "fetch" /\ kill' = [kill EXCEPT !.left = @ \ {r}, !.failed = @ \cup {r}]
    BY <1>7 DEF KillFetchFails
  <2>2. /\ kill'.at = "fetch" /\ kill'.left = kill.left \ {r}
        /\ kill'.failed = kill.failed \cup {r} /\ kill'.missed = kill.missed
    BY <1>0, <2>1 DEF KillTypes
  <2>3. FetchedByKill(s)
    BY <2>1, <2>2 DEF FetchedByKill
  <2> QED BY <1>1, <1>2, <1>3, <2>1, <2>2, <2>3
<1>8. ASSUME KillClose \/ KillCloseFails
      PROVE  units'[s] <= late'[s] + (IF kill'.at = "close" /\ s = kill'.cur THEN kill'.size ELSE 0)
  <2>1. PICK m : kill' = Fetching(m) /\ (m = kill.missed \/ m = kill.missed \cup {kill.cur})
    BY <1>8 DEF KillClose, KillCloseFails
  <2>2. /\ kill.at = "close" /\ kill'.at = "fetch" /\ kill'.left = kill.left
        /\ kill'.failed = kill.failed /\ kill'.missed = m
    BY <1>0, <1>8, <2>1 DEF KillClose, KillCloseFails, Fetching, KillTypes
  <2>3. FetchedByKill(s)
    BY <2>2 DEF FetchedByKill
  <2>4. units[s] <= late[s] + (IF s = kill.cur THEN kill.size ELSE 0)
    BY <1>2, <2>1, <2>2, <2>3
  <2>5. CASE s # kill.cur
    BY <1>1, <1>3, <2>2, <2>3, <2>4, <2>5
  <2>6. CASE s = kill.cur
    <3>1. KillClose
      <4>1. ASSUME KillCloseFails PROVE FALSE
        <5>1. kill' = [kill EXCEPT !.at = "fetch", !.cur = NoSymbol, !.size = 0,
                                   !.missed = kill.missed \cup {kill.cur}]
          BY <4>1 DEF KillCloseFails, Fetching
        <5>2. kill'.missed = kill.missed \cup {kill.cur}
          BY <1>0, <5>1 DEF KillTypes
        <5> QED BY <2>6, <5>2
      <4> QED BY <1>8, <4>1
    <3>2. units'[s] = IF units[s] > kill.size THEN units[s] - kill.size ELSE 0
      BY <1>0, <2>6, <3>1 DEF KillClose, ReduceOnly
    <3> QED BY <1>1, <1>3, <2>2, <2>4, <2>6, <3>2
  <2> QED BY <2>5, <2>6
<1>9. ASSUME KillOrders \/ KillMode \/ \E r \in Symbols : KillCancel(r)
      PROVE  units'[s] <= late'[s] + (IF kill'.at = "close" /\ s = kill'.cur THEN kill'.size ELSE 0)
  <2>1. kill.at \in {"fetch", "cancel"} /\ (kill.at = "fetch" => kill.left = {})
    BY <1>9 DEF KillOrders, KillMode, KillCancel
  <2>2. /\ kill'.at \in {"cancel", "done"} /\ kill.failed \subseteq kill'.failed
        /\ kill'.missed = kill.missed
    <3>1. ASSUME NEW a \in {"cancel", "done"}, NEW l,
                 \/ kill' = [kill EXCEPT !.at = a]
                 \/ kill' = [kill EXCEPT !.at = a, !.left = l]
                 \/ kill' = [kill EXCEPT !.at = a, !.failed = @ \cup {"other"}]
          PROVE  /\ kill'.at \in {"cancel", "done"} /\ kill.failed \subseteq kill'.failed
                 /\ kill'.missed = kill.missed
      <4>1. CASE kill' = [kill EXCEPT !.at = a]
        BY <1>0, <4>1 DEF KillTypes
      <4>2. CASE kill' = [kill EXCEPT !.at = a, !.left = l]
        BY <1>0, <4>2 DEF KillTypes
      <4>3. CASE kill' = [kill EXCEPT !.at = a, !.failed = @ \cup {"other"}]
        BY <1>0, <4>3 DEF KillTypes
      <4> QED BY <3>1, <4>1, <4>2, <4>3
    <3>2. ASSUME NEW r \in Symbols, KillCancel(r)
          PROVE  /\ kill'.at \in {"cancel", "done"} /\ kill.failed \subseteq kill'.failed
                 /\ kill'.missed = kill.missed
      <4>1. CASE kill' = [kill EXCEPT !.left = @ \ {r}]
        BY <1>0, <3>2, <4>1 DEF KillCancel, KillTypes
      <4>2. CASE kill' = [kill EXCEPT !.left = @ \ {r}, !.failed = @ \cup {"other"}]
        BY <1>0, <3>2, <4>2 DEF KillCancel, KillTypes
      <4> QED BY <3>2, <4>1, <4>2 DEF KillCancel
    <3>3. KillOrders \/ KillMode =>
            \E a \in {"cancel", "done"} : \E l :
               \/ kill' = [kill EXCEPT !.at = a]
               \/ kill' = [kill EXCEPT !.at = a, !.left = l]
               \/ kill' = [kill EXCEPT !.at = a, !.failed = @ \cup {"other"}]
      BY DEF KillOrders, KillMode
    <3> QED BY <1>9, <3>1, <3>2, <3>3
  <2>3. FetchedByKill(s)
    BY <2>1 DEF FetchedByKill
  <2> QED BY <1>1, <1>2, <1>3, <2>1, <2>2, <2>3
<1>10. UNCHANGED kill \/ KillSwitch
  BY DEF LifeNext, lifeVars, killVars
<1> QED BY <1>4, <1>5, <1>6, <1>7, <1>8, <1>9, <1>10 DEF KillSwitch

\* When the kill switch is done, every unit still open was opened after it had
\* fetched the symbol, unless it failed there - however many fetches, fills and
\* crashes went on meanwhile.
THEOREM LifeKillLeavesLate == LifeSpec => []KillLeavesLate
<1>1. LifeInit => KillTrue
  <2>1. LifeInit => kill.at = "idle"
    BY DEF LifeInit, NoKill
  <2> QED BY <2>1 DEF KillTrue, FetchedByKill
<1>2. LifeInv /\ KillTrue => KillLeavesLate
  <2> SUFFICES ASSUME LifeInv, KillTrue, kill.at = "done",
                      NEW s \in Symbols \ (kill.failed \cup kill.missed)
               PROVE  units[s] <= late[s]
    BY DEF KillLeavesLate
  <2>1. late[s] \in Nat
    BY DEF LifeInv, LifeTypes
  <2> QED BY <2>1 DEF KillTrue, FetchedByKill
<1> QED BY <1>1, <1>2, LifeInvHolds, KillTrueStep, PTL DEF LifeSpec
=============================================================================
