---------------------------- MODULE TicketStore ----------------------------
(***************************************************************************)
(* The position state that combine-trade keeps in PostgreSQL: one          *)
(* symbol_state row per symbol, the tickets table and the watch_session    *)
(* table, and the operations of positions/ticket-manager.ts,               *)
(* positions/pyramid.ts and signals/watching.ts on them.                   *)
(*                                                                         *)
(* Handlers run concurrently: every candle close starts one, and each      *)
(* `await` of a database call lets another run.  An operation that is one  *)
(* database transaction is one step here, except createTicket, whose row   *)
(* lock is held from its checks to its writes; an operation that is        *)
(* several statements is several steps.  A thrown error rolls the          *)
(* transaction back, so a refused operation changes nothing.               *)
(***************************************************************************)
EXTENDS Naturals, FiniteSets

CONSTANTS
  Procs,           \* concurrent handlers
  Symbols,         \* symbol x exchange pairs
  Tickets,         \* ticket ids
  Sessions,        \* watch session ids
  MaxPyramid,      \* POSITION.max_pyramid_count; 0 where nothing pyramids
  MaxCrashes,      \* bound on the number of daemon crashes explored
  TargetStates,    \* the states the callers of transitionTicket ask for
  Recovery,        \* the symbols whose fsm crash recovery and reconciliation may write
  NoProc, NoSymbol, NoTicket, NoSession

FsmStates    == {"IDLE", "WATCHING", "HAS_POSITION"}
ActiveStates == {"INITIAL", "TP1_HIT", "TP2_HIT"}
TicketStates == ActiveStates \cup {"CLOSED"}
PCs == {"ready", "create", "pyramid", "openInsert", "openFsm", "invalidateFsm"}

ASSUME BoundsAssumption == MaxPyramid \in Nat /\ MaxCrashes \in Nat
ASSUME TargetsAssumption == TargetStates \subseteq TicketStates
ASSUME RecoveryAssumption == Recovery \subseteq Symbols
ASSUME NullsAssumption ==
  /\ NoProc \notin Procs
  /\ NoSymbol \notin Symbols
  /\ NoTicket \notin Tickets
  /\ NoSession \notin Sessions

VARIABLES
  fsm,       \* symbol_state.fsm_state
  lock,      \* who holds the symbol_state row FOR UPDATE across steps
  state,     \* tickets.state, "ABSENT" before the row is inserted
  symbol,    \* tickets.symbol
  parent,    \* tickets.parent_ticket_id
  pyramids,  \* tickets.pyramid_count
  session,   \* watch_session: "unused", "active" or "invalidated"
  watches,   \* watch_session.symbol
  op,        \* the operation each handler is in the middle of
  crashes    \* how often the daemon crashed

ticketVars  == <<state, symbol, parent, pyramids>>
sessionVars == <<session, watches>>
vars == <<fsm, lock, state, symbol, parent, pyramids, session, watches, op, crashes>>

Doing(pc, s) == [pc |-> pc, symbol |-> s, ticket |-> NoTicket, count |-> 0]
Ready == Doing("ready", NoSymbol)
Ops == [pc : PCs, symbol : Symbols \cup {NoSymbol},
        ticket : Tickets \cup {NoTicket}, count : 0..MaxPyramid]

-----------------------------------------------------------------------------
\* TRANSITION_MAP and canTransition of positions/fsm.ts
CanTransitionSkipping(from, to) ==                \* variant: TP1 may be skipped
  from \in ActiveStates /\ to \in TicketStates \ {"INITIAL", from}

CanTransition(from, to) ==
  \/ from \in ActiveStates /\ to = "CLOSED"
  \/ from = "INITIAL" /\ to = "TP1_HIT"
  \/ from = "TP1_HIT" /\ to = "TP2_HIT"

\* SYMBOL_STATE_TRANSITION_MAP of positions/fsm.ts
CanSymbolStateTransition(from, to) ==
  <<from, to>> \in {<<"IDLE", "WATCHING">>, <<"WATCHING", "HAS_POSITION">>,
                    <<"WATCHING", "IDLE">>, <<"HAS_POSITION", "IDLE">>}

ActiveTickets(s) == {t \in Tickets : state[t] \in ActiveStates /\ symbol[t] = s}
ActiveRoots(s)   == {t \in ActiveTickets(s) : parent[t] = NoTicket}
Children(t)      == {c \in Tickets : parent[c] = t}
ActiveSessions(s) == {w \in Sessions : session[w] = "active" /\ watches[w] = s}

Unlocked(s) == lock[s] = NoProc

InsertTicket(t, s, p) ==
  /\ state[t] = "ABSENT"
  /\ state' = [state EXCEPT ![t] = "INITIAL"]
  /\ symbol' = [symbol EXCEPT ![t] = s]
  /\ parent' = [parent EXCEPT ![t] = p]

Finish(p) == op' = [op EXCEPT ![p] = Ready]

-----------------------------------------------------------------------------
Init ==
  /\ fsm = [s \in Symbols |-> "IDLE"]
  /\ lock = [s \in Symbols |-> NoProc]
  /\ state = [t \in Tickets |-> "ABSENT"]
  /\ symbol = [t \in Tickets |-> NoSymbol]
  /\ parent = [t \in Tickets |-> NoTicket]
  /\ pyramids = [t \in Tickets |-> 0]
  /\ session = [w \in Sessions |-> "unused"]
  /\ watches = [w \in Sessions |-> NoSymbol]
  /\ op = [p \in Procs |-> Ready]
  /\ crashes = 0

(***************************************************************************)
(* createTicket: one transaction that locks the symbol_state row.  The     *)
(* checks and the writes are separate statements, between which anything   *)
(* that does not need that row's lock may happen.                          *)
(***************************************************************************)
MayCreateUnchecked(s) == fsm[s] = "WATCHING"     \* variant: no duplicate check
MayCreateAnyState(s) == ActiveTickets(s) = {}     \* variant: no fsm check
MayCreate(s) == fsm[s] = "WATCHING" /\ ActiveTickets(s) = {}

CreateBegin(p, s) ==
  /\ op[p].pc = "ready"
  /\ Unlocked(s)
  /\ MayCreate(s)
  /\ lock' = [lock EXCEPT ![s] = p]
  /\ op' = [op EXCEPT ![p] = Doing("create", s)]
  /\ UNCHANGED <<fsm, ticketVars, sessionVars, crashes>>

CreateCommit(p, t) ==
  LET s == op[p].symbol IN
  /\ op[p].pc = "create"
  /\ InsertTicket(t, s, NoTicket)
  /\ fsm' = [fsm EXCEPT ![s] = "HAS_POSITION"]
  /\ lock' = [lock EXCEPT ![s] = NoProc]
  /\ Finish(p)
  /\ UNCHANGED <<pyramids, sessionVars, crashes>>

\* The INSERT fails (signal_id is UNIQUE and a foreign key): rolled back.
CreateRollback(p) ==
  /\ op[p].pc = "create"
  /\ lock' = [lock EXCEPT ![op[p].symbol] = NoProc]
  /\ Finish(p)
  /\ UNCHANGED <<fsm, ticketVars, sessionVars, crashes>>

(***************************************************************************)
(* transitionTicket locks the ticket row only; closeTicket locks the       *)
(* symbol_state row first and sets it IDLE whatever it is.                 *)
(***************************************************************************)
TransitionTicket(t, to) ==
  /\ CanTransition(state[t], to)
  /\ state' = [state EXCEPT ![t] = to]
  /\ UNCHANGED <<fsm, lock, symbol, parent, pyramids, sessionVars, op, crashes>>

CloseTicketRowOnly(t) ==                    \* variant: symbol_state forgotten
  /\ CanTransition(state[t], "CLOSED")
  /\ Unlocked(symbol[t])
  /\ state' = [state EXCEPT ![t] = "CLOSED"]
  /\ UNCHANGED <<fsm, lock, symbol, parent, pyramids, sessionVars, op, crashes>>

CloseTicket(t) ==
  /\ CanTransition(state[t], "CLOSED")
  /\ Unlocked(symbol[t])
  /\ state' = [state EXCEPT ![t] = "CLOSED"]
  /\ fsm' = [fsm EXCEPT ![symbol[t]] = "IDLE"]
  /\ UNCHANGED <<lock, symbol, parent, pyramids, sessionVars, op, crashes>>

(***************************************************************************)
(* executePyramid: canPyramid on the caller's copy of the parent row, then *)
(* the entry order on the exchange, then a transaction that inserts the    *)
(* child and writes the copy's pyramid_count + 1, without any lock.  The   *)
(* breakeven test of canPyramid depends on prices: it may fail at will, so *)
(* this step is simply not taken.                                          *)
(***************************************************************************)
CanPyramid(t) == state[t] \in {"TP1_HIT", "TP2_HIT"} /\ pyramids[t] < MaxPyramid

PyramidCheckCounting(p, t) ==            \* variant: counted before the order
  /\ op[p].pc = "ready"
  /\ CanPyramid(t)
  /\ pyramids' = [pyramids EXCEPT ![t] = @ + 1]
  /\ op' = [op EXCEPT ![p] =
              [pc |-> "pyramid", symbol |-> symbol[t], ticket |-> t, count |-> pyramids[t]]]
  /\ UNCHANGED <<fsm, lock, state, symbol, parent, sessionVars, crashes>>

PyramidCheck(p, t) ==
  /\ op[p].pc = "ready"
  /\ CanPyramid(t)
  /\ op' = [op EXCEPT ![p] =
              [pc |-> "pyramid", symbol |-> symbol[t], ticket |-> t, count |-> pyramids[t]]]
  /\ UNCHANGED <<fsm, lock, ticketVars, sessionVars, crashes>>

PyramidCommit(p, c) ==
  /\ op[p].pc = "pyramid"
  /\ InsertTicket(c, op[p].symbol, op[p].ticket)
  /\ pyramids' = [pyramids EXCEPT ![op[p].ticket] = op[p].count + 1]
  /\ Finish(p)
  /\ UNCHANGED <<fsm, lock, sessionVars, crashes>>

\* Sizing or the entry order fails, or the transaction is rolled back.
PyramidAbort(p) ==
  /\ op[p].pc = "pyramid"
  /\ Finish(p)
  /\ UNCHANGED <<fsm, lock, ticketVars, sessionVars, crashes>>

(***************************************************************************)
(* openWatchSession: three statements.  The unique index on active         *)
(* sessions makes the INSERT fail where another one slipped in.            *)
(***************************************************************************)
OpenInvalidate(p, s) ==
  /\ op[p].pc = "ready"
  /\ session' = [w \in Sessions |-> IF w \in ActiveSessions(s) THEN "invalidated" ELSE session[w]]
  /\ op' = [op EXCEPT ![p] = Doing("openInsert", s)]
  /\ UNCHANGED <<fsm, lock, ticketVars, watches, crashes>>

OpenInsert(p, w) ==
  /\ op[p].pc = "openInsert"
  /\ session[w] = "unused"
  /\ ActiveSessions(op[p].symbol) = {}
  /\ session' = [session EXCEPT ![w] = "active"]
  /\ watches' = [watches EXCEPT ![w] = op[p].symbol]
  /\ op' = [op EXCEPT ![p] = Doing("openFsm", op[p].symbol)]
  /\ UNCHANGED <<fsm, lock, ticketVars, crashes>>

OpenFails(p) ==
  /\ op[p].pc = "openInsert"
  /\ Finish(p)
  /\ UNCHANGED <<fsm, lock, ticketVars, sessionVars, crashes>>

\* UPDATE ... WHERE fsm_state = from, which waits for the row's lock
SetFsm(s, from, to) ==                        \* variant: no WHERE on fsm_state
  Unlocked(s) /\ fsm' = [fsm EXCEPT ![s] = to]

GuardedSetFsm(s, from, to) ==
  /\ Unlocked(s)
  /\ fsm' = IF fsm[s] = from THEN [fsm EXCEPT ![s] = to] ELSE fsm

OpenFsm(p) ==
  /\ op[p].pc = "openFsm"
  /\ GuardedSetFsm(op[p].symbol, "IDLE", "WATCHING")
  /\ Finish(p)
  /\ UNCHANGED <<lock, ticketVars, sessionVars, crashes>>

\* invalidateWatchSession: neither statement asks whether w is still active.
InvalidateMark(p, w) ==
  /\ op[p].pc = "ready"
  /\ session[w] # "unused"
  /\ session' = [session EXCEPT ![w] = "invalidated"]
  /\ op' = [op EXCEPT ![p] = Doing("invalidateFsm", watches[w])]
  /\ UNCHANGED <<fsm, lock, ticketVars, watches, crashes>>

InvalidateFsm(p) ==
  /\ op[p].pc = "invalidateFsm"
  /\ GuardedSetFsm(op[p].symbol, "WATCHING", "IDLE")
  /\ Finish(p)
  /\ UNCHANGED <<lock, ticketVars, sessionVars, crashes>>

(***************************************************************************)
(* The callbacks of crash recovery and reconciliation that write the       *)
(* symbol_state row: the symbol of a ticket found orphaned (it may have    *)
(* been closed since) becomes IDLE, a matched one's HAS_POSITION.  src/    *)
(* only declares them.                                                     *)
(***************************************************************************)
SetSymbolStateIdle(s) ==
  /\ s \in Recovery
  /\ Unlocked(s) /\ \E t \in Tickets : symbol[t] = s
  /\ fsm' = [fsm EXCEPT ![s] = "IDLE"]
  /\ UNCHANGED <<lock, ticketVars, sessionVars, op, crashes>>

SetFsmState(s) ==                   \* at start-up, before any handler runs
  /\ s \in Recovery
  /\ \A p \in Procs : op[p] = Ready
  /\ Unlocked(s) /\ ActiveTickets(s) # {}
  /\ fsm' = [fsm EXCEPT ![s] = "HAS_POSITION"]
  /\ UNCHANGED <<lock, ticketVars, sessionVars, op, crashes>>

\* The daemon dies: every handler is lost, its open transaction rolled back.
Crash ==
  /\ crashes < MaxCrashes
  /\ crashes' = crashes + 1
  /\ op' = [p \in Procs |-> Ready]
  /\ lock' = [s \in Symbols |-> NoProc]
  /\ UNCHANGED <<fsm, ticketVars, sessionVars>>

TicketStep ==
  \/ \E p \in Procs, s \in Symbols : CreateBegin(p, s)
  \/ \E p \in Procs, t \in Tickets : CreateCommit(p, t)
  \/ \E p \in Procs : CreateRollback(p)
  \/ \E t \in Tickets, to \in TargetStates : TransitionTicket(t, to)
  \/ \E t \in Tickets : CloseTicket(t)

PyramidStep ==
  \/ \E p \in Procs, t \in Tickets : PyramidCheck(p, t)
  \/ \E p \in Procs, c \in Tickets : PyramidCommit(p, c)
  \/ \E p \in Procs : PyramidAbort(p)

SessionStep ==
  \/ \E p \in Procs, s \in Symbols : OpenInvalidate(p, s)
  \/ \E p \in Procs, w \in Sessions : OpenInsert(p, w)
  \/ \E p \in Procs : OpenFails(p)
  \/ \E p \in Procs : OpenFsm(p)
  \/ \E p \in Procs, w \in Sessions : InvalidateMark(p, w)
  \/ \E p \in Procs : InvalidateFsm(p)

RecoveryStep ==
  \/ \E s \in Symbols : SetSymbolStateIdle(s)
  \/ \E s \in Symbols : SetFsmState(s)
  \/ Crash

Next == TicketStep \/ PyramidStep \/ SessionStep \/ RecoveryStep

Spec == Init /\ [][Next]_vars
-----------------------------------------------------------------------------
\* Every variable keeps its type; a stored ticket belongs to a symbol.
TypeOK ==
  /\ fsm \in [Symbols -> FsmStates]
  /\ lock \in [Symbols -> Procs \cup {NoProc}]
  /\ state \in [Tickets -> TicketStates \cup {"ABSENT"}]
  /\ symbol \in [Tickets -> Symbols \cup {NoSymbol}]
  /\ parent \in [Tickets -> Tickets \cup {NoTicket}]
  /\ pyramids \in [Tickets -> 0..MaxPyramid]
  /\ session \in [Sessions -> {"unused", "active", "invalidated"}]
  /\ watches \in [Sessions -> Symbols \cup {NoSymbol}]
  /\ op \in [Procs -> Ops]
  /\ crashes \in 0..MaxCrashes
  /\ \A t \in Tickets : state[t] # "ABSENT" => symbol[t] \in Symbols

\* A symbol never has two active tickets that are not pyramid children of
\* another: createTicket's precondition "No active ticket (state != CLOSED) for
\* this symbol" holds up to its own commit, whatever runs in between.
OneActiveRoot == \A s \in Symbols : \A t, u \in ActiveRoots(s) : t = u

\* A symbol in HAS_POSITION has an active ticket.
PositionHasTicket ==
  \A s \in Symbols : fsm[s] = "HAS_POSITION" => ActiveTickets(s) # {}

\* A symbol some ticket of which is a pyramid child.
Pyramided(s) == \E c \in Tickets : state[c] # "ABSENT" /\ symbol[c] = s /\ parent[c] # NoTicket

\* Where recovery does not write, the two tables agree on every symbol that has not
\* pyramided: HAS_POSITION exactly where the symbol has an active ticket, though
\* createTicket and closeTicket write them in separate statements and watch
\* sessions write fsm_state too.
PositionAgrees ==
  \A s \in Symbols \ Recovery :
    ~Pyramided(s) => (fsm[s] = "HAS_POSITION" <=> ActiveTickets(s) # {})

\* pyramid_count never claims more children than the table holds, whatever
\* add-ons fail or run side by side (it may claim fewer: the last writer wins).
PyramidsCounted == \A t \in Tickets : pyramids[t] <= Cardinality(Children(t))

\* Where recovery does not write, symbol_state.fsm_state only moves along
\* SYMBOL_STATE_TRANSITION_MAP, though no operation calls validateSymbolStateTransition.
FsmFollowsMap ==
  [][\A s \in Symbols \ Recovery :
       fsm'[s] # fsm[s] => CanSymbolStateTransition(fsm[s], fsm'[s])]_vars

\* The store implements one position lifecycle per symbol.
position == [s \in Symbols |-> {state[t] : t \in ActiveRoots(s)}]
Lifecycle == INSTANCE PositionLifecycle WITH Symbols <- Symbols, position <- position
ImplementsLifecycle == Lifecycle!Spec
=============================================================================
