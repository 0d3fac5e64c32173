------------------------- MODULE TicketStoreProofs -------------------------
(***************************************************************************)
(* Proofs about the ticket store, for any number of handlers, symbols,     *)
(* tickets, sessions and crashes.                                          *)
(*                                                                         *)
(* OneActiveRoot is not inductive: a handler between createTicket's checks *)
(* and its INSERT relies on nothing having changed meanwhile.  The         *)
(* strengthening says what the row lock guarantees it: it alone holds the  *)
(* lock of its symbol, which is still WATCHING and has no active root.     *)
(***************************************************************************)
EXTENDS TicketStore, FiniteSetTheorems, TLAPS

\* What a handler in the middle of createTicket may rely on.
CreatorsHoldLock ==
  \A p \in Procs : op[p].pc = "create" =>
    /\ op[p].symbol \in Symbols
    /\ lock[op[p].symbol] = p
    /\ fsm[op[p].symbol] = "WATCHING"
    /\ \A t \in Tickets : ~(state[t] \in ActiveStates /\ symbol[t] = op[p].symbol
                             /\ parent[t] = NoTicket)

\* What a handler in the middle of executePyramid carries.
PyramidersCarryParent ==
  \A p \in Procs : op[p].pc = "pyramid" =>
    op[p].symbol \in Symbols /\ op[p].ticket \in Tickets /\ op[p].count < MaxPyramid

\* OneActiveRoot with its sets unfolded, the form the provers handle best.
OneRoot ==
  \A t, u \in Tickets :
    /\ state[t] \in ActiveStates /\ state[u] \in ActiveStates
    /\ parent[t] = NoTicket /\ parent[u] = NoTicket
    /\ symbol[t] = symbol[u]
    => t = u

IInv == TypeOK /\ CreatorsHoldLock /\ PyramidersCarryParent /\ OneRoot

\* The record of an operation in progress is well typed.
LEMMA DoingType ==
  ASSUME NEW pc \in PCs, NEW s \in Symbols \cup {NoSymbol}
  PROVE  Doing(pc, s) \in Ops
BY BoundsAssumption DEF Doing, Ops

LEMMA ReadyType == Ready \in Ops
BY DoingType DEF Ready, PCs

LEMMA InitIInv == Init => IInv
<1> SUFFICES ASSUME Init PROVE IInv
  OBVIOUS
<1>1. TypeOK
  BY ReadyType, BoundsAssumption DEF Init, TypeOK, FsmStates
<1>2. \A p \in Procs : op[p].pc = "ready"
  BY DEF Init, Ready, Doing
<1>3. OneRoot
  BY DEF Init, OneRoot, ActiveStates
<1>4. QED
  BY <1>1, <1>2, <1>3 DEF IInv, CreatorsHoldLock, PyramidersCarryParent

\* Every step keeps the types.
LEMMA TypeStep == IInv /\ [Next]_vars => TypeOK'
<1> SUFFICES ASSUME IInv, [Next]_vars PROVE TypeOK'
  OBVIOUS
<1> USE DEF IInv, TypeOK
<1>1. ASSUME NEW p \in Procs, NEW s \in Symbols, CreateBegin(p, s) PROVE TypeOK'
  <2>1. Doing("create", s) \in Ops
    BY DoingType DEF PCs
  <2>2. QED
    BY <1>1, <2>1 DEF CreateBegin, ticketVars, sessionVars
<1>2. ASSUME NEW p \in Procs, NEW t \in Tickets, CreateCommit(p, t) PROVE TypeOK'
  <2>1. op[p].symbol \in Symbols
    BY <1>2 DEF CreateCommit, CreatorsHoldLock
  <2>2. QED
    BY <1>2, <2>1, ReadyType
       DEF CreateCommit, InsertTicket, Finish, sessionVars, FsmStates, TicketStates, ActiveStates
<1>3. ASSUME NEW p \in Procs, CreateRollback(p) PROVE TypeOK'
  BY <1>3, ReadyType DEF CreateRollback, Finish, ticketVars, sessionVars
<1>4. ASSUME NEW t \in Tickets, NEW to \in TargetStates, TransitionTicket(t, to) PROVE TypeOK'
  BY <1>4, TargetsAssumption DEF TransitionTicket, CanTransition, sessionVars, ActiveStates
<1>5. ASSUME NEW t \in Tickets, CloseTicket(t) PROVE TypeOK'
  BY <1>5 DEF CloseTicket, CanTransition, sessionVars, FsmStates, TicketStates, ActiveStates
<1>6. ASSUME NEW p \in Procs, NEW t \in Tickets, PyramidCheck(p, t) PROVE TypeOK'
  <2>1. symbol[t] \in Symbols
    BY <1>6 DEF PyramidCheck, CanPyramid
  <2>2. [pc |-> "pyramid", symbol |-> symbol[t], ticket |-> t, count |-> pyramids[t]] \in Ops
    BY <2>1 DEF Ops, PCs
  <2>3. QED
    BY <1>6, <2>2 DEF PyramidCheck, ticketVars, sessionVars
<1>7. ASSUME NEW p \in Procs, NEW c \in Tickets, PyramidCommit(p, c) PROVE TypeOK'
  <2>1. /\ op[p].symbol \in Symbols
        /\ op[p].ticket \in Tickets
        /\ op[p].count \in 0..MaxPyramid /\ op[p].count < MaxPyramid
    BY <1>7 DEF PyramidCommit, PyramidersCarryParent, Ops
  <2>2. op[p].count + 1 \in 0..MaxPyramid
    BY <2>1, BoundsAssumption
  <2>3. QED
    BY <1>7, <2>1, <2>2, ReadyType
       DEF PyramidCommit, InsertTicket, Finish, sessionVars, TicketStates, ActiveStates
<1>8. ASSUME NEW p \in Procs, PyramidAbort(p) PROVE TypeOK'
  BY <1>8, ReadyType DEF PyramidAbort, Finish, ticketVars, sessionVars
<1>9. ASSUME NEW p \in Procs, NEW s \in Symbols, OpenInvalidate(p, s) PROVE TypeOK'
  <2>1. Doing("openInsert", s) \in Ops
    BY DoingType DEF PCs
  <2>2. session' \in [Sessions -> {"unused", "active", "invalidated"}]
    BY <1>9 DEF OpenInvalidate
  <2>3. QED
    BY <1>9, <2>1, <2>2 DEF OpenInvalidate, ticketVars
<1>10. ASSUME NEW p \in Procs, NEW w \in Sessions, OpenInsert(p, w) PROVE TypeOK'
  <2>1. op[p].symbol \in Symbols \cup {NoSymbol}
    BY DEF Ops
  <2>2. Doing("openFsm", op[p].symbol) \in Ops
    BY <2>1, DoingType DEF PCs
  <2>3. QED
    BY <1>10, <2>1, <2>2 DEF OpenInsert, ticketVars
<1>11. ASSUME NEW p \in Procs, OpenFails(p) PROVE TypeOK'
  BY <1>11, ReadyType DEF OpenFails, Finish, ticketVars, sessionVars
<1>12. ASSUME NEW p \in Procs, OpenFsm(p) PROVE TypeOK'
  BY <1>12, ReadyType DEF OpenFsm, GuardedSetFsm, Finish, ticketVars, sessionVars, FsmStates
<1>13. ASSUME NEW p \in Procs, NEW w \in Sessions, InvalidateMark(p, w) PROVE TypeOK'
  <2>1. Doing("invalidateFsm", watches[w]) \in Ops
    BY DoingType DEF PCs
  <2>2. QED
    BY <1>13, <2>1 DEF InvalidateMark, ticketVars
<1>14. ASSUME NEW p \in Procs, InvalidateFsm(p) PROVE TypeOK'
  BY <1>14, ReadyType DEF InvalidateFsm, GuardedSetFsm, Finish, ticketVars, sessionVars, FsmStates
<1>15. ASSUME NEW s \in Symbols, SetSymbolStateIdle(s) PROVE TypeOK'
  BY <1>15 DEF SetSymbolStateIdle, ticketVars, sessionVars, FsmStates
<1>16. ASSUME NEW s \in Symbols, SetFsmState(s) PROVE TypeOK'
  BY <1>16 DEF SetFsmState, ticketVars, sessionVars, FsmStates
<1>17. CASE Crash
  BY <1>17, BoundsAssumption, ReadyType DEF Crash, ticketVars, sessionVars
<1>18. CASE UNCHANGED vars
  BY <1>18 DEF vars
<1>19. QED
  BY <1>1, <1>2, <1>3, <1>4, <1>5, <1>6, <1>7, <1>8, <1>9, <1>10, <1>11, <1>12, <1>13, <1>14,
     <1>15, <1>16, <1>17, <1>18 DEF Next, TicketStep, PyramidStep, SessionStep, RecoveryStep

-----------------------------------------------------------------------------
\* While a handler is between createTicket's checks and its INSERT, no other
\* step touches what it checked: they need the row's lock, or insert a child.
LEMMA CreatorStep == IInv /\ [Next]_vars => CreatorsHoldLock'
<1> SUFFICES ASSUME IInv, [Next]_vars, NEW q \in Procs, op'[q].pc = "create"
             PROVE  /\ op'[q].symbol \in Symbols
                    /\ lock'[op'[q].symbol] = q
                    /\ fsm'[op'[q].symbol] = "WATCHING"
                    /\ \A t \in Tickets : ~(state'[t] \in ActiveStates
                          /\ symbol'[t] = op'[q].symbol /\ parent'[t] = NoTicket)
  BY DEF CreatorsHoldLock
<1> DEFINE Holds == /\ op'[q].symbol \in Symbols
                    /\ lock'[op'[q].symbol] = q
                    /\ fsm'[op'[q].symbol] = "WATCHING"
                    /\ \A t \in Tickets : ~(state'[t] \in ActiveStates
                          /\ symbol'[t] = op'[q].symbol /\ parent'[t] = NoTicket)
<1> USE NullsAssumption DEF IInv, TypeOK, CreatorsHoldLock, Unlocked
<1>a. \A pc, s : Doing(pc, s).pc = pc /\ Doing(pc, s).symbol = s
  BY DEF Doing
<1>b. Ready.pc = "ready"
  BY DEF Ready, Doing
<1>1. ASSUME NEW p \in Procs, NEW s \in Symbols, CreateBegin(p, s) PROVE Holds
  <2>1. CASE q = p
    BY <1>1, <2>1, <1>a
       DEF CreateBegin, MayCreate, ActiveTickets, ticketVars
  <2>2. CASE q # p
    BY <1>1, <2>2 DEF CreateBegin, ticketVars
  <2>3. QED
    BY <2>1, <2>2
<1>2. ASSUME NEW p \in Procs, NEW t \in Tickets, CreateCommit(p, t) PROVE Holds
  <2>1. q # p
    BY <1>2, <1>b DEF CreateCommit, Finish
  <2>2. op'[q] = op[q] /\ op[q].symbol # op[p].symbol /\ op[p].symbol \in Symbols
    BY <1>2, <2>1 DEF CreateCommit, Finish
  <2>3. QED
    BY <1>2, <2>1, <2>2 DEF CreateCommit, InsertTicket
<1>3. ASSUME NEW p \in Procs, CreateRollback(p) PROVE Holds
  <2>1. q # p
    BY <1>3, <1>b DEF CreateRollback, Finish
  <2>2. op'[q] = op[q] /\ op[q].symbol # op[p].symbol
    BY <1>3, <2>1 DEF CreateRollback, Finish
  <2>3. QED
    BY <1>3, <2>1, <2>2 DEF CreateRollback, ticketVars
<1>4. ASSUME NEW t \in Tickets, NEW to \in TargetStates, TransitionTicket(t, to) PROVE Holds
  BY <1>4 DEF TransitionTicket, CanTransition, ActiveStates
<1>5. ASSUME NEW t \in Tickets, CloseTicket(t) PROVE Holds
  BY <1>5 DEF CloseTicket, CanTransition, ActiveStates
<1>6. ASSUME NEW p \in Procs, NEW t \in Tickets, PyramidCheck(p, t) PROVE Holds
  <2>1. q # p
    BY <1>6 DEF PyramidCheck
  <2>2. QED
    BY <1>6, <2>1 DEF PyramidCheck, ticketVars
<1>7. ASSUME NEW p \in Procs, NEW c \in Tickets, PyramidCommit(p, c) PROVE Holds
  <2>1. q # p
    BY <1>7, <1>b DEF PyramidCommit, Finish
  <2>2. op[p].ticket \in Tickets /\ op'[q] = op[q]
    BY <1>7, <2>1 DEF PyramidCommit, Finish, PyramidersCarryParent
  <2>3. QED
    BY <1>7, <2>1, <2>2 DEF PyramidCommit, InsertTicket
<1>8. ASSUME NEW p \in Procs, PyramidAbort(p) PROVE Holds
  <2>1. q # p
    BY <1>8, <1>b DEF PyramidAbort, Finish
  <2>2. QED
    BY <1>8, <2>1 DEF PyramidAbort, Finish, ticketVars
<1>9. ASSUME NEW p \in Procs, NEW s \in Symbols, OpenInvalidate(p, s) PROVE Holds
  <2>1. q # p
    BY <1>9, <1>a DEF OpenInvalidate
  <2>2. QED
    BY <1>9, <2>1 DEF OpenInvalidate, ticketVars
<1>10. ASSUME NEW p \in Procs, NEW w \in Sessions, OpenInsert(p, w) PROVE Holds
  <2>1. q # p
    BY <1>10, <1>a DEF OpenInsert
  <2>2. QED
    BY <1>10, <2>1 DEF OpenInsert, ticketVars
<1>11. ASSUME NEW p \in Procs, OpenFails(p) PROVE Holds
  <2>1. q # p
    BY <1>11, <1>b DEF OpenFails, Finish
  <2>2. QED
    BY <1>11, <2>1 DEF OpenFails, Finish, ticketVars
<1>12. ASSUME NEW p \in Procs, OpenFsm(p) PROVE Holds
  <2>1. q # p
    BY <1>12, <1>b DEF OpenFsm, Finish
  <2>2. QED
    BY <1>12, <2>1 DEF OpenFsm, GuardedSetFsm, Finish, ticketVars
<1>13. ASSUME NEW p \in Procs, NEW w \in Sessions, InvalidateMark(p, w) PROVE Holds
  <2>1. q # p
    BY <1>13, <1>a DEF InvalidateMark
  <2>2. QED
    BY <1>13, <2>1 DEF InvalidateMark, ticketVars
<1>14. ASSUME NEW p \in Procs, InvalidateFsm(p) PROVE Holds
  <2>1. q # p
    BY <1>14, <1>b DEF InvalidateFsm, Finish
  <2>2. QED
    BY <1>14, <2>1 DEF InvalidateFsm, GuardedSetFsm, Finish, ticketVars
<1>15. ASSUME NEW s \in Symbols, SetSymbolStateIdle(s) PROVE Holds
  BY <1>15 DEF SetSymbolStateIdle, ticketVars
<1>16. ASSUME NEW s \in Symbols, SetFsmState(s) PROVE Holds
  BY <1>16 DEF SetFsmState, ticketVars
<1>17. CASE Crash
  BY <1>17, <1>b DEF Crash
<1>18. CASE UNCHANGED vars
  BY <1>18 DEF vars
<1>19. QED
  BY <1>1, <1>2, <1>3, <1>4, <1>5, <1>6, <1>7, <1>8, <1>9, <1>10, <1>11, <1>12, <1>13, <1>14,
     <1>15, <1>16, <1>17, <1>18 DEF Next, TicketStep, PyramidStep, SessionStep, RecoveryStep

\* A pyramiding handler keeps the parent it read until it is done.
LEMMA PyramiderStep == IInv /\ [Next]_vars => PyramidersCarryParent'
<1> SUFFICES ASSUME IInv, [Next]_vars, NEW q \in Procs, op'[q].pc = "pyramid"
             PROVE  /\ op'[q].symbol \in Symbols
                    /\ op'[q].ticket \in Tickets
                    /\ op'[q].count < MaxPyramid
  BY DEF PyramidersCarryParent
<1> USE DEF IInv, TypeOK, PyramidersCarryParent
<1>a. \A pc, s : Doing(pc, s).pc = pc
  BY DEF Doing
<1>b. Ready.pc = "ready"
  BY DEF Ready, Doing
<1>1. ASSUME NEW p \in Procs, NEW t \in Tickets, PyramidCheck(p, t)
      PROVE  op'[q].symbol \in Symbols /\ op'[q].ticket \in Tickets /\ op'[q].count < MaxPyramid
  BY <1>1 DEF PyramidCheck, CanPyramid
<1>2. ASSUME ~\E p \in Procs, t \in Tickets : PyramidCheck(p, t)
      PROVE  op'[q] = op[q]
  BY <1>2, <1>a, <1>b
     DEF Next, TicketStep, PyramidStep, SessionStep, RecoveryStep, vars, Finish, CreateBegin,
         CreateCommit, CreateRollback, TransitionTicket, CloseTicket, PyramidCommit, PyramidAbort,
         OpenInvalidate, OpenInsert, OpenFails, OpenFsm, InvalidateMark, InvalidateFsm,
         SetSymbolStateIdle, SetFsmState, Crash
<1>3. QED
  BY <1>1, <1>2

\* Which steps write the columns a root is defined by.
LEMMA RowsChange ==
  ASSUME IInv, [Next]_vars
  PROVE  \/ \E p \in Procs, t \in Tickets : CreateCommit(p, t)
         \/ \E t \in Tickets, to \in TargetStates : TransitionTicket(t, to)
         \/ \E t \in Tickets : CloseTicket(t)
         \/ \E p \in Procs, c \in Tickets : PyramidCommit(p, c)
         \/ UNCHANGED <<state, symbol, parent>>
BY DEF Next, TicketStep, PyramidStep, SessionStep, RecoveryStep, vars, ticketVars, CreateBegin,
       CreateRollback, PyramidCheck, PyramidAbort, OpenInvalidate, OpenInsert, OpenFails, OpenFsm,
       InvalidateMark, InvalidateFsm, SetSymbolStateIdle, SetFsmState, Crash

\* No step makes a second active root: an INSERT by createTicket finds none,
\* and no other step turns a row into an active root.
LEMMA OneRootStep == IInv /\ [Next]_vars => OneRoot'
<1> SUFFICES ASSUME IInv, [Next]_vars PROVE OneRoot'
  OBVIOUS
<1> USE NullsAssumption DEF IInv, TypeOK, OneRoot
<1>1. ASSUME NEW p \in Procs, NEW t \in Tickets, CreateCommit(p, t) PROVE OneRoot'
  <2>1. \A u \in Tickets : ~(state[u] \in ActiveStates /\ symbol[u] = op[p].symbol
                              /\ parent[u] = NoTicket)
    BY <1>1 DEF CreateCommit, CreatorsHoldLock
  <2>2. QED
    BY <1>1, <2>1 DEF CreateCommit, InsertTicket
<1>2. ASSUME NEW t \in Tickets, NEW to \in TargetStates, TransitionTicket(t, to) PROVE OneRoot'
  BY <1>2 DEF TransitionTicket, CanTransition, ActiveStates
<1>3. ASSUME NEW t \in Tickets, CloseTicket(t) PROVE OneRoot'
  BY <1>3 DEF CloseTicket, CanTransition, ActiveStates
<1>4. ASSUME NEW p \in Procs, NEW c \in Tickets, PyramidCommit(p, c) PROVE OneRoot'
  <2>1. op[p].ticket \in Tickets
    BY <1>4 DEF PyramidCommit, PyramidersCarryParent
  <2>2. QED
    BY <1>4, <2>1 DEF PyramidCommit, InsertTicket
<1>5. CASE UNCHANGED <<state, symbol, parent>>
  BY <1>5
<1>6. QED
  BY <1>1, <1>2, <1>3, <1>4, <1>5, RowsChange

LEMMA IInvStep == IInv /\ [Next]_vars => IInv'
BY TypeStep, CreatorStep, PyramiderStep, OneRootStep DEF IInv

LEMMA IInvHolds == Spec => []IInv
BY InitIInv, IInvStep, PTL DEF Spec

-----------------------------------------------------------------------------
\* The columns keep their types under every interleaving (schema.ts).
THEOREM StoreTypeOK == Spec => []TypeOK
BY IInvHolds, PTL DEF IInv

\* createTicket never gives a symbol a second active root ticket, however the
\* handlers, pyramiding, recovery and crashes interleave (ticket-manager.ts).
THEOREM StoreOneActiveRoot == Spec => []OneActiveRoot
<1>1. IInv => OneActiveRoot
  BY DEF IInv, OneRoot, OneActiveRoot, ActiveRoots, ActiveTickets
<1>2. QED
  BY IInvHolds, <1>1, PTL

-----------------------------------------------------------------------------
\* A step of the store is a step of one symbol's position, or none.
LEMMA LifecycleStep == IInv /\ [Next]_vars => [Lifecycle!Next]_position
<1> SUFFICES ASSUME IInv, [Next]_vars PROVE Lifecycle!Next \/ position' = position
  OBVIOUS
<1> USE NullsAssumption DEF IInv, TypeOK
<1> DEFINE Roots(x) == {u \in Tickets : state[u] \in ActiveStates /\ symbol[u] = x /\ parent[u] = NoTicket}
           NextRoots(x) == {u \in Tickets : state'[u] \in ActiveStates /\ symbol'[u] = x /\ parent'[u] = NoTicket}
<1>p. \A x \in Symbols : position[x] = {state[u] : u \in Roots(x)}
  BY DEF position, ActiveRoots, ActiveTickets
<1>q. \A x \in Symbols : position'[x] = {state'[u] : u \in NextRoots(x)}
  BY DEF position, ActiveRoots, ActiveTickets
<1>f. position = [x \in Symbols |-> position[x]] /\ position' = [x \in Symbols |-> position'[x]]
  BY DEF position
\* A symbol whose roots are the same rows in the same states keeps its position.
<1>r. ASSUME NEW x \in Symbols, NextRoots(x) = Roots(x), \A u \in Roots(x) : state'[u] = state[u]
      PROVE  position'[x] = position[x]
  <2>1. position'[x] = {state'[u] : u \in Roots(x)} /\ position[x] = {state[u] : u \in Roots(x)}
    BY <1>r, <1>p, <1>q
  <2> HIDE DEF Roots, NextRoots
  <2>2. {state'[u] : u \in Roots(x)} = {state[u] : u \in Roots(x)}
    BY <1>r
  <2>3. QED
    BY <2>1, <2>2
\* Where only the row t of symbol s changes, the other positions do not.
<1>1. ASSUME NEW s \in Symbols, NEW t \in Tickets, symbol'[t] = s,
             state[t] # "ABSENT" => symbol[t] = s,
             \A u \in Tickets \ {t} : state'[u] = state[u] /\ symbol'[u] = symbol[u]
                                      /\ parent'[u] = parent[u]
      PROVE  position' = [position EXCEPT ![s] = position'[s]]
  <2>1. ASSUME NEW x \in Symbols, x # s PROVE position'[x] = position[x]
    <3>1. NextRoots(x) = Roots(x) /\ t \notin Roots(x)
      BY <1>1, <2>1 DEF ActiveStates
    <3>2. \A u \in Roots(x) : state'[u] = state[u]
      BY <1>1, <3>1
    <3>3. QED
      BY <3>1, <3>2, <1>r
  <2>2. QED
    BY <2>1, <1>f
<1>2. ASSUME NEW p \in Procs, NEW t \in Tickets, CreateCommit(p, t)
      PROVE  Lifecycle!Next
  <2> DEFINE s == op[p].symbol
  <2>1. s \in Symbols /\ Roots(s) = {}
    BY <1>2 DEF CreateCommit, CreatorsHoldLock
  <2>2. /\ state[t] = "ABSENT" /\ state'[t] = "INITIAL" /\ symbol'[t] = s /\ parent'[t] = NoTicket
        /\ \A u \in Tickets \ {t} : state'[u] = state[u] /\ symbol'[u] = symbol[u]
                                     /\ parent'[u] = parent[u]
    BY <1>2 DEF CreateCommit, InsertTicket
  <2>3. NextRoots(s) = {t}
    BY <2>1, <2>2 DEF ActiveStates
  <2>4. position[s] = {} /\ position'[s] = {"INITIAL"}
    BY <2>1, <2>2, <2>3, <1>p, <1>q
  <2>5. position' = [position EXCEPT ![s] = position'[s]]
    BY <2>1, <2>2, <1>1
  <2>6. QED
    BY <2>1, <2>4, <2>5 DEF Lifecycle!Next, Lifecycle!Open, Lifecycle!Become
\* Moving the row t from one state to another, as both transitions do.
<1>3. ASSUME NEW t \in Tickets, NEW to \in TicketStates, CanTransition(state[t], to),
             state' = [state EXCEPT ![t] = to], UNCHANGED <<symbol, parent>>
      PROVE  Lifecycle!Next \/ position' = position
  <2> DEFINE s == symbol[t]
  <2>1. s \in Symbols /\ state[t] \in ActiveStates
    BY <1>3 DEF CanTransition, ActiveStates
  <2>2. position' = [position EXCEPT ![s] = position'[s]]
    BY <1>3, <2>1, <1>1
  <2>3. CASE parent[t] # NoTicket
    <3>1. NextRoots(s) = Roots(s) /\ t \notin Roots(s)
      BY <1>3, <2>1, <2>3
    <3>2. \A u \in Roots(s) : state'[u] = state[u]
      BY <3>1, <1>3
    <3>3. position'[s] = position[s]
      BY <3>1, <3>2, <2>1, <1>r
    <3>4. QED
      BY <2>1, <2>2, <3>3, <1>f
  <2>4. CASE parent[t] = NoTicket
    <3>1. Roots(s) = {t} /\ position[s] = {state[t]}
      BY <2>1, <2>4, <1>p DEF OneRoot
    <3>2. CASE to = "CLOSED"
      <4>1. NextRoots(s) = {}
        BY <3>1, <3>2, <1>3, <2>1 DEF ActiveStates
      <4>2. position'[s] = {}
        BY <4>1, <2>1, <1>q
      <4>3. QED
        BY <2>1, <2>2, <3>1, <4>2 DEF Lifecycle!Next, Lifecycle!Close, Lifecycle!Become
    <3>3. CASE to # "CLOSED"
      <4>1. to \in ActiveStates /\ <<state[t], to>> \in {<<"INITIAL", "TP1_HIT">>, <<"TP1_HIT", "TP2_HIT">>}
        BY <3>3, <1>3 DEF CanTransition, ActiveStates
      <4>2. NextRoots(s) = {t}
        BY <4>1, <3>1, <1>3, <2>1
      <4>3. position'[s] = {to}
        BY <4>2, <2>1, <1>3, <1>q
      <4>4. QED
        BY <2>1, <2>2, <3>1, <4>1, <4>3
           DEF Lifecycle!Next, Lifecycle!HitTp1, Lifecycle!HitTp2, Lifecycle!Become
    <3>4. QED
      BY <3>2, <3>3
  <2>5. QED
    BY <2>3, <2>4
<1>4. ASSUME NEW t \in Tickets, NEW to \in TargetStates, TransitionTicket(t, to)
      PROVE  Lifecycle!Next \/ position' = position
  BY <1>4, <1>3, TargetsAssumption DEF TransitionTicket
<1>5. ASSUME NEW t \in Tickets, CloseTicket(t) PROVE Lifecycle!Next \/ position' = position
  BY <1>5, <1>3 DEF CloseTicket, TicketStates
<1>6. ASSUME NEW p \in Procs, NEW c \in Tickets, PyramidCommit(p, c) PROVE position' = position
  <2> DEFINE s == op[p].symbol
  <2>1. s \in Symbols /\ op[p].ticket \in Tickets
    BY <1>6 DEF PyramidCommit, PyramidersCarryParent
  <2>2. /\ state[c] = "ABSENT" /\ symbol'[c] = s /\ parent'[c] # NoTicket
        /\ \A u \in Tickets \ {c} : state'[u] = state[u] /\ symbol'[u] = symbol[u]
                                     /\ parent'[u] = parent[u]
    BY <1>6, <2>1 DEF PyramidCommit, InsertTicket
  <2>3. NextRoots(s) = Roots(s) /\ c \notin Roots(s)
    BY <2>1, <2>2 DEF ActiveStates
  <2>4. \A u \in Roots(s) : state'[u] = state[u]
    BY <2>2, <2>3
  <2>5. position'[s] = position[s]
    BY <2>1, <2>3, <2>4, <1>r
  <2>6. position' = [position EXCEPT ![s] = position'[s]]
    BY <2>1, <2>2, <1>1
  <2>7. QED
    BY <2>1, <2>5, <2>6, <1>f
<1>7. CASE UNCHANGED <<state, symbol, parent>>
  BY <1>7 DEF position, ActiveRoots, ActiveTickets
<1>8. QED
  BY <1>2, <1>4, <1>5, <1>6, <1>7, RowsChange

\* The ticket store implements one position lifecycle per symbol (PRD, section
\* 6), for any number of concurrent handlers.
THEOREM StoreImplementsLifecycle == Spec => ImplementsLifecycle
<1>1. Init => Lifecycle!Init
  BY DEF Init, Lifecycle!Init, position, ActiveRoots, ActiveTickets, ActiveStates
<1>2. QED
  BY <1>1, IInvHolds, LifecycleStep, PTL DEF Spec, Lifecycle!Spec, ImplementsLifecycle

-----------------------------------------------------------------------------
\* PositionHasTicket and its converse with their sets unfolded.
HasTicket ==
  \A s \in Symbols : fsm[s] = "HAS_POSITION" =>
    \E t \in Tickets : state[t] \in ActiveStates /\ symbol[t] = s
TicketHasPosition ==
  \A t \in Tickets :
    state[t] \in ActiveStates /\ ~Pyramided(symbol[t]) /\ symbol[t] \notin Recovery
      => fsm[symbol[t]] = "HAS_POSITION"

\* Which steps write fsm_state or a ticket row.
LEMMA PositionsChange ==
  ASSUME IInv, [Next]_vars
  PROVE  \/ \E p \in Procs, t \in Tickets : CreateCommit(p, t)
         \/ \E t \in Tickets, to \in TargetStates : TransitionTicket(t, to)
         \/ \E t \in Tickets : CloseTicket(t)
         \/ \E p \in Procs, c \in Tickets : PyramidCommit(p, c)
         \/ \E p \in Procs : (OpenFsm(p) \/ InvalidateFsm(p)) /\ UNCHANGED ticketVars
         \/ \E s \in Symbols : (SetSymbolStateIdle(s) \/ SetFsmState(s)) /\ UNCHANGED ticketVars
         \/ UNCHANGED <<fsm, state, symbol, parent>>
BY DEF Next, TicketStep, PyramidStep, SessionStep, RecoveryStep, vars, ticketVars, CreateBegin,
       CreateRollback, PyramidCheck, PyramidAbort, OpenInvalidate, OpenInsert, OpenFails, OpenFsm,
       InvalidateMark, InvalidateFsm, SetSymbolStateIdle, SetFsmState, Crash

LEMMA HasTicketStep ==
  ASSUME "CLOSED" \notin TargetStates, IInv, HasTicket, [Next]_vars
  PROVE  HasTicket'
<1> SUFFICES ASSUME NEW s \in Symbols, fsm'[s] = "HAS_POSITION"
             PROVE  \E t \in Tickets : state'[t] \in ActiveStates /\ symbol'[t] = s
  BY DEF HasTicket
<1> DEFINE Goal == \E t \in Tickets : state'[t] \in ActiveStates /\ symbol'[t] = s
<1> USE DEF IInv, TypeOK, HasTicket
<1>1. ASSUME NEW p \in Procs, NEW t \in Tickets, CreateCommit(p, t) PROVE Goal
  <2>1. CASE s = op[p].symbol
    BY <1>1, <2>1 DEF CreateCommit, InsertTicket, ActiveStates
  <2>2. CASE s # op[p].symbol
    <3>1. PICK u \in Tickets : state[u] \in ActiveStates /\ symbol[u] = s
      BY <1>1, <2>2 DEF CreateCommit
    <3>2. QED
      BY <1>1, <3>1 DEF CreateCommit, InsertTicket, ActiveStates
  <2>3. QED
    BY <2>1, <2>2
<1>2. ASSUME NEW t \in Tickets, NEW to \in TargetStates, TransitionTicket(t, to) PROVE Goal
  <2>1. to \in ActiveStates
    BY <1>2, TargetsAssumption DEF TicketStates
  <2>2. PICK u \in Tickets : state[u] \in ActiveStates /\ symbol[u] = s
    BY <1>2 DEF TransitionTicket
  <2>3. QED
    BY <1>2, <2>1, <2>2 DEF TransitionTicket
<1>3. ASSUME NEW t \in Tickets, CloseTicket(t) PROVE Goal
  <2>1. s # symbol[t]
    BY <1>3 DEF CloseTicket
  <2>2. PICK u \in Tickets : state[u] \in ActiveStates /\ symbol[u] = s
    BY <1>3, <2>1 DEF CloseTicket
  <2>3. QED
    BY <1>3, <2>1, <2>2 DEF CloseTicket
<1>4. ASSUME NEW p \in Procs, NEW c \in Tickets, PyramidCommit(p, c) PROVE Goal
  <2>1. PICK u \in Tickets : state[u] \in ActiveStates /\ symbol[u] = s
    BY <1>4 DEF PyramidCommit
  <2>2. QED
    BY <1>4, <2>1 DEF PyramidCommit, InsertTicket, ActiveStates
<1>5. ASSUME NEW p \in Procs, OpenFsm(p) \/ InvalidateFsm(p), UNCHANGED ticketVars PROVE Goal
  <2>1. fsm[s] = "HAS_POSITION"
    BY <1>5 DEF OpenFsm, InvalidateFsm, GuardedSetFsm
  <2>2. QED
    BY <1>5, <2>1 DEF ticketVars
<1>6. ASSUME NEW x \in Symbols, SetSymbolStateIdle(x) \/ SetFsmState(x), UNCHANGED ticketVars PROVE Goal
  BY <1>6 DEF SetSymbolStateIdle, SetFsmState, ActiveTickets, ticketVars
<1>7. CASE UNCHANGED <<fsm, state, symbol, parent>>
  BY <1>7
<1>8. QED
  BY <1>1, <1>2, <1>3, <1>4, <1>5, <1>6, <1>7, PositionsChange

\* A symbol in HAS_POSITION has an active ticket, with pyramiding, recovery and
\* crashes, provided transitionTicket is not asked for CLOSED (closeTicket is
\* the operation that also writes symbol_state).
THEOREM StorePositionHasTicket ==
  ASSUME "CLOSED" \notin TargetStates
  PROVE  Spec => []PositionHasTicket
<1>1. Init => HasTicket
  BY DEF Init, HasTicket
<1>2. IInv /\ HasTicket /\ [Next]_vars => HasTicket'
  BY HasTicketStep
<1>3. HasTicket => PositionHasTicket
  BY DEF HasTicket, PositionHasTicket, ActiveTickets
<1>4. QED
  BY <1>1, <1>2, <1>3, IInvHolds, PTL DEF Spec

LEMMA TicketHasPositionStep ==
  ASSUME IInv, TicketHasPosition, [Next]_vars
  PROVE  TicketHasPosition'
<1> USE NullsAssumption DEF IInv, TypeOK, TicketHasPosition
<1>1. ASSUME NEW p \in Procs, NEW t \in Tickets, CreateCommit(p, t) PROVE TicketHasPosition'
  <2>1. op[p].symbol \in Symbols
    BY <1>1 DEF CreateCommit, CreatorsHoldLock
  <2>2. ASSUME NEW u \in Tickets, state'[u] \in ActiveStates, ~Pyramided(symbol[u])',
                      symbol'[u] \notin Recovery
        PROVE  fsm'[symbol'[u]] = "HAS_POSITION"
    <3>1. CASE u = t
      BY <1>1, <2>1, <3>1 DEF CreateCommit, InsertTicket
    <3>2. CASE u # t
      <4>1. state[u] \in ActiveStates /\ ~Pyramided(symbol[u]) /\ symbol'[u] = symbol[u]
        BY <1>1, <2>2, <3>2 DEF CreateCommit, InsertTicket, Pyramided
      <4>2. QED
        BY <1>1, <2>2, <4>1 DEF CreateCommit
    <3>3. QED
      BY <3>1, <3>2
  <2>3. QED
    BY <2>2
<1>2. ASSUME NEW t \in Tickets, NEW to \in TargetStates, TransitionTicket(t, to)
      PROVE  TicketHasPosition'
  <2>1. \A x \in Symbols : Pyramided(x)' <=> Pyramided(x)
    BY <1>2, TargetsAssumption DEF TransitionTicket, CanTransition, ActiveStates, TicketStates, Pyramided
  <2>2. \A u \in Tickets : state'[u] \in ActiveStates => state[u] \in ActiveStates
    BY <1>2 DEF TransitionTicket, CanTransition, ActiveStates
  <2>3. \A u \in Tickets : state'[u] \in ActiveStates => symbol[u] \in Symbols
    BY <2>2 DEF ActiveStates
  <2>4. UNCHANGED <<fsm, symbol>>
    BY <1>2 DEF TransitionTicket
  <2>5. QED
    BY <2>1, <2>2, <2>3, <2>4
<1>3. ASSUME NEW t \in Tickets, CloseTicket(t) PROVE TicketHasPosition'
  <2>1. ASSUME NEW u \in Tickets, state'[u] \in ActiveStates, ~Pyramided(symbol[u])',
                      symbol'[u] \notin Recovery
        PROVE  fsm'[symbol'[u]] = "HAS_POSITION"
    <3>1. u # t /\ state[u] \in ActiveStates /\ state[t] \in ActiveStates /\ symbol'[u] = symbol[u]
      BY <1>3, <2>1 DEF CloseTicket, CanTransition, ActiveStates
    <3>2. ~Pyramided(symbol[u])
      BY <1>3, <2>1, <3>1 DEF CloseTicket, CanTransition, ActiveStates, Pyramided
    <3>3. symbol[u] # symbol[t]
      BY <3>1, <3>2 DEF OneRoot, Pyramided, ActiveStates
    <3>4. QED
      BY <1>3, <2>1, <3>1, <3>2, <3>3 DEF CloseTicket
  <2>2. QED
    BY <2>1
<1>4. ASSUME NEW p \in Procs, NEW c \in Tickets, PyramidCommit(p, c) PROVE TicketHasPosition'
  <2>1. op[p].ticket \in Tickets
    BY <1>4 DEF PyramidCommit, PyramidersCarryParent
  <2>2. ASSUME NEW u \in Tickets, state'[u] \in ActiveStates, ~Pyramided(symbol[u])',
                      symbol'[u] \notin Recovery
        PROVE  fsm'[symbol'[u]] = "HAS_POSITION"
    <3>1. state'[c] = "INITIAL" /\ symbol'[c] = op[p].symbol /\ parent'[c] # NoTicket
      BY <1>4, <2>1 DEF PyramidCommit, InsertTicket
    <3>2. u # c
      BY <2>2, <3>1 DEF Pyramided
    <3>3. state[u] \in ActiveStates /\ ~Pyramided(symbol[u]) /\ symbol'[u] = symbol[u]
      BY <1>4, <2>2, <3>2 DEF PyramidCommit, InsertTicket, Pyramided
    <3>4. QED
      BY <1>4, <2>2, <3>3 DEF PyramidCommit
  <2>3. QED
    BY <2>2
<1>5. ASSUME NEW p \in Procs, OpenFsm(p) \/ InvalidateFsm(p), UNCHANGED ticketVars
      PROVE  TicketHasPosition'
  <2>1. \A s \in Symbols : fsm[s] = "HAS_POSITION" => fsm'[s] = "HAS_POSITION"
    BY <1>5 DEF OpenFsm, InvalidateFsm, GuardedSetFsm
  <2>2. \A u \in Tickets : state[u] \in ActiveStates => symbol[u] \in Symbols
    BY DEF ActiveStates
  <2>3. QED
    BY <1>5, <2>1, <2>2 DEF ticketVars, Pyramided
<1>6. ASSUME NEW x \in Symbols, SetSymbolStateIdle(x) \/ SetFsmState(x) PROVE TicketHasPosition'
  <2>1. \A s \in Symbols : s \notin Recovery => fsm'[s] = fsm[s]
    BY <1>6 DEF SetSymbolStateIdle, SetFsmState
  <2>2. \A u \in Tickets : state[u] \in ActiveStates => symbol[u] \in Symbols
    BY DEF ActiveStates
  <2>3. QED
    BY <1>6, <2>1, <2>2 DEF SetSymbolStateIdle, SetFsmState, ticketVars, Pyramided
<1>7. CASE UNCHANGED <<fsm, state, symbol, parent>>
  BY <1>7 DEF Pyramided
<1>8. QED
  BY <1>1, <1>2, <1>3, <1>4, <1>5, <1>6, <1>7, PositionsChange

\* Where recovery does not write, symbol_state and the tickets table agree at every
\* commit on every symbol that has not pyramided: createTicket and closeTicket
\* keep both in step although the watch sessions write the same row.
THEOREM StorePositionAgrees ==
  ASSUME "CLOSED" \notin TargetStates
  PROVE  Spec => []PositionAgrees
<1>1. Init => HasTicket /\ TicketHasPosition
  BY DEF Init, HasTicket, TicketHasPosition, ActiveStates
<1>2. IInv /\ (HasTicket /\ TicketHasPosition) /\ [Next]_vars => (HasTicket /\ TicketHasPosition)'
  BY HasTicketStep, TicketHasPositionStep
<1>3. IInv /\ HasTicket /\ TicketHasPosition => PositionAgrees
  BY DEF IInv, HasTicket, TicketHasPosition, PositionAgrees, ActiveTickets
<1>4. QED
  BY <1>1, <1>2, <1>3, IInvHolds, PTL DEF Spec

\* fsm_state moves only along SYMBOL_STATE_TRANSITION_MAP, however operations
\* interleave, on every symbol that recovery does not write.
THEOREM StoreFsmFollowsMap == Spec => FsmFollowsMap
<1> DEFINE Follows == \A s \in Symbols \ Recovery :
             fsm'[s] # fsm[s] => CanSymbolStateTransition(fsm[s], fsm'[s])
<1>1. ASSUME IInv, [Next]_vars PROVE Follows
  <2> USE <1>1 DEF IInv, TypeOK, CanSymbolStateTransition, FsmStates
  <2>1. ASSUME NEW p \in Procs, NEW t \in Tickets, CreateCommit(p, t) PROVE Follows
    <3>1. op[p].symbol \in Symbols /\ fsm[op[p].symbol] = "WATCHING"
      BY <2>1 DEF CreateCommit, CreatorsHoldLock
    <3>2. QED
      BY <2>1, <3>1 DEF CreateCommit
  <2>2. ASSUME NEW t \in Tickets, NEW to \in TargetStates, TransitionTicket(t, to) PROVE Follows
    BY <2>2 DEF TransitionTicket
  <2>3. ASSUME NEW t \in Tickets, CloseTicket(t) PROVE Follows
    BY <2>3 DEF CloseTicket
  <2>4. ASSUME NEW p \in Procs, NEW c \in Tickets, PyramidCommit(p, c) PROVE Follows
    BY <2>4 DEF PyramidCommit
  <2>5. ASSUME NEW p \in Procs, OpenFsm(p) \/ InvalidateFsm(p) PROVE Follows
    BY <2>5 DEF OpenFsm, InvalidateFsm, GuardedSetFsm
  <2>6. ASSUME NEW x \in Symbols, SetSymbolStateIdle(x) \/ SetFsmState(x) PROVE Follows
    BY <2>6 DEF SetSymbolStateIdle, SetFsmState
  <2>7. CASE UNCHANGED <<fsm, state, symbol, parent>>
    BY <2>7
  <2>8. QED
    BY <2>1, <2>2, <2>3, <2>4, <2>5, <2>6, <2>7, PositionsChange
<1>2. IInv /\ [Next]_vars => [Follows]_vars
  BY <1>1
<1>3. QED
  BY <1>2, IInvHolds, PTL DEF Spec, FsmFollowsMap
-----------------------------------------------------------------------------
(***************************************************************************)
(* Why pyramid_count is never too high: the count an add-on carries was    *)
(* true when it was read, children are only ever added, and the add-on     *)
(* writes one more in the step that adds its own, a row that had no parent.*)
(***************************************************************************)
ChildRows(par, t) == {c \in Tickets : par[c] = t}

Counted ==
  /\ \A t \in Tickets : /\ IsFiniteSet(ChildRows(parent, t))
                        /\ pyramids[t] <= Cardinality(ChildRows(parent, t))
  /\ \A p \in Procs :
       op[p].pc = "pyramid" => op[p].count <= Cardinality(ChildRows(parent, op[p].ticket))
  /\ \A t \in Tickets : state[t] = "ABSENT" => parent[t] = NoTicket

\* Which steps write a count, or what an add-on carries.
LEMMA CountsChange ==
  ASSUME IInv, [Next]_vars
  PROVE  \/ \E p \in Procs, t \in Tickets : PyramidCheck(p, t)
         \/ \E p \in Procs, c \in Tickets : PyramidCommit(p, c)
         \/ /\ UNCHANGED pyramids
            /\ \A p \in Procs : op'[p].pc = "pyramid" => op'[p] = op[p]
<1> USE DEF IInv, TypeOK
<1>1. Ready.pc # "pyramid" /\ \A pc \in PCs : \A s : Doing(pc, s).pc = pc
  BY DEF Ready, Doing
<1>2. CASE TicketStep
  BY <1>1, <1>2 DEF TicketStep, CreateBegin, CreateCommit, CreateRollback, TransitionTicket,
     CloseTicket, Finish, ticketVars, PCs
<1>3. CASE PyramidStep
  BY <1>1, <1>3 DEF PyramidStep, PyramidAbort, Finish, ticketVars
<1>4. CASE SessionStep
  BY <1>1, <1>4 DEF SessionStep, OpenInvalidate, OpenInsert, OpenFails, OpenFsm, InvalidateMark,
     InvalidateFsm, Finish, ticketVars, PCs
<1>5. CASE RecoveryStep
  BY <1>1, <1>5 DEF RecoveryStep, SetSymbolStateIdle, SetFsmState, Crash, ticketVars
<1>6. CASE UNCHANGED vars
  BY <1>6 DEF vars
<1>7. QED
  BY <1>2, <1>3, <1>4, <1>5, <1>6 DEF Next

LEMMA CountedStep == ASSUME IInv, Counted, [Next]_vars PROVE Counted'
<1> USE NullsAssumption, BoundsAssumption DEF IInv, TypeOK
<1>1. ASSUME NEW p \in Procs, NEW c \in Tickets, PyramidCommit(p, c) PROVE Counted'
  <2> DEFINE t == op[p].ticket
             Before(u) == ChildRows(parent, u)
             After(u) == ChildRows(parent', u)
  <2>1. /\ t \in Tickets /\ op[p].count \in Nat
        /\ state[c] = "ABSENT" /\ parent[c] = NoTicket
        /\ parent' = [parent EXCEPT ![c] = t] /\ state' = [state EXCEPT ![c] = "INITIAL"]
        /\ pyramids' = [pyramids EXCEPT ![t] = op[p].count + 1]
        /\ op' = [op EXCEPT ![p] = Ready]
        /\ op[p].count <= Cardinality(Before(t))
    BY <1>1 DEF Counted, PyramidCommit, InsertTicket, PyramidersCarryParent, Finish, Ops
  <2>2. c \notin Before(t) /\ After(t) = Before(t) \cup {c}
    BY <2>1 DEF ChildRows
  <2>3. \A u \in Tickets \ {t} : After(u) = Before(u)
    BY <2>1 DEF ChildRows
  <2>4. \A u \in Tickets : IsFiniteSet(Before(u)) /\ Cardinality(Before(u)) \in Nat
    BY FS_CardinalityType DEF Counted
  <2>5. IsFiniteSet(After(t)) /\ Cardinality(After(t)) = Cardinality(Before(t)) + 1
    <3> HIDE DEF t, Before, After
    <3> QED BY <2>1, <2>2, <2>4, FS_AddElement
  <2>6. \A u \in Tickets : /\ IsFiniteSet(After(u)) /\ Cardinality(After(u)) \in Nat
                           /\ Cardinality(Before(u)) <= Cardinality(After(u))
    <3> HIDE DEF t, Before, After
    <3>1. Cardinality(Before(t)) <= Cardinality(After(t)) /\ Cardinality(After(t)) \in Nat
      BY <2>1, <2>4, <2>5
    <3>2. \A u \in Tickets : Cardinality(Before(u)) <= Cardinality(Before(u))
      BY <2>4
    <3>3. QED
      BY <2>3, <2>4, <2>5, <3>1, <3>2
  <2>7. \A u \in Tickets : pyramids'[u] <= Cardinality(After(u))
    <3>0. \A u \in Tickets : pyramids[u] <= Cardinality(Before(u))
      BY DEF Counted
    <3>1. pyramids \in [Tickets -> 0..MaxPyramid]
      OBVIOUS
    <3> HIDE DEF t, Before, After, IInv, TypeOK
    <3>2. pyramids'[t] <= Cardinality(After(t))
      BY <2>1, <2>4, <2>5, <3>1
    <3>3. QED
      BY <2>1, <2>3, <3>0, <3>1, <3>2
  <2>8. ASSUME NEW q \in Procs, op'[q].pc = "pyramid"
        PROVE  op'[q].count <= Cardinality(After(op'[q].ticket))
    <3>1. op'[q] = op[q]
      BY <2>1, <2>8 DEF Ready, Doing
    <3>2. /\ op[q].ticket \in Tickets /\ op[q].count \in Nat
          /\ op[q].count <= Cardinality(Before(op[q].ticket))
      BY <2>8, <3>1 DEF Counted, PyramidersCarryParent, Ops
    <3> HIDE DEF Before, After
    <3>3. QED
      BY <3>1, <3>2, <2>4, <2>6
  <2>9. \A u \in Tickets : state'[u] = "ABSENT" => parent'[u] = NoTicket
    BY <2>1 DEF Counted
  <2>10. QED
    BY <2>6, <2>7, <2>8, <2>9 DEF Counted
\* Every other step keeps the rows' parents.
<1>2. ASSUME ~\E p \in Procs, c \in Tickets : PyramidCommit(p, c)
      PROVE  /\ UNCHANGED parent
             /\ \A t \in Tickets : state'[t] = "ABSENT" => state[t] = "ABSENT"
  <2>1. ASSUME NEW p \in Procs, NEW t \in Tickets, CreateCommit(p, t)
        PROVE  UNCHANGED parent /\ \A u \in Tickets : state'[u] = "ABSENT" => state[u] = "ABSENT"
    BY <2>1 DEF CreateCommit, InsertTicket, Counted
  <2>2. QED
    BY <1>2, <2>1, RowsChange, TargetsAssumption
       DEF TransitionTicket, CloseTicket, CanTransition, ActiveStates
<1>3. ASSUME ~\E p \in Procs, c \in Tickets : PyramidCommit(p, c), UNCHANGED pyramids,
             \A p \in Procs : op'[p].pc = "pyramid" => op'[p] = op[p]
      PROVE  Counted'
  BY <1>2, <1>3 DEF Counted
<1>4. ASSUME NEW p \in Procs, NEW t \in Tickets, PyramidCheck(p, t) PROVE Counted'
  <2>1. /\ UNCHANGED <<state, parent, pyramids>>
        /\ op' = [op EXCEPT ![p] =
             [pc |-> "pyramid", symbol |-> symbol[t], ticket |-> t, count |-> pyramids[t]]]
    BY <1>4 DEF PyramidCheck, ticketVars
  <2>2. QED
    BY <2>1 DEF Counted
<1>5. QED
  BY <1>1, <1>3, <1>4, CountsChange

\* pyramid_count never claims more children than the table holds, for any
\* number of handlers, add-ons and crashes (pyramid.ts executePyramid).
THEOREM StorePyramidsCounted == Spec => []PyramidsCounted
<1>1. Init => Counted
  <2> SUFFICES ASSUME Init PROVE Counted
    OBVIOUS
  <2>1. \A t \in Tickets : ChildRows(parent, t) = {}
    BY NullsAssumption DEF Init, ChildRows
  <2>2. \A p \in Procs : op[p].pc = "ready"
    BY DEF Init, Ready, Doing
  <2>3. QED
    BY <2>1, <2>2, FS_EmptySet DEF Init, Counted
<1>2. IInv /\ Counted /\ [Next]_vars => Counted'
  BY CountedStep
<1>3. Counted => PyramidsCounted
  BY DEF Counted, PyramidsCounted, Children, ChildRows
<1>4. QED
  BY <1>1, <1>2, <1>3, IInvHolds, PTL DEF Spec
=============================================================================
