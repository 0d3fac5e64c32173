---------------------------- MODULE ExitsProofs -----------------------------
(* The stop of a position never moves against it; the row covers it. *)
EXTENDS Exits, TLAPS

Moving(tf) == run[tf].pc \in {"edit", "cancel", "create"}

Tickets == [state : States, remaining : Int, trailing : BOOLEAN,
            trailingAt : Int, maxProfit : Int, slId : Nat \cup {None}]
Runs == [pc : {"idle", "close", "edit", "cancel", "create"}, ticket : Tickets,
         profit : Int, action : Actions, target : Int, max : Int]

Typed ==
  /\ caller \in {"contract", "pipeline"}
  /\ ticket \in Tickets /\ ticket.slId \in Nat
  /\ stops \subseteq [id : Nat, at : Int]
  /\ nextId \in Nat /\ profit \in Int
  /\ run \in [Timeframes -> Runs]
  /\ \A tf \in Timeframes : run[tf].pc = "close" => run[tf].action # "NONE"

(***************************************************************************)
(* The pipeline never writes the row: its ticket never trails, and every   *)
(* stop it places is the one at the entry.                                 *)
(***************************************************************************)
PipelineInv ==
  caller = "pipeline" =>
    /\ ticket = NewTicket
    /\ \A s \in stops : s.at <= 0
    /\ \A tf \in Timeframes :
         /\ ~run[tf].ticket.trailing
         /\ Moving(tf) => run[tf].target = 0

(***************************************************************************)
(* Under the contract one candle is handled at a time, on the row as it    *)
(* is; what it moves the stop to is not below what the row says, and every *)
(* stop is at or below one of the two.                                     *)
(***************************************************************************)
ContractInv ==
  caller = "contract" =>
    /\ \A a, b \in Timeframes : Busy(a) /\ Busy(b) => a = b
    /\ ticket.state = "INITIAL" => ticket.trailingAt = 0 /\ ~ticket.trailing
    /\ \A tf \in Timeframes : Busy(tf) =>
         /\ run[tf].ticket.trailingAt = ticket.trailingAt
         /\ run[tf].ticket.trailing => ticket.state # "INITIAL"
         /\ run[tf].action = "TP1" => ticket.state = "INITIAL"
         /\ run[tf].pc # "close" /\ run[tf].action = "TP1" => run[tf].target = 0
         /\ run[tf].pc # "close" /\ run[tf].action = "NONE" => ticket.state # "INITIAL"
         /\ run[tf].pc # "close" => run[tf].target >= ticket.trailingAt
         /\ run[tf].pc # "close" => run[tf].action \in {"TP1", "NONE"}
    /\ \A s \in stops :
         \/ s.at <= ticket.trailingAt
         \/ \E tf \in Timeframes : Moving(tf) /\ s.at <= run[tf].target

RatchetInv == Typed /\ PipelineInv /\ ContractInv

-----------------------------------------------------------------------------
(* The operators. *)

LEMMA NewTicketType == NewTicket \in Tickets /\ NewTicket.slId \in Nat
  BY ExitsAssumption DEF NewTicket, Tickets, States

LEMMA IdleType == Idle \in Runs
  BY NewTicketType DEF Idle, Runs, Actions

\* A move of the trailing stop goes above what the row says.
GoesOn(r, n) ==
  \/ n = Idle
  \/ /\ n.pc \in {"edit", "create"} /\ n.action = "NONE" /\ n.ticket = r.ticket
     /\ r.ticket.trailing /\ n.target > r.ticket.trailingAt

LEMMA ProceedStep ==
  ASSUME Typed, NEW tf \in Timeframes, NEW r \in Runs, Proceed(tf, r)
  PROVE  \E n \in Runs : run' = [run EXCEPT ![tf] = n] /\ GoesOn(r, n)
<1> DEFINE max == NewMax(r.ticket, r.profit)
           sl == [r EXCEPT !.action = "NONE", !.max = max,
                           !.target = CalculateTrailingSl(max)]
<1>1. r.ticket \in Tickets /\ r.profit \in Int
  BY DEF Runs
<1>2. r.ticket.maxProfit \in Int /\ r.ticket.trailingAt \in Int
  BY <1>1 DEF Tickets
<1>3. max \in Int
  BY <1>1, <1>2 DEF NewMax, DecMax, CalcMaxProfit
<1>4. CalculateTrailingSl(max) \in Int
  BY <1>3 DEF CalculateTrailingSl
<1>5. CASE ~Trails(r.ticket, r.profit, tf)
  <2>1. run' = [run EXCEPT ![tf] = Idle]
    BY <1>5 DEF Proceed
  <2> QED BY <2>1, IdleType DEF GoesOn
<1>6. CASE Trails(r.ticket, r.profit, tf)
  <2>1. r.ticket.trailing /\ CalculateTrailingSl(max) > r.ticket.trailingAt
    BY <1>6 DEF Trails, ShouldUpdateTrailingSl
  <2> DEFINE n == [sl EXCEPT !.pc = IF sl.ticket.slId = None THEN "create" ELSE "edit"]
  <2>2. run' = [run EXCEPT ![tf] = n]
    BY <1>6 DEF Proceed
  <2>3. n \in Runs
    BY <1>3, <1>4 DEF Runs, Actions
  <2>4. /\ n.pc \in {"edit", "create"} /\ n.action = "NONE" /\ n.ticket = r.ticket
        /\ n.target = CalculateTrailingSl(max)
    BY DEF Runs
  <2> HIDE DEF n
  <2> QED BY <2>1, <2>2, <2>3, <2>4 DEF GoesOn
<1> QED BY <1>5, <1>6

\* The row after an exit is well typed and keeps the recorded stop.
LEMMA ExitedRow ==
  ASSUME Typed, NEW r \in Runs, r.action # "NONE"
  PROVE  /\ Exited(r) \in Tickets /\ Exited(r).slId = ticket.slId
         /\ Exited(r).trailingAt = ticket.trailingAt
         /\ Exited(r).state \in {"TP1_HIT", "TP2_HIT", "CLOSED"}
<1>1. r.action \in {"TP1", "TP2", "TIME_EXIT"}
  BY DEF Runs, Actions
<1>2. NewState(r.action) \in {"TP1_HIT", "TP2_HIT", "CLOSED"}
  BY <1>1 DEF NewState
<1>3. r.ticket.remaining \in Int /\ Size \in Int
  BY ExitsAssumption DEF Runs, Tickets
<1>4. CalcCloseSize(r.ticket, r.action) \in Int
  BY <1>3 DEF CalcCloseSize
<1>5. r.ticket.remaining - CalcCloseSize(r.ticket, r.action) \in Int
  BY <1>3, <1>4
<1> HIDE DEF CalcCloseSize
<1> QED BY <1>2, <1>5 DEF Exited, Typed, Tickets, States

-----------------------------------------------------------------------------
(* The steps. *)

\* Only the handler tf is at work, and it becomes n: what n must satisfy.
Fits(n) ==
  n.pc # "idle" =>
    /\ n.ticket.trailingAt = ticket'.trailingAt
    /\ n.ticket.trailing => ticket'.state # "INITIAL"
    /\ n.action = "TP1" => ticket'.state = "INITIAL"
    /\ n.pc # "close" => /\ n.action = "TP1" => n.target = 0
                         /\ n.action = "NONE" => ticket'.state # "INITIAL"
                         /\ n.target >= ticket'.trailingAt
                         /\ n.action \in {"TP1", "NONE"}

LEMMA ContractStep ==
  ASSUME Typed, Typed', caller = "contract",
         NEW tf \in Timeframes, NEW n \in Runs, run' = [run EXCEPT ![tf] = n],
         \A a \in Timeframes : Busy(a) => a = tf,
         ticket'.state = "INITIAL" => ticket'.trailingAt = 0 /\ ~ticket'.trailing,
         Fits(n),
         \A s \in stops' : \/ s.at <= ticket'.trailingAt
                           \/ n.pc \in {"edit", "cancel", "create"} /\ s.at <= n.target
  PROVE  ContractInv'
<1>1. run'[tf] = n /\ \A a \in Timeframes : a # tf => run'[a] = run[a]
  BY DEF Typed
<1>2. \A a \in Timeframes : run'[a].pc # "idle" => a = tf
  BY <1>1 DEF Busy
<1>3. \A s \in stops' :
        \/ s.at <= ticket'.trailingAt
        \/ \E a \in Timeframes : run'[a].pc \in {"edit", "cancel", "create"}
                                /\ s.at <= run'[a].target
  BY <1>1
<1>4. \A a \in Timeframes : run'[a].pc # "idle" =>
         /\ run'[a].ticket.trailingAt = ticket'.trailingAt
         /\ run'[a].ticket.trailing => ticket'.state # "INITIAL"
         /\ run'[a].action = "TP1" => ticket'.state = "INITIAL"
         /\ run'[a].pc # "close" /\ run'[a].action = "TP1" => run'[a].target = 0
         /\ run'[a].pc # "close" /\ run'[a].action = "NONE" => ticket'.state # "INITIAL"
         /\ run'[a].pc # "close" => run'[a].target >= ticket'.trailingAt
         /\ run'[a].pc # "close" => run'[a].action \in {"TP1", "NONE"}
  BY <1>1, <1>2 DEF Fits
<1>5. \A a, b \in Timeframes : run'[a].pc # "idle" /\ run'[b].pc # "idle" => a = b
  BY <1>2
<1> QED BY <1>3, <1>4, <1>5 DEF ContractInv, Busy, Moving

\* A handler that is not moving the stop leaves every stop at or below the row's.
LEMMA StopsBelow ==
  ASSUME Typed, ContractInv, caller = "contract", NEW tf \in Timeframes,
         \A a \in Timeframes : Busy(a) => a = tf, ~Moving(tf)
  PROVE  \A s \in stops : s.at <= ticket.trailingAt
  BY DEF ContractInv, Busy, Moving

LEMMA OneAtWork ==
  ASSUME ContractInv, caller = "contract", NEW tf \in Timeframes, Busy(tf)
  PROVE  \A a \in Timeframes : Busy(a) => a = tf
  BY DEF ContractInv

LEMMA BeginStep ==
  ASSUME RatchetInv, NEW tf \in Timeframes, Begin(tf) PROVE RatchetInv'
<1> USE DEF RatchetInv
<1> DEFINE action == CheckExit(ticket, profit, tf)
           r == [Idle EXCEPT !.ticket = Handed, !.profit = profit, !.action = action]
<1>1. Handed \in Tickets /\ Handed.trailingAt = ticket.trailingAt
        /\ Handed.trailing = ticket.trailing
  BY DEF Handed, Typed, Tickets
<1>2. action \in Actions /\ (action = "TP1" => ticket.state = "INITIAL")
  BY DEF CheckExit, Actions
<1>3. r \in Runs /\ r.ticket = Handed /\ r.action = action /\ r.pc = "idle"
  <2> HIDE DEF action
  <2> QED BY <1>1, <1>2, IdleType DEF Runs, Idle, Typed
<1>4. /\ ~Busy(tf) /\ (caller = "contract" => Quiet)
      /\ UNCHANGED <<caller, ticket, stops, nextId, profit>>
  BY DEF Begin
<1>5. PICK n \in Runs : run' = [run EXCEPT ![tf] = n]
                        /\ \/ GoesOn(r, n)
                           \/ n.pc = "close" /\ n = [r EXCEPT !.pc = "close"]
                              /\ action # "NONE"
  <2> HIDE DEF r, action
  <2>1. CASE action = "NONE"
    <3>1. Proceed(tf, r) BY <2>1 DEF Begin, r, action
    <3> QED BY <3>1, <1>3, ProceedStep
  <2>2. CASE action # "NONE"
    <3>1. run' = [run EXCEPT ![tf] = [r EXCEPT !.pc = "close"]]
      BY <2>2 DEF Begin, r, action
    <3>2. [r EXCEPT !.pc = "close"] \in Runs BY <1>3 DEF Runs
    <3> QED BY <2>2, <3>1, <3>2, <1>3 DEF Runs
  <2> QED BY <2>1, <2>2
<1>6. n.ticket = Handed \/ n = Idle
  BY <1>3, <1>5 DEF GoesOn, Runs
<1> HIDE DEF r, action
<1>7. Typed'
  BY <1>3, <1>4, <1>5 DEF Typed, GoesOn, Idle, Runs
<1>8. PipelineInv'
  BY <1>1, <1>3, <1>4, <1>5, <1>6
     DEF PipelineInv, Typed, Moving, GoesOn, Idle, NewTicket, Runs
<1>9. ASSUME caller = "contract" PROVE ContractInv'
  <2>1. \A a \in Timeframes : Busy(a) => a = tf
    BY <1>4, <1>9 DEF Quiet
  <2>2. \A s \in stops' : s.at <= ticket'.trailingAt
    BY <1>4, <1>9, <2>1, StopsBelow DEF Moving, Busy
  <2>3. Fits(n)
    <3>0. ticket.trailing => ticket.state # "INITIAL"
      BY <1>9 DEF ContractInv
    <3>1. CASE n = Idle BY <3>1 DEF Fits, Idle
    <3>2. CASE n # Idle /\ GoesOn(r, n)
      BY <1>1, <1>3, <1>4, <3>0, <3>2 DEF Fits, GoesOn, Runs, Tickets, Typed
    <3>3. CASE n.pc = "close" /\ n = [r EXCEPT !.pc = "close"]
      BY <1>1, <1>2, <1>3, <1>4, <3>0, <3>3 DEF Fits, Runs
    <3> QED BY <1>5, <3>1, <3>2, <3>3
  <2>4. ticket'.state = "INITIAL" => ticket'.trailingAt = 0 /\ ~ticket'.trailing
    BY <1>4, <1>9 DEF ContractInv
  <2> QED BY <1>5, <1>7, <1>9, <2>1, <2>2, <2>3, <2>4, ContractStep
<1>10. ASSUME caller # "contract" PROVE ContractInv'
  BY <1>4, <1>10 DEF ContractInv
<1> QED BY <1>7, <1>8, <1>9, <1>10

\* A handler whose close order got no good answer goes on to the trailing stop.
LEMMA CloseFailsStep ==
  ASSUME RatchetInv, NEW tf \in Timeframes, CloseFails(tf) PROVE RatchetInv'
<1> USE DEF RatchetInv
<1>1. /\ run[tf].pc = "close" /\ run[tf] \in Runs
      /\ UNCHANGED <<caller, ticket, stops, nextId, profit>>
      /\ Proceed(tf, run[tf])
  BY DEF CloseFails, Typed
<1>2. PICK n \in Runs : run' = [run EXCEPT ![tf] = n] /\ GoesOn(run[tf], n)
  BY <1>1, ProceedStep
<1>3. Typed'
  BY <1>1, <1>2 DEF Typed, GoesOn, Idle
<1>4. PipelineInv'
  BY <1>1, <1>2 DEF PipelineInv, Typed, Moving, GoesOn, Idle, NewTicket, Runs
<1>5. ASSUME caller = "contract" PROVE ContractInv'
  <2>1. \A a \in Timeframes : Busy(a) => a = tf
    BY <1>1, <1>5, OneAtWork DEF Busy
  <2>2. \A s \in stops' : s.at <= ticket'.trailingAt
    BY <1>1, <1>5, <2>1, StopsBelow DEF Moving
  <2>3. /\ run[tf].ticket.trailingAt = ticket.trailingAt
        /\ run[tf].ticket.trailing => ticket.state # "INITIAL"
    BY <1>1, <1>5 DEF ContractInv, Busy
  <2>4. Fits(n)
    BY <1>1, <1>2, <2>3 DEF Fits, GoesOn, Idle, Runs, Tickets, Typed
  <2>5. ticket'.state = "INITIAL" => ticket'.trailingAt = 0 /\ ~ticket'.trailing
    BY <1>1, <1>5 DEF ContractInv
  <2> QED BY <1>2, <1>3, <1>5, <2>1, <2>2, <2>4, <2>5, ContractStep
<1>6. ASSUME caller # "contract" PROVE ContractInv'
  BY <1>1, <1>6 DEF ContractInv
<1> QED BY <1>3, <1>4, <1>5, <1>6

\* What follows a filled TP1 is a move of the stop to the entry.
LEMMA BreakevenRun ==
  ASSUME NEW r \in Runs
  PROVE  LET n == ToBreakeven(r)
         IN  /\ n \in Runs /\ n.pc \in {"create", "edit"} /\ n.target = 0
             /\ n.action = r.action /\ n.ticket = r.ticket
<1> DEFINE pc == IF r.ticket.slId = None THEN "create" ELSE "edit"
           n == ToBreakeven(r)
<1>1. pc \in {"create", "edit"}
  OBVIOUS
<1>2. n = [r EXCEPT !.pc = pc, !.target = 0]
  BY DEF ToBreakeven
<1> HIDE DEF n, pc
<1>3. n = [pc |-> pc, ticket |-> r.ticket, profit |-> r.profit,
           action |-> r.action, target |-> 0, max |-> r.max]
  BY <1>2 DEF Runs
<1>4. n \in Runs
  BY <1>1, <1>3 DEF Runs
<1>5. QED
  BY <1>1, <1>3, <1>4 DEF n

LEMMA CloseAnsweredStep ==
  ASSUME RatchetInv, NEW tf \in Timeframes, CloseAnswered(tf) PROVE RatchetInv'
<1> USE DEF RatchetInv
<1> DEFINE r == run[tf]
<1>1. /\ r.pc = "close" /\ r \in Runs
      /\ UNCHANGED <<caller, stops, nextId, profit>>
  BY DEF CloseAnswered, Typed
<1>2. CASE MovesStop(r.action)
  <2> DEFINE n == ToBreakeven(r)
  <2>1. run' = [run EXCEPT ![tf] = n] /\ ticket' = ticket
    BY <1>2 DEF CloseAnswered
  <2>2. /\ n \in Runs /\ n.pc \in {"create", "edit"} /\ n.target = 0
        /\ n.action = "TP1" /\ r.action = "TP1" /\ n.ticket = r.ticket
    <3>1. r.action = "TP1" BY <1>2 DEF MovesStop
    <3> QED BY <1>1, <3>1, BreakevenRun
  <2> HIDE DEF n
  <2>3. Typed'
    BY <1>1, <2>1, <2>2 DEF Typed
  <2>4. PipelineInv'
    BY <1>1, <2>1, <2>2 DEF PipelineInv, Typed, Moving
  <2>5. ASSUME caller = "contract" PROVE ContractInv'
    <3>1. \A a \in Timeframes : Busy(a) => a = tf
      BY <1>1, <2>5, OneAtWork DEF Busy
    <3>2. \A s \in stops' : s.at <= ticket'.trailingAt
      BY <1>1, <2>1, <2>5, <3>1, StopsBelow DEF Moving
    <3>3. /\ r.ticket.trailingAt = ticket.trailingAt /\ ticket.state = "INITIAL"
          /\ ticket.trailingAt = 0 /\ ~ticket.trailing /\ ~r.ticket.trailing
      BY <1>1, <2>2, <2>5 DEF ContractInv, Busy
    <3>4. Fits(n)
      BY <2>1, <2>2, <3>3 DEF Fits
    <3> QED BY <2>1, <2>2, <2>3, <2>5, <3>1, <3>2, <3>3, <3>4, ContractStep
  <2>6. ASSUME caller # "contract" PROVE ContractInv'
    BY <1>1, <2>6 DEF ContractInv
  <2> QED BY <2>3, <2>4, <2>5, <2>6
<1>3. CASE ~MovesStop(r.action) /\ r.action # "NONE"
  <2>1. Write(Exited(r)) /\ Proceed(tf, r)
    BY <1>3 DEF CloseAnswered
  <2>2. PICK n \in Runs : run' = [run EXCEPT ![tf] = n] /\ GoesOn(r, n)
    BY <1>1, <2>1, ProceedStep
  <2>3. /\ ticket' \in Tickets /\ ticket'.slId \in Nat
        /\ ticket'.trailingAt = ticket.trailingAt
        /\ caller = "contract" => ticket'.state # "INITIAL"
        /\ caller = "pipeline" => ticket' = ticket
    BY <1>1, <1>3, <2>1, ExitedRow DEF Write, Typed
  <2> HIDE DEF r
  <2>4. Typed'
    BY <1>1, <2>2, <2>3 DEF Typed, GoesOn, Idle
  <2>5. PipelineInv'
    BY <1>1, <2>2, <2>3 DEF PipelineInv, Typed, Moving, GoesOn, Idle, NewTicket, Runs, r
  <2>6. ASSUME caller = "contract" PROVE ContractInv'
    <3>1. \A a \in Timeframes : Busy(a) => a = tf
      BY <1>1, <2>6, OneAtWork DEF Busy, r
    <3>2. \A s \in stops' : s.at <= ticket'.trailingAt
      BY <1>1, <2>3, <2>6, <3>1, StopsBelow DEF Moving, r
    <3>3. r.ticket.trailingAt = ticket.trailingAt
      BY <1>1, <2>6 DEF ContractInv, Busy, r
    <3>4. Fits(n)
      <4>1. CASE n = Idle BY <4>1 DEF Fits, Idle
      <4>2. CASE n # Idle
        BY <1>1, <2>2, <2>3, <2>6, <3>3, <4>2 DEF Fits, GoesOn, Runs, Tickets
      <4> QED BY <4>1, <4>2
    <3> QED BY <2>2, <2>3, <2>4, <2>6, <3>1, <3>2, <3>3, <3>4, ContractStep
  <2>7. ASSUME caller # "contract" PROVE ContractInv'
    BY <1>1, <2>7 DEF ContractInv
  <2> QED BY <2>4, <2>5, <2>6, <2>7
<1>4. r.action # "NONE"
  BY <1>1 DEF Typed
<1> QED BY <1>2, <1>3, <1>4

\* The heart of the matter: no stop stands above the one being moved to.
LEMMA BelowTarget ==
  ASSUME RatchetInv, NEW tf \in Timeframes, Moving(tf)
  PROVE  /\ \A s \in stops : s.at <= run[tf].target
         /\ caller = "contract" => /\ run[tf].target >= ticket.trailingAt
                                   /\ run[tf].ticket.trailingAt = ticket.trailingAt
<1> USE DEF RatchetInv
<1>1. CASE caller = "pipeline"
  BY <1>1 DEF PipelineInv
<1>2. CASE caller = "contract"
  <2>1. \A a \in Timeframes : Moving(a) => a = tf
    BY <1>2 DEF ContractInv, Busy, Moving
  <2>2. /\ run[tf].target >= ticket.trailingAt
        /\ run[tf].ticket.trailingAt = ticket.trailingAt
    BY <1>2 DEF ContractInv, Busy, Moving
  <2>3. run[tf].target \in Int /\ ticket.trailingAt \in Int /\ \A s \in stops : s.at \in Int
    BY DEF Typed, Runs, Tickets
  <2>4. \A s \in stops : s.at <= ticket.trailingAt \/ s.at <= run[tf].target
    BY <1>2, <2>1 DEF ContractInv
  <2> QED BY <2>2, <2>3, <2>4
<1> QED BY <1>1, <1>2 DEF Typed

\* moveSl returns, whatever became of the stop.
LEMMA MovedStep ==
  ASSUME RatchetInv, NEW tf \in Timeframes, Moving(tf),
         NEW id \in Nat \cup {None}, Moved(tf, id),
         caller' = caller, profit' = profit, nextId' \in Nat,
         stops' \subseteq [id : Nat, at : Int],
         \A s \in stops' : s \in stops \/ s.at = run[tf].target
  PROVE  RatchetInv'
<1> DEFINE r == run[tf]
           slId == IF id = None THEN ticket.slId ELSE id
<1>1. r \in Runs /\ r.target \in Int /\ Typed /\ ticket.trailingAt \in Int
  BY DEF RatchetInv, Typed, Runs, Tickets
<1>2. /\ \A s \in stops' : s.at <= r.target
      /\ caller = "contract" => /\ r.target >= ticket.trailingAt
                                /\ r.ticket.trailingAt = ticket.trailingAt
  BY <1>1, BelowTarget
<1>3. slId \in Nat
  BY DEF RatchetInv, Typed
<1>4. PICK n \in Runs : /\ run' = [run EXCEPT ![tf] = n]
                        /\ GoesOn(r, n)
                        /\ r.action = "NONE" => n = Idle
  <2>1. CASE r.action # "NONE"
    BY <1>1, <2>1, ProceedStep DEF Moved
  <2>2. CASE r.action = "NONE"
    BY <2>2, IdleType DEF Moved, GoesOn
  <2> QED BY <2>1, <2>2
<1>5. /\ ticket' \in Tickets /\ ticket'.slId \in Nat
      /\ caller = "pipeline" => ticket' = ticket
      /\ caller = "contract" /\ r.action = "NONE" =>
           ticket'.trailingAt = r.target /\ ticket'.state = ticket.state
      /\ caller = "contract" /\ r.action # "NONE" =>
           ticket'.trailingAt = ticket.trailingAt /\ ticket'.state # "INITIAL"
  <2>1. CASE caller = "pipeline"
    <3>1. ticket' = ticket BY <2>1 DEF Moved, Write
    <3> QED BY <1>1, <2>1, <3>1 DEF Typed
  <2>2. CASE caller = "contract" /\ r.action # "NONE"
    <3>1. ticket' = [Exited(r) EXCEPT !.trailing = TRUE, !.slId = slId]
      BY <2>2 DEF Moved, Write
    <3>2. /\ Exited(r) \in Tickets /\ Exited(r).trailingAt = ticket.trailingAt
          /\ Exited(r).state # "INITIAL"
      BY <1>1, <2>2, ExitedRow
    <3> HIDE DEF slId
    <3> QED BY <1>3, <2>2, <3>1, <3>2 DEF Tickets
  <2>3. CASE caller = "contract" /\ r.action = "NONE"
    <3>1. ticket' = [ticket EXCEPT !.trailingAt = r.target, !.maxProfit = r.max,
                                   !.slId = slId]
      BY <2>3 DEF Moved, Write
    <3>2. r.max \in Int BY <1>1 DEF Runs
    <3> HIDE DEF slId, r
    <3> QED BY <1>1, <1>3, <2>3, <3>1, <3>2 DEF Typed, Tickets
  <2> QED BY <1>1, <2>1, <2>2, <2>3 DEF Typed
<1> HIDE DEF slId
<1>6. Typed'
  BY <1>1, <1>4, <1>5 DEF Typed, GoesOn, Idle
<1>7. PipelineInv'
  <2> SUFFICES ASSUME caller = "pipeline" PROVE PipelineInv'
    BY DEF PipelineInv
  <2>1. ticket' = NewTicket /\ r.target = 0 /\ ~r.ticket.trailing
    BY <1>5 DEF RatchetInv, PipelineInv
  <2>2. n = Idle BY <1>4, <2>1 DEF GoesOn
  <2>3. \A s \in stops' : s.at <= 0
    BY <1>2, <2>1
  <2> QED BY <1>1, <1>4, <2>1, <2>2, <2>3
          DEF RatchetInv, PipelineInv, Typed, Moving, Idle, NewTicket
<1>8. ContractInv'
  <2> SUFFICES ASSUME caller = "contract" PROVE ContractInv'
    BY DEF ContractInv
  <2>1. \A a \in Timeframes : Busy(a) => a = tf
    BY OneAtWork DEF RatchetInv, Busy, Moving
  <2>2. r.action \in {"TP1", "NONE"} /\ (r.action = "TP1" => r.target = 0
                                          /\ ticket.trailingAt = 0)
    BY DEF RatchetInv, ContractInv, Busy, Moving
  <2>3. \A s \in stops' : s.at <= ticket'.trailingAt
    BY <1>2, <1>5, <2>2
  <2>a. r.action = "NONE" => ticket.state # "INITIAL"
    BY DEF RatchetInv, ContractInv, Busy, Moving
  <2>4. ticket'.state # "INITIAL"
    BY <1>5, <2>2, <2>a
  <2>5. Fits(n)
    BY <1>1, <1>2, <1>4, <1>5, <2>2, <2>4 DEF Fits, GoesOn, Idle, Runs, Tickets
  <2> QED BY <1>1, <1>4, <1>6, <2>1, <2>3, <2>4, <2>5, ContractStep
<1> QED BY <1>6, <1>7, <1>8 DEF RatchetInv

\* moveSl goes on to its next call.
LEMMA GotoStep ==
  ASSUME RatchetInv, NEW tf \in Timeframes, Moving(tf),
         NEW pc \in {"cancel", "create"}, Goto(tf, pc),
         UNCHANGED <<caller, nextId, profit>>,
         stops' \subseteq [id : Nat, at : Int],
         \A s \in stops' : s \in stops \/ s.at = run[tf].target
  PROVE  RatchetInv'
<1> DEFINE n == [run[tf] EXCEPT !.pc = pc]
<1>1. run[tf] \in Runs /\ run[tf].target \in Int /\ Typed
  BY DEF RatchetInv, Typed, Runs
<1>2. /\ n \in Runs /\ n.pc = pc /\ n.target = run[tf].target
      /\ n.ticket = run[tf].ticket /\ n.action = run[tf].action
  BY <1>1 DEF Runs
<1>3. run' = [run EXCEPT ![tf] = n] /\ ticket' = ticket
  BY DEF Goto
<1> HIDE DEF n
<1>4. \A s \in stops' : s.at <= run[tf].target
  BY <1>1, BelowTarget
<1>5. Typed'
  BY <1>1, <1>2, <1>3 DEF Typed
<1>6. PipelineInv'
  BY <1>1, <1>2, <1>3, <1>4 DEF RatchetInv, PipelineInv, Typed, Moving
<1>7. ContractInv'
  <2> SUFFICES ASSUME caller = "contract" PROVE ContractInv'
    BY DEF ContractInv
  <2>1. \A a \in Timeframes : Busy(a) => a = tf
    BY OneAtWork DEF RatchetInv, Busy, Moving
  <2>2. ticket'.state = "INITIAL" => ticket'.trailingAt = 0 /\ ~ticket'.trailing
    BY <1>3 DEF RatchetInv, ContractInv
  <2>3. Fits(n)
    BY <1>2, <1>3 DEF RatchetInv, ContractInv, Fits, Busy, Moving
  <2> QED BY <1>1, <1>2, <1>3, <1>4, <1>5, <2>1, <2>2, <2>3, ContractStep
<1> QED BY <1>5, <1>6, <1>7 DEF RatchetInv

\* What the calls of moveSl may do to the stops.
LEMMA EditedStops ==
  ASSUME Typed, NEW tf \in Timeframes
  PROVE  /\ Edited(tf) \subseteq [id : Nat, at : Int]
         /\ \A s \in Edited(tf) : s \in stops \/ s.at = run[tf].target
<1>1. run[tf].target \in Int
  BY DEF Typed, Runs
<1>2. \A s \in stops : [s EXCEPT !.at = run[tf].target] \in [id : Nat, at : Int]
                       /\ [s EXCEPT !.at = run[tf].target].at = run[tf].target
  BY <1>1 DEF Typed
<1> QED BY <1>2 DEF Edited, Known, Typed

\* A step of moveSl: the invariant is kept, and a new stop is the target.
LEMMA MoveSlStep ==
  ASSUME RatchetInv, NEW tf \in Timeframes, MoveSl(tf)
  PROVE  /\ RatchetInv'
         /\ Moving(tf)
         /\ \A s \in stops' : s \in stops \/ s.at = run[tf].target
<1>1. Typed /\ run[tf] \in Runs /\ run[tf].ticket.slId \in Nat \cup {None}
  BY DEF RatchetInv, Typed, Runs, Tickets
<1>2. Moving(tf) /\ UNCHANGED <<caller, profit>>
  BY DEF MoveSl, EditSl, CancelSl, CreateSl, Moving
<1>3. stops \subseteq [id : Nat, at : Int] /\ nextId \in Nat /\ run[tf].target \in Int
  BY <1>1 DEF Typed, Runs
<1>4. CASE EditSl(tf)
  <2>1. nextId' = nextId /\ stops' \in {stops, Edited(tf)}
    BY <1>4 DEF EditSl
  <2>2. /\ stops' \subseteq [id : Nat, at : Int]
        /\ \A s \in stops' : s \in stops \/ s.at = run[tf].target
    BY <1>1, <1>3, <2>1, EditedStops
  <2>3. Moved(tf, run[tf].ticket.slId) \/ Goto(tf, "cancel")
    BY <1>4 DEF EditSl
  <2> QED BY <1>1, <1>2, <1>3, <2>1, <2>2, <2>3, MovedStep, GotoStep
<1>5. CASE CancelSl(tf)
  <2>1. nextId' = nextId /\ stops' \subseteq stops /\ Goto(tf, "create")
    BY <1>5 DEF CancelSl
  <2> QED BY <1>2, <1>3, <2>1, GotoStep
<1>6. CASE CreateSl(tf)
  <2>1. [id |-> nextId, at |-> run[tf].target] \in [id : Nat, at : Int]
    BY <1>3
  <2>2. /\ stops' \subseteq [id : Nat, at : Int] /\ nextId' \in Nat
        /\ \A s \in stops' : s \in stops \/ s.at = run[tf].target
    BY <1>3, <1>6, <2>1 DEF CreateSl
  <2>3. Moved(tf, nextId) \/ Moved(tf, None)
    BY <1>6 DEF CreateSl
  <2> QED BY <1>2, <1>3, <2>2, <2>3, MovedStep
<1> QED BY <1>4, <1>5, <1>6 DEF MoveSl

\* The market's steps leave handlers and row alone and place no stop.
LEMMA MarketStep ==
  ASSUME RatchetInv, UNCHANGED <<caller, ticket, run, nextId>>, profit' \in Int,
         stops' \subseteq stops
  PROVE  RatchetInv'
  BY DEF RatchetInv, Typed, PipelineInv, ContractInv, Busy, Moving

LEMMA RatchetStep == ASSUME RatchetInv, [Next]_vars PROVE RatchetInv'
<1>0. profit \in Int /\ Profits \subseteq Int
  BY ExitsAssumption DEF RatchetInv, Typed
<1>1. ASSUME NEW tf \in Timeframes, Begin(tf) PROVE RatchetInv'
  BY <1>1, BeginStep
<1>2. ASSUME NEW tf \in Timeframes, Handle(tf) PROVE RatchetInv'
  BY <1>2, CloseAnsweredStep, CloseFailsStep, MoveSlStep DEF Handle
<1>3. CASE PriceMoves
  BY <1>0, <1>3, MarketStep DEF PriceMoves
<1>4. CASE StopTriggers
  BY <1>0, <1>4, MarketStep DEF StopTriggers
<1>5. CASE TimePasses
  BY <1>0, <1>5, MarketStep DEF TimePasses
<1>6. CASE UNCHANGED vars
  BY <1>0, <1>6, MarketStep DEF vars
<1> QED BY <1>1, <1>2, <1>3, <1>4, <1>5, <1>6 DEF Next

\* Only moveSl places stops, and none below another.
LEMMA NewStopAbove ==
  ASSUME RatchetInv, [Next]_vars
  PROVE  \A s \in stops' \ stops, o \in stops : s.at >= o.at
<1>0. /\ \A o \in stops : o.at \in Int
      /\ \A tf \in Timeframes : run[tf].target \in Int
  BY DEF RatchetInv, Typed, Runs
<1>1. ASSUME NEW tf \in Timeframes, MoveSl(tf)
      PROVE  \A s \in stops' \ stops, o \in stops : s.at >= o.at
  <2>1. /\ Moving(tf)
        /\ \A s \in stops' : s \in stops \/ s.at = run[tf].target
    BY <1>1, MoveSlStep
  <2>2. \A o \in stops : o.at <= run[tf].target
    BY <2>1, BelowTarget
  <2> QED BY <1>0, <2>1, <2>2
<1>2. ASSUME NEW tf \in Timeframes, Begin(tf) \/ CloseAnswered(tf) \/ CloseFails(tf)
      PROVE  stops' = stops
  BY <1>2 DEF Begin, CloseAnswered, CloseFails
<1>3. CASE PriceMoves \/ StopTriggers \/ TimePasses \/ UNCHANGED vars
  <2>1. stops' \subseteq stops
    BY <1>3 DEF PriceMoves, StopTriggers, TimePasses, vars
  <2> QED BY <2>1
<1> QED BY <1>1, <1>2, <1>3 DEF Next, Handle

LEMMA RatchetHolds == Spec => []RatchetInv
<1>1. Init => RatchetInv
  <2> SUFFICES ASSUME Init PROVE RatchetInv
    OBVIOUS
  <2>1. caller \in {"contract", "pipeline"} /\ profit \in Int /\ Sl \in Int /\ Sl < 0
    BY ExitsAssumption DEF Init
  <2>2. stops \subseteq [id : Nat, at : Int] /\ \A s \in stops : s.at <= 0
    BY <2>1 DEF Init
  <2>3. Typed
    BY <2>1, <2>2, NewTicketType, IdleType DEF Init, Typed, Idle
  <2> QED BY <2>2, <2>3
          DEF Init, RatchetInv, PipelineInv, ContractInv, Moving, Busy, Idle, NewTicket
<1>2. RatchetInv /\ [Next]_vars => RatchetInv'
  BY RatchetStep
<1> HIDE DEF RatchetInv, Init, Next, vars
<1> QED BY <1>1, <1>2, PTL DEF Spec

(***************************************************************************)
(* Whatever calls fail or lose their answer, and for both callers, a stop  *)
(* is only placed or moved above every stop the position has.              *)
(***************************************************************************)
THEOREM ExitsStopRatchets == Spec => StopRatchets
<1>1. RatchetInv /\ [Next]_vars =>
        [\A s \in stops' \ stops, o \in stops : s.at >= o.at]_vars
  BY NewStopAbove
<1> HIDE DEF RatchetInv, Init, Next, vars
<1> QED BY <1>1, RatchetHolds, PTL DEF Spec, StopRatchets

-----------------------------------------------------------------------------
\* The position is a natural number of units, whatever size a close asks for.
Unflipped == pos \in Nat

LEMMA UnflippedStep == ASSUME RatchetInv, Unflipped, [Next]_vars PROVE Unflipped'
<1> USE DEF Unflipped
<1>1. ASSUME NEW tf \in Timeframes, CloseFilled(tf) PROVE pos' \in Nat
  <2>1. run[tf].ticket.remaining \in Int
    BY <1>1 DEF RatchetInv, Typed, Runs, Tickets
  <2>2. CalcCloseSize(run[tf].ticket, run[tf].action) \in Int
    BY <2>1, ExitsAssumption DEF CalcCloseSize
  <2>3. QED
    BY <1>1, <2>2 DEF CloseFilled, Reduced
<1>2. ASSUME NEW tf \in Timeframes, CloseAnswered(tf) \/ CloseFails(tf) PROVE pos' \in Nat
  BY <1>1, <1>2 DEF CloseAnswered, CloseFails
<1>3. ASSUME NEW tf \in Timeframes, Begin(tf) \/ MoveSl(tf) PROVE pos' \in Nat
  BY <1>3 DEF Begin, MoveSl, EditSl, CancelSl, CreateSl
<1>4. CASE PriceMoves \/ StopTriggers \/ TimePasses \/ UNCHANGED vars
  BY <1>4 DEF PriceMoves, StopTriggers, TimePasses, vars
<1>5. QED
  BY <1>2, <1>3, <1>4 DEF Next, Handle

(***************************************************************************)
(* What the row says covers the position, and so does every copy of it     *)
(* that a handler has read, in whichever order the handlers' closes are    *)
(* filled: the position only shrinks.  While a filled TP1 is not yet in    *)
(* the row, what it will say covers the position already.                  *)
(***************************************************************************)
RowAbove ==
  /\ pos <= ticket.remaining
  /\ ticket.state = "INITIAL" => ticket.remaining = Size
  /\ ticket.state = "CLOSED" => pos = 0

RunAbove(r, p) ==
  r.pc # "idle" =>
    /\ p <= r.ticket.remaining
    /\ r.action = "TP1" => r.ticket.remaining = Size
    /\ r.pc # "close" /\ r.action = "TP1" => p <= Size - Size \div 2

RowKept == RowAbove /\ \A tf \in Timeframes : RunAbove(run[tf], pos)

LEMMA GoesOnAbove ==
  ASSUME NEW r \in Runs, NEW n \in Runs, GoesOn(r, n), NEW p, p <= r.ticket.remaining
  PROVE  RunAbove(n, p)
  BY DEF GoesOn, RunAbove, Idle

\* One handler goes on, and the position has not grown.
LEMMA RowStep ==
  ASSUME Typed, RowKept, pos \in Nat, pos' \in Nat, pos' <= pos, RowAbove',
         NEW tf \in Timeframes, NEW n \in Runs, run' = [run EXCEPT ![tf] = n], RunAbove(n, pos')
  PROVE  RowKept'
<1>1. run'[tf] = n /\ \A x \in Timeframes \ {tf} : run'[x] = run[x]
  BY DEF Typed
<1>2. ASSUME NEW x \in Timeframes \ {tf} PROVE RunAbove(run'[x], pos')
  <2>1. run[x].ticket.remaining \in Int /\ Size \in Int /\ Size \div 2 \in Int
    BY ExitsAssumption DEF Typed, Runs, Tickets
  <2>2. QED
    BY <1>1, <2>1 DEF RowKept, RunAbove
<1>3. QED
  BY <1>1, <1>2 DEF RowKept

\* What a close order asks for, and what is left when it is filled.
LEMMA FilledAbove ==
  ASSUME RatchetInv, Unflipped, RowKept, NEW tf \in Timeframes, run[tf].pc = "close", CloseFilled(tf)
  PROVE  LET r == run[tf]  left == r.ticket.remaining - CalcCloseSize(r.ticket, r.action)
         IN  /\ pos' \in Nat /\ pos' <= pos
             /\ left \in Int /\ pos' <= left
             /\ r.action = "TIME_EXIT" => pos' = 0
<1> DEFINE r == run[tf]
           size == CalcCloseSize(r.ticket, r.action)
<1>1. /\ r.ticket.remaining \in Int /\ r.action \in {"TP1", "TP2", "TIME_EXIT"}
      /\ pos \in Nat /\ Size \in Nat /\ Size % 4 = 0
  BY ExitsAssumption DEF RatchetInv, Typed, Runs, Tickets, Actions, Unflipped
<1>2. pos <= r.ticket.remaining /\ (r.action = "TP1" => r.ticket.remaining = Size)
  BY DEF RowKept, RunAbove
<1>3. pos' = IF size > pos THEN 0 ELSE pos - size
  BY DEF CloseFilled, Reduced
<1>4. size \in Nat /\ size <= r.ticket.remaining /\ (r.action = "TIME_EXIT" => size = r.ticket.remaining)
  <2>1. CASE r.action = "TP1"
    <3>1. size = Size \div 2
      BY <2>1 DEF CalcCloseSize
    <3>2. QED
      BY <1>1, <1>2, <2>1, <3>1
  <2>2. CASE r.action = "TP2"
    <3>1. size = r.ticket.remaining \div 2
      BY <2>2 DEF CalcCloseSize
    <3> HIDE DEF size, r
    <3>2. r.ticket.remaining \in Nat
      BY <1>1, <1>2
    <3>3. QED
      BY <2>2, <3>1, <3>2
  <2>3. CASE r.action = "TIME_EXIT"
    BY <1>1, <1>2, <2>3 DEF CalcCloseSize
  <2>4. QED
    BY <1>1, <2>1, <2>2, <2>3
<1> HIDE DEF size, r
<1>5. QED
  BY <1>1, <1>2, <1>3, <1>4 DEF size, r

\* The row an exit leads to.
LEMMA ExitedAbove ==
  ASSUME RatchetInv, NEW r \in Runs, r.action # "NONE", NEW p \in Nat,
         p <= r.ticket.remaining - CalcCloseSize(r.ticket, r.action),
         r.action = "TIME_EXIT" => p = 0
  PROVE  /\ p <= Exited(r).remaining
         /\ Exited(r).state # "INITIAL"
         /\ Exited(r).state = "CLOSED" => p = 0
<1>1. Exited(r).remaining = r.ticket.remaining - CalcCloseSize(r.ticket, r.action)
      /\ Exited(r).state = NewState(r.action)
  BY DEF Exited, RatchetInv, Typed, Tickets
<1>2. r.action \in {"TP1", "TP2", "TIME_EXIT"}
  BY DEF Runs, Actions
<1>3. QED
  BY <1>1, <1>2 DEF NewState

LEMMA RowBegin ==
  ASSUME RatchetInv, Unflipped, RowKept, NEW tf \in Timeframes, Begin(tf)
  PROVE  RowKept'
<1> USE DEF RatchetInv
<1> DEFINE action == CheckExit(ticket, profit, tf)
           r == [Idle EXCEPT !.ticket = Handed, !.profit = profit, !.action = action]
           n == [r EXCEPT !.pc = "close"]
<1>1. /\ Handed \in Tickets /\ Handed.remaining = ticket.remaining
      /\ UNCHANGED <<ticket, pos>> /\ pos \in Nat
  BY DEF Begin, Handed, Typed, Tickets, Unflipped
<1>2. action \in Actions /\ (action = "TP1" => ticket.state = "INITIAL")
  BY DEF CheckExit, Actions
<1>3. r \in Runs /\ r.ticket = Handed /\ r.action = action
  <2> HIDE DEF action
  <2> QED BY <1>1, <1>2, IdleType DEF Runs, Idle, Typed
<1>4. RowAbove' /\ pos' <= pos /\ pos' \in Nat
  BY <1>1 DEF RowKept, RowAbove
<1>5. CASE action = "NONE"
  <2>1. PICK m \in Runs : run' = [run EXCEPT ![tf] = m] /\ GoesOn(r, m)
    BY <1>3, <1>5, ProceedStep DEF Begin
  <2> HIDE DEF r, action
  <2>2. RunAbove(m, pos')
    BY <1>1, <1>3, <2>1, GoesOnAbove DEF RowKept, RowAbove
  <2>3. QED
    BY <1>1, <1>4, <2>1, <2>2, RowStep
<1>6. CASE action # "NONE"
  <2>1. run' = [run EXCEPT ![tf] = n]
    BY <1>6 DEF Begin
  <2>2. n \in Runs /\ n.pc = "close" /\ n.ticket = Handed /\ n.action = action
    BY <1>3 DEF Runs
  <2> HIDE DEF n, r, action
  <2>3. RunAbove(n, pos')
    BY <1>1, <1>2, <2>2 DEF RunAbove, RowKept, RowAbove
  <2>4. QED
    BY <1>1, <1>4, <2>1, <2>2, <2>3, RowStep
<1>7. QED
  BY <1>5, <1>6

LEMMA RowAnswered ==
  ASSUME RatchetInv, Unflipped, RowKept, NEW tf \in Timeframes, CloseAnswered(tf)
  PROVE  RowKept'
<1> USE DEF RatchetInv
<1> DEFINE r == run[tf]
           left == r.ticket.remaining - CalcCloseSize(r.ticket, r.action)
<1>1. r.pc = "close" /\ r.action # "NONE" /\ r \in Runs /\ CloseFilled(tf)
  BY DEF CloseAnswered, Typed
<1>2. /\ pos \in Nat /\ pos' \in Nat /\ pos' <= pos /\ left \in Int /\ pos' <= left
      /\ r.action = "TIME_EXIT" => pos' = 0
  BY <1>1, FilledAbove DEF Unflipped
<1>3. r.ticket.remaining \in Int /\ ticket.remaining \in Int /\ pos <= r.ticket.remaining
      /\ (r.action = "TP1" => r.ticket.remaining = Size)
  BY <1>1 DEF Typed, Runs, Tickets, RowKept, RunAbove
<1>4. CASE r.action = "TP1"
  <2> DEFINE n == ToBreakeven(r)
  <2>1. run' = [run EXCEPT ![tf] = n] /\ UNCHANGED ticket
    BY <1>4 DEF CloseAnswered, MovesStop
  <2>2. n \in Runs /\ n.pc \in {"create", "edit"} /\ n.action = "TP1" /\ n.ticket = r.ticket
    BY <1>1, <1>4, BreakevenRun
  <2>3. left = Size - Size \div 2
    BY <1>3, <1>4 DEF CalcCloseSize
  <2> HIDE DEF n, r, left
  <2>4. RunAbove(n, pos')
    BY <1>2, <1>3, <1>4, <2>2, <2>3 DEF RunAbove
  <2>5. RowAbove'
    BY <1>2, <1>3, <2>1 DEF RowAbove, RowKept
  <2>6. QED
    BY <1>2, <2>1, <2>2, <2>4, <2>5, RowStep
<1>5. CASE r.action # "TP1"
  <2>1. Write(Exited(r)) /\ Proceed(tf, r)
    BY <1>5 DEF CloseAnswered, MovesStop
  <2>2. PICK m \in Runs : run' = [run EXCEPT ![tf] = m] /\ GoesOn(r, m)
    BY <1>1, <2>1, ProceedStep
  <2>3. ticket' = Exited(r) \/ ticket' = ticket
    BY <2>1 DEF Write
  <2>4. pos' <= Exited(r).remaining /\ Exited(r).state # "INITIAL"
        /\ (Exited(r).state = "CLOSED" => pos' = 0)
    BY <1>1, <1>2, ExitedAbove
  <2> HIDE DEF r, left
  <2>5. RowAbove'
    BY <1>2, <1>3, <2>3, <2>4 DEF RowAbove, RowKept
  <2>6. RunAbove(m, pos')
    BY <1>1, <1>2, <1>3, <2>2, GoesOnAbove
  <2>7. QED
    BY <1>2, <2>2, <2>5, <2>6, RowStep
<1>6. QED
  BY <1>4, <1>5

LEMMA RowFails ==
  ASSUME RatchetInv, Unflipped, RowKept, NEW tf \in Timeframes, CloseFails(tf)
  PROVE  RowKept'
<1> USE DEF RatchetInv
<1>1. /\ run[tf].pc = "close" /\ run[tf] \in Runs /\ UNCHANGED ticket /\ Proceed(tf, run[tf])
      /\ run[tf].ticket.remaining \in Int /\ ticket.remaining \in Int /\ pos \in Nat
  BY DEF CloseFails, Typed, Runs, Tickets, Unflipped
<1>2. pos' \in Nat /\ pos' <= pos
  BY <1>1, FilledAbove DEF CloseFails
<1>3. RowAbove' /\ pos' <= run[tf].ticket.remaining
  BY <1>1, <1>2 DEF RowAbove, RowKept, RunAbove
<1>4. PICK m \in Runs : run' = [run EXCEPT ![tf] = m] /\ GoesOn(run[tf], m)
  BY <1>1, ProceedStep
<1>5. QED
  BY <1>1, <1>2, <1>3, <1>4, GoesOnAbove, RowStep

LEMMA RowMoves ==
  ASSUME RatchetInv, Unflipped, RowKept, NEW tf \in Timeframes, MoveSl(tf)
  PROVE  RowKept'
<1> USE DEF RatchetInv
<1> DEFINE r == run[tf]
<1>1. /\ r.pc \notin {"idle", "close"} /\ r \in Runs /\ pos' = pos /\ pos \in Nat
      /\ r.ticket.remaining \in Int /\ ticket.remaining \in Int
  BY DEF MoveSl, EditSl, CancelSl, CreateSl, Typed, Runs, Tickets, Unflipped
<1>0. pos' \in Nat /\ pos' <= pos /\ Typed
  BY <1>1
<1>2. RunAbove(r, pos) /\ RowAbove
  BY DEF RowKept
<1>3. ASSUME NEW pc \in {"cancel", "create"}, Goto(tf, pc) PROVE RowKept'
  <2> DEFINE n == [r EXCEPT !.pc = pc]
  <2>1. run' = [run EXCEPT ![tf] = n] /\ UNCHANGED ticket
    BY <1>3 DEF Goto
  <2>2. n \in Runs /\ n.pc = pc /\ n.ticket = r.ticket /\ n.action = r.action
    BY <1>1 DEF Runs
  <2> HIDE DEF n, r
  <2>3. RunAbove(n, pos') /\ RowAbove'
    BY <1>1, <1>2, <2>1, <2>2 DEF RunAbove, RowAbove
  <2>4. QED
    BY <1>0, <1>1, <2>1, <2>2, <2>3, RowStep
<1>4. ASSUME NEW id \in Nat \cup {None}, Moved(tf, id) PROVE RowKept'
  <2> DEFINE slId == IF id = None THEN ticket.slId ELSE id
  <2>1. PICK n \in Runs : run' = [run EXCEPT ![tf] = n] /\ GoesOn(r, n)
    BY <1>1, <1>4, ProceedStep, IdleType DEF Moved, GoesOn
  <2>2. RunAbove(n, pos')
    BY <1>1, <1>2, <2>1, GoesOnAbove DEF RunAbove
  <2>3. CASE r.action # "NONE"
    <3>1. ticket' = ticket \/ ticket' = [Exited(r) EXCEPT !.trailing = TRUE, !.slId = slId]
      BY <1>4, <2>3 DEF Moved, Write
    <3> HIDE DEF slId
    <3>2. CASE ticket' # ticket
      <4>1. caller = "contract"
        BY <1>4, <2>3, <3>2 DEF Moved, Write
      <4>2. r.action = "TP1"
        BY <1>1, <2>3, <4>1 DEF ContractInv, Busy
      <4>3. pos <= r.ticket.remaining - CalcCloseSize(r.ticket, r.action)
        BY <1>1, <1>2, <4>2 DEF RunAbove, CalcCloseSize
      <4>4. Exited(r) \in Tickets /\ pos <= Exited(r).remaining /\ Exited(r).state # "INITIAL"
            /\ (Exited(r).state = "CLOSED" => pos = 0)
        BY <1>1, <4>2, <4>3, ExitedRow, ExitedAbove
      <4>5. ticket'.remaining = Exited(r).remaining /\ ticket'.state = Exited(r).state
        BY <3>1, <3>2, <4>4 DEF Tickets
      <4> HIDE DEF r
      <4>6. RowAbove'
        BY <1>1, <4>4, <4>5 DEF RowAbove
      <4>7. QED
        BY <1>0, <1>1, <2>1, <2>2, <4>6, RowStep
    <3>3. CASE ticket' = ticket
      <4>1. RowAbove'
        BY <1>1, <1>2, <3>3 DEF RowAbove
      <4> HIDE DEF r
      <4>2. QED
        BY <1>0, <1>1, <2>1, <2>2, <4>1, RowStep
    <3>4. QED
      BY <3>2, <3>3
  <2>4. CASE r.action = "NONE"
    <3>1. ticket' \in {ticket, [ticket EXCEPT !.trailingAt = r.target, !.maxProfit = r.max, !.slId = slId]}
      BY <1>4, <2>4 DEF Moved, Write
    <3> HIDE DEF slId, r
    <3>2. ticket'.remaining = ticket.remaining /\ ticket'.state = ticket.state
      BY <3>1 DEF Typed, Tickets
    <3>3. RowAbove'
      BY <1>1, <1>2, <3>2 DEF RowAbove
    <3>4. QED
      BY <1>0, <1>1, <2>1, <2>2, <3>3, RowStep
  <2>5. QED
    BY <2>3, <2>4
<1>5. run[tf].ticket.slId \in Nat \cup {None} /\ nextId \in Nat
  BY <1>1 DEF Runs, Tickets, Typed
<1>6. QED
  BY <1>3, <1>4, <1>5 DEF MoveSl, EditSl, CancelSl, CreateSl

LEMMA RowKeptStep ==
  ASSUME RatchetInv, Unflipped, RowKept, [Next]_vars PROVE RowKept'
<1>1. ASSUME NEW tf \in Timeframes, Begin(tf) \/ Handle(tf) PROVE RowKept'
  BY <1>1, RowBegin, RowAnswered, RowFails, RowMoves DEF Handle
<1>2. CASE StopTriggers
  <2>1. pos' = 0 /\ ticket' = ticket /\ run' = run /\ pos \in Nat
    BY <1>2 DEF StopTriggers, Unflipped
  <2>2. /\ ticket.remaining \in Int /\ Size \in Int /\ Size \div 2 \in Int
        /\ \A tf \in Timeframes : run[tf].ticket.remaining \in Int
    BY ExitsAssumption DEF RatchetInv, Typed, Runs, Tickets
  <2>3. QED
    BY <2>1, <2>2 DEF RowKept, RowAbove, RunAbove
<1>3. CASE PriceMoves \/ TimePasses \/ UNCHANGED vars
  BY <1>3 DEF PriceMoves, TimePasses, vars, RowKept, RowAbove, RunAbove
<1>4. QED
  BY <1>1, <1>2, <1>3 DEF Next

(***************************************************************************)
(* Whatever close orders fail or lose their answer, however many handlers  *)
(* of the daemon hold a copy of the row, and for every size and price: the *)
(* row and every copy of it cover the position, so that a TIME_EXIT that   *)
(* is filled leaves nothing, and a row is closed only when it is gone.     *)
(***************************************************************************)
THEOREM ExitsRowCovers == Spec => []RowCovers
<1>1. Init => Unflipped /\ RowKept
  BY ExitsAssumption DEF Init, Unflipped, RowKept, RowAbove, RunAbove, NewTicket, Idle
<1>2. RatchetInv /\ (Unflipped /\ RowKept) /\ [Next]_vars => (Unflipped /\ RowKept)'
  BY UnflippedStep, RowKeptStep
<1>3. RowKept => RowCovers
  BY DEF RowCovers, RowKept, RowAbove, RunAbove
<1> HIDE DEF RatchetInv, Unflipped, RowKept, RowCovers, Init, Next, vars
<1>4. QED
  BY <1>1, <1>2, <1>3, RatchetHolds, PTL DEF Spec

-----------------------------------------------------------------------------
(***************************************************************************)
(* What holds at rest, of the stop.  While nothing has failed: once TP1    *)
(* has been filled, a position has a stop at the entry or above, or        *)
(* somebody is about to place one; whoever takes a stop away moves it up.  *)
(***************************************************************************)
StopAbove == \E s \in stops : s.at >= 0
MoverAbove(tf) == Moving(tf) /\ run[tf].target >= 0
Covered == tp1s > 0 /\ pos > 0 => StopAbove \/ \E tf \in Timeframes : MoverAbove(tf)

CoverInv == faults \in Nat /\ tp1s \in Nat /\ (faults = 0 => Covered)

LEMMA FaultsGrow ==
  ASSUME faults \in Nat, [Next]_vars
  PROVE  faults' \in Nat /\ (faults' = 0 => faults = 0 /\ faults' = faults)
<1>1. faults' = faults \/ faults' = faults + 1
  BY DEF Next, Begin, Handle, CloseAnswered, CloseFails, MoveSl, EditSl, CancelSl, CreateSl, Fault,
     NoFault, PriceMoves, StopTriggers, TimePasses, vars
<1>2. QED
  BY <1>1

LEMMA OthersKept ==
  ASSUME Typed, NEW tf \in Timeframes, Begin(tf) \/ Handle(tf)
  PROVE  \A x \in Timeframes \ {tf} : run'[x] = run[x]
<1>1. \E n : run' = [run EXCEPT ![tf] = n]
  BY DEF Begin, Handle, CloseAnswered, CloseFails, MoveSl, EditSl, CancelSl, CreateSl, Proceed,
     Moved, Goto
<1>2. QED
  BY <1>1 DEF Typed

\* The calls of moveSl, none of which fails.
LEMMA CoverMoveStep ==
  ASSUME RatchetInv, Covered, NEW tf \in Timeframes, MoveSl(tf), faults' = faults, faults \in Nat
  PROVE  Covered'
<1> SUFFICES ASSUME tp1s > 0, pos > 0 PROVE StopAbove' \/ \E x \in Timeframes : MoverAbove(x)'
  BY DEF MoveSl, EditSl, CancelSl, CreateSl, Covered
<1> DEFINE target == run[tf].target
<1>0. Moving(tf) /\ ~Fault /\ target \in Int /\ stops \subseteq [id : Nat, at : Int]
  BY MoveSlStep DEF Fault, RatchetInv, Typed, Runs
<1>1. \A s \in stops : s.at <= target
  BY <1>0, BelowTarget
<1>2. \A x \in Timeframes \ {tf} : MoverAbove(x) => MoverAbove(x)'
  BY OthersKept DEF Handle, MoverAbove, Moving, RatchetInv
<1>3. StopAbove \/ \E x \in Timeframes : MoverAbove(x)
  BY DEF Covered
\* Where the target is below the entry, no stop is above it: somebody else is
\* at work.
<1>4. CASE ~(target >= 0)
  <2>1. ~StopAbove /\ ~MoverAbove(tf)
    BY <1>0, <1>1, <1>4 DEF StopAbove, MoverAbove
  <2>2. QED
    BY <1>2, <1>3, <2>1
<1>5. CASE target >= 0
  <2>1. ASSUME NEW pc \in {"cancel", "create"}, Goto(tf, pc) PROVE MoverAbove(tf)'
    BY <1>5, <2>1 DEF Goto, MoverAbove, Moving, RatchetInv, Typed, Runs
  <2>2. CASE EditSl(tf)
    <3>1. (Known(tf) # {} /\ stops' = Edited(tf)) \/ Goto(tf, "cancel")
      BY <2>2 DEF EditSl
    <3>2. CASE Known(tf) # {} /\ stops' = Edited(tf)
      <4>1. PICK k \in stops : k \in Known(tf)
        BY <3>2 DEF Known
      <4>2. [k EXCEPT !.at = target] \in stops' /\ [k EXCEPT !.at = target].at = target
        BY <1>0, <3>2, <4>1 DEF Edited
      <4>3. QED
        BY <1>5, <4>2 DEF StopAbove
    <3>3. QED
      BY <2>1, <3>1, <3>2
  <2>3. CASE CancelSl(tf)
    BY <2>1, <2>3 DEF CancelSl
  <2>4. CASE CreateSl(tf)
    <3>1. [id |-> nextId, at |-> target] \in stops'
      BY <1>0, <2>4 DEF CreateSl
    <3>2. QED
      BY <1>5, <3>1 DEF StopAbove
  <2>5. QED
    BY <2>2, <2>3, <2>4 DEF MoveSl
<1>6. QED
  BY <1>4, <1>5

LEMMA CoverStep ==
  ASSUME RatchetInv, Unflipped, CoverInv, [Next]_vars PROVE CoverInv'
<1> USE DEF CoverInv
<1>1. faults' \in Nat /\ (faults' = 0 => faults = 0 /\ faults' = faults)
  BY FaultsGrow
<1>2. tp1s' \in Nat
  <2>1. ASSUME NEW tf \in Timeframes, CloseAnswered(tf) \/ CloseFails(tf) PROVE tp1s' \in Nat
    BY <2>1 DEF CloseAnswered, CloseFails, CloseFilled
  <2>2. ASSUME NEW tf \in Timeframes, Begin(tf) \/ MoveSl(tf) PROVE tp1s' \in Nat
    BY <2>2 DEF Begin, MoveSl, EditSl, CancelSl, CreateSl
  <2>3. CASE PriceMoves \/ StopTriggers \/ TimePasses \/ UNCHANGED vars
    BY <2>3 DEF PriceMoves, StopTriggers, TimePasses, vars
  <2>4. QED
    BY <2>1, <2>2, <2>3 DEF Next, Handle
<1> SUFFICES ASSUME faults' = 0, Covered PROVE Covered'
  BY <1>1, <1>2
<1>3. Typed /\ faults = 0 /\ ~Fault
  BY <1>1 DEF RatchetInv, Fault
<1>4. ASSUME NEW tf \in Timeframes, MoveSl(tf) PROVE Covered'
  BY <1>1, <1>4, CoverMoveStep
<1>5. ASSUME NEW tf \in Timeframes, CloseFails(tf) PROVE Covered'
  BY <1>3, <1>5 DEF CloseFails, Covered
\* A handler that was not moving a stop goes on; the others stay.
<1>6. ASSUME NEW tf \in Timeframes, Begin(tf) \/ Handle(tf), ~Moving(tf), UNCHANGED <<stops, tp1s>>,
             pos > 0
      PROVE  Covered'
  <2>1. \A x \in Timeframes : MoverAbove(x) => MoverAbove(x)'
    BY <1>3, <1>6, OthersKept DEF MoverAbove, Moving
  <2>2. QED
    BY <1>6, <2>1 DEF Covered, StopAbove
<1>7. ASSUME NEW tf \in Timeframes, Begin(tf) PROVE Covered'
  <2>1. ~Moving(tf) /\ UNCHANGED <<stops, tp1s, pos>>
    BY <1>7 DEF Begin, Busy, Moving
  <2>2. QED
    BY <1>6, <1>7, <2>1 DEF Covered
<1>8. ASSUME NEW tf \in Timeframes, CloseAnswered(tf) PROVE Covered'
  <2>1. run[tf].pc = "close" /\ pos > 0 /\ UNCHANGED stops /\ ~Moving(tf)
    BY <1>8 DEF CloseAnswered, CloseFilled, Moving
  <2>2. CASE run[tf].action = "TP1"
    <3>1. run' = [run EXCEPT ![tf] = ToBreakeven(run[tf])]
      BY <1>8, <2>2 DEF CloseAnswered, MovesStop
    <3>2. run[tf] \in Runs
      BY <1>3 DEF Typed
    <3>3. ToBreakeven(run[tf]).pc \in {"create", "edit"} /\ ToBreakeven(run[tf]).target = 0
      BY <3>2 DEF ToBreakeven, Runs
    <3>4. run'[tf] = ToBreakeven(run[tf])
      BY <1>3, <3>1 DEF Typed
    <3>5. MoverAbove(tf)'
      BY <3>3, <3>4 DEF MoverAbove, Moving
    <3>6. QED
      BY <3>5 DEF Covered
  <2>3. CASE run[tf].action # "TP1"
    <3>1. tp1s' = tp1s
      BY <1>8, <2>3 DEF CloseAnswered, CloseFilled
    <3>2. QED
      BY <1>6, <1>8, <2>1, <3>1 DEF Handle
  <2>4. QED
    BY <2>2, <2>3
<1>9. CASE StopTriggers
  BY <1>9 DEF StopTriggers, Covered
<1>10. CASE PriceMoves \/ TimePasses \/ UNCHANGED vars
  BY <1>10 DEF PriceMoves, TimePasses, vars, Covered, StopAbove, MoverAbove, Moving
<1>11. QED
  BY <1>4, <1>5, <1>7, <1>8, <1>9, <1>10 DEF Next, Handle

-----------------------------------------------------------------------------
(***************************************************************************)
(* What holds at rest, of the size.  Under the contract, while nothing has *)
(* failed: the row keeps to the ladder, and so does the position, which is *)
(* a step ahead between a filled TP1 and the end of moving its stop.       *)
(***************************************************************************)
AfterTp1 == \E tf \in Timeframes : Moving(tf) /\ run[tf].action = "TP1"

LadderKept ==
  /\ stopped => pos = 0
  /\ ticket.remaining = Ladder(ticket.state)
  /\ ~stopped => pos = IF AfterTp1 THEN Ladder("TP1_HIT") ELSE Ladder(ticket.state)
  /\ \A tf \in Timeframes : Busy(tf) /\ run[tf].action # "NONE" =>
       /\ run[tf].ticket.state = ticket.state /\ run[tf].ticket.remaining = ticket.remaining
       /\ run[tf].action = "TP2" => ticket.state = "TP1_HIT"

LadderInv == caller = "contract" /\ faults = 0 => LadderKept

\* The ladder's sizes.
LEMMA LadderValues ==
  /\ Size \in Nat /\ Ladder("INITIAL") = Size /\ Ladder("TP1_HIT") = Size \div 2
  /\ Ladder("TP2_HIT") = Size \div 4 /\ Ladder("CLOSED") = 0
  /\ Size - Size \div 2 = Size \div 2 /\ (Size \div 2) - (Size \div 2) \div 2 = Size \div 4
  /\ Size \div 2 \in Nat /\ Size \div 4 \in Nat /\ Size \div 2 <= Size
  /\ (Size \div 2) \div 2 <= Size \div 2 /\ (Size \div 2) \div 2 \in Nat
<1>1. Size \in Nat /\ Size % 4 = 0
  BY ExitsAssumption
<1>2. /\ Size - Size \div 2 = Size \div 2 /\ (Size \div 2) - (Size \div 2) \div 2 = Size \div 4
      /\ Size \div 2 \in Nat /\ Size \div 4 \in Nat /\ Size \div 2 <= Size
      /\ (Size \div 2) \div 2 <= Size \div 2 /\ (Size \div 2) \div 2 \in Nat
  BY <1>1
<1>3. QED
  BY <1>1, <1>2 DEF Ladder

\* A handler that was not moving a stop goes on to trail, or rests.
LEMMA LadderGoesOn ==
  ASSUME Typed, ContractInv, caller = "contract", NEW tf \in Timeframes,
         \A a \in Timeframes : Busy(a) => a = tf,
         NEW n \in Runs, run' = [run EXCEPT ![tf] = n], n = Idle \/ n.action = "NONE"
  PROVE  ~AfterTp1' /\ \A x \in Timeframes : ~(Busy(x)' /\ run'[x].action # "NONE")
  BY DEF AfterTp1, Moving, Busy, Typed, Idle

\* The row after a filled close.
LEMMA LadderRow ==
  ASSUME Typed, LadderKept, ContractInv, caller = "contract", NEW tf \in Timeframes, Busy(tf),
         run[tf].action # "NONE"
  PROVE  LET r == run[tf]  size == CalcCloseSize(r.ticket, r.action)
         IN  /\ size \in Nat /\ size <= ticket.remaining
             /\ Exited(r).remaining = ticket.remaining - size
             /\ Exited(r).state = NewState(r.action)
             /\ ticket.remaining - size = Ladder(NewState(r.action))
             /\ r.action = "TP1" => NewState(r.action) = "TP1_HIT"
<1> DEFINE r == run[tf]
           size == CalcCloseSize(r.ticket, r.action)
<1>1. /\ r.ticket.state = ticket.state /\ r.ticket.remaining = ticket.remaining
      /\ r.action \in {"TP1", "TP2", "TIME_EXIT"} /\ ticket.state \in States
      /\ r.action = "TP1" => ticket.state = "INITIAL"
      /\ r.action = "TP2" => ticket.state = "TP1_HIT"
      /\ ticket.remaining = Ladder(ticket.state)
  BY DEF LadderKept, ContractInv, Typed, Runs, Actions, Tickets
<1>2. ticket.remaining \in Nat
  BY <1>1, LadderValues DEF States
<1>3. Exited(r).remaining = r.ticket.remaining - size /\ Exited(r).state = NewState(r.action)
  BY DEF Exited, Typed, Tickets
<1>4. CASE r.action = "TP1"
  BY <1>1, <1>2, <1>3, <1>4, LadderValues DEF CalcCloseSize, NewState
<1>5. CASE r.action = "TP2"
  BY <1>1, <1>2, <1>3, <1>5, LadderValues DEF CalcCloseSize, NewState
<1>6. CASE r.action = "TIME_EXIT"
  BY <1>1, <1>2, <1>3, <1>6, LadderValues DEF CalcCloseSize, NewState
<1>7. QED
  BY <1>1, <1>4, <1>5, <1>6

LEMMA LadderBegin ==
  ASSUME RatchetInv, LadderKept, caller = "contract", NEW tf \in Timeframes, Begin(tf)
  PROVE  LadderKept'
<1> USE DEF RatchetInv
<1> DEFINE action == CheckExit(ticket, profit, tf)
           r == [Idle EXCEPT !.ticket = Handed, !.profit = profit, !.action = action]
           n == [r EXCEPT !.pc = "close"]
<1>1. Handed = ticket /\ Quiet /\ UNCHANGED <<ticket, pos, stopped>>
  BY DEF Begin, Handed
<1>2. action \in Actions /\ (action = "TP2" => ticket.state = "TP1_HIT")
  BY DEF CheckExit, Actions
<1>3. r \in Runs /\ r.ticket = ticket /\ r.action = action
  <2> HIDE DEF action
  <2> QED BY <1>1, <1>2, IdleType DEF Runs, Idle, Typed
<1>4. \A a \in Timeframes : ~Busy(a)
  BY <1>1 DEF Quiet
<1>5. ~AfterTp1
  BY <1>4 DEF AfterTp1, Moving, Busy
<1>6. CASE action = "NONE"
  <2>1. PICK m \in Runs : run' = [run EXCEPT ![tf] = m] /\ GoesOn(r, m)
    BY <1>3, <1>6, ProceedStep DEF Begin
  <2>2. ~AfterTp1' /\ \A x \in Timeframes : ~(Busy(x)' /\ run'[x].action # "NONE")
    BY <1>4, <2>1, LadderGoesOn DEF GoesOn
  <2>3. QED
    BY <1>1, <1>5, <2>2 DEF LadderKept
<1>7. CASE action # "NONE"
  <2>1. run' = [run EXCEPT ![tf] = n]
    BY <1>7 DEF Begin
  <2>2. n.pc = "close" /\ n.ticket = ticket /\ n.action = action
    BY <1>3 DEF Runs
  <2> HIDE DEF n, r, action
  <2>3. run'[tf] = n /\ \A x \in Timeframes \ {tf} : run'[x] = run[x]
    BY <2>1 DEF Typed
  <2>4. ~AfterTp1'
    BY <1>4, <2>2, <2>3 DEF AfterTp1, Moving, Busy
  <2>5. QED
    BY <1>1, <1>2, <1>4, <1>5, <2>2, <2>3, <2>4 DEF LadderKept, Busy
<1>8. QED
  BY <1>6, <1>7

LEMMA LadderAnswered ==
  ASSUME RatchetInv, LadderKept, Unflipped, caller = "contract", NEW tf \in Timeframes,
         CloseAnswered(tf)
  PROVE  LadderKept'
<1> USE DEF RatchetInv
<1> DEFINE r == run[tf]
           size == CalcCloseSize(r.ticket, r.action)
<1>1. /\ r.pc = "close" /\ r.action # "NONE" /\ r \in Runs /\ Busy(tf) /\ pos > 0
      /\ pos' = Reduced(size) /\ UNCHANGED stopped
  BY DEF CloseAnswered, CloseFilled, Typed, Busy
<1>2. \A a \in Timeframes : Busy(a) => a = tf
  BY <1>1, OneAtWork
<1>3. ~AfterTp1 /\ ~stopped /\ pos = ticket.remaining
  BY <1>1, <1>2 DEF LadderKept, AfterTp1, Moving, Busy, Unflipped
<1>4. /\ size \in Nat /\ size <= ticket.remaining
      /\ Exited(r).remaining = ticket.remaining - size
      /\ Exited(r).state = NewState(r.action)
      /\ ticket.remaining - size = Ladder(NewState(r.action))
      /\ r.action = "TP1" => NewState(r.action) = "TP1_HIT"
  BY <1>1, LadderRow
<1>5. pos' = Ladder(NewState(r.action))
  BY <1>1, <1>3, <1>4 DEF Reduced, Unflipped
<1>6. CASE r.action = "TP1"
  <2> DEFINE n == ToBreakeven(r)
  <2>1. run' = [run EXCEPT ![tf] = n] /\ UNCHANGED ticket
    BY <1>6 DEF CloseAnswered, MovesStop
  <2>2. n.pc \in {"create", "edit"} /\ n.action = "TP1" /\ n.ticket = r.ticket
    BY <1>1, <1>6 DEF ToBreakeven, Runs
  <2> HIDE DEF n, r, size
  <2>3. run'[tf] = n /\ \A x \in Timeframes \ {tf} : run'[x] = run[x]
    BY <2>1 DEF Typed
  <2>4. AfterTp1'
    BY <2>2, <2>3 DEF AfterTp1, Moving
  <2>5. r.ticket.state = ticket.state /\ r.ticket.remaining = ticket.remaining
    BY <1>1, <1>6 DEF LadderKept, r
  <2>6. \A x \in Timeframes \ {tf} : ~Busy(x)'
    BY <1>2, <2>3 DEF Busy
  <2>7. QED
    BY <1>1, <1>3, <1>4, <1>5, <1>6, <2>1, <2>2, <2>3, <2>4, <2>5, <2>6 DEF LadderKept
<1>7. CASE r.action # "TP1"
  <2>1. ticket' = Exited(r) /\ Proceed(tf, r)
    BY <1>7 DEF CloseAnswered, MovesStop, Write
  <2>2. PICK m \in Runs : run' = [run EXCEPT ![tf] = m] /\ GoesOn(r, m)
    BY <1>1, <2>1, ProceedStep
  <2>3. ~AfterTp1' /\ \A x \in Timeframes : ~(Busy(x)' /\ run'[x].action # "NONE")
    BY <1>2, <2>2, LadderGoesOn DEF GoesOn
  <2> HIDE DEF r, size
  <2>4. QED
    BY <1>1, <1>3, <1>4, <1>5, <2>1, <2>3 DEF LadderKept
<1>8. QED
  BY <1>6, <1>7

LEMMA LadderFails ==
  ASSUME RatchetInv, LadderKept, caller = "contract", NEW tf \in Timeframes, CloseFails(tf), ~Fault
  PROVE  LadderKept'
<1> USE DEF RatchetInv
<1>1. /\ run[tf].pc = "close" /\ run[tf] \in Runs /\ UNCHANGED <<ticket, pos, stopped>>
      /\ Proceed(tf, run[tf]) /\ Busy(tf)
  BY DEF CloseFails, Typed, Busy
<1>2. \A a \in Timeframes : Busy(a) => a = tf
  BY <1>1, OneAtWork
<1>3. ~AfterTp1
  BY <1>1, <1>2 DEF AfterTp1, Moving, Busy
<1>4. PICK m \in Runs : run' = [run EXCEPT ![tf] = m] /\ GoesOn(run[tf], m)
  BY <1>1, ProceedStep
<1>5. ~AfterTp1' /\ \A x \in Timeframes : ~(Busy(x)' /\ run'[x].action # "NONE")
  BY <1>2, <1>4, LadderGoesOn DEF GoesOn
<1>6. QED
  BY <1>1, <1>3, <1>5 DEF LadderKept

LEMMA LadderMoves ==
  ASSUME RatchetInv, LadderKept, caller = "contract", NEW tf \in Timeframes, MoveSl(tf)
  PROVE  LadderKept'
<1> USE DEF RatchetInv
<1> DEFINE r == run[tf]
<1>1. Moving(tf) /\ Busy(tf) /\ r \in Runs /\ UNCHANGED <<pos, stopped, caller>>
  BY DEF MoveSl, EditSl, CancelSl, CreateSl, Moving, Busy, Typed
<1>2. (\A a \in Timeframes : Busy(a) => a = tf) /\ r.action \in {"TP1", "NONE"}
  BY <1>1, OneAtWork DEF ContractInv, Moving
<1>3. AfterTp1 <=> r.action = "TP1"
  BY <1>1, <1>2 DEF AfterTp1, Moving, Busy
<1>4. ASSUME NEW pc \in {"cancel", "create"}, Goto(tf, pc) PROVE LadderKept'
  <2>1. /\ ticket' = ticket /\ run'[tf].pc = pc /\ run'[tf].action = r.action
        /\ run'[tf].ticket = r.ticket /\ \A x \in Timeframes \ {tf} : run'[x] = run[x]
    BY <1>1, <1>4 DEF Goto, Typed, Runs
  <2>2. AfterTp1' <=> AfterTp1
    BY <1>1, <1>2, <1>3, <2>1 DEF AfterTp1, Moving, Busy
  <2>3. \A x \in Timeframes : Busy(x)' => x = tf
    BY <1>2, <2>1 DEF Busy
  <2>4. QED
    BY <1>1, <2>1, <2>2, <2>3 DEF LadderKept
<1>5. ASSUME NEW id, Moved(tf, id) PROVE LadderKept'
  <2> DEFINE slId == IF id = None THEN ticket.slId ELSE id
  <2>1. CASE r.action = "TP1"
    <3>1. ticket' = [Exited(r) EXCEPT !.trailing = TRUE, !.slId = slId] /\ Proceed(tf, r)
      BY <1>5, <2>1 DEF Moved, Write
    <3>2. /\ Exited(r).remaining = Ladder("TP1_HIT") /\ Exited(r).state = "TP1_HIT"
          /\ Exited(r) \in Tickets
      BY <1>1, <2>1, LadderRow, ExitedRow
    <3> HIDE DEF slId
    <3>3. ticket'.remaining = Ladder("TP1_HIT") /\ ticket'.state = "TP1_HIT"
      BY <3>1, <3>2 DEF Tickets
    <3>4. PICK m \in Runs : run' = [run EXCEPT ![tf] = m] /\ GoesOn(r, m)
      BY <1>1, <3>1, ProceedStep
    <3>5. ~AfterTp1' /\ \A x \in Timeframes : ~(Busy(x)' /\ run'[x].action # "NONE")
      BY <1>2, <3>4, LadderGoesOn DEF GoesOn
    <3>6. QED
      BY <1>1, <1>3, <2>1, <3>3, <3>5 DEF LadderKept
  <2>2. CASE r.action = "NONE"
    <3>1. /\ ticket' = [ticket EXCEPT !.trailingAt = r.target, !.maxProfit = r.max, !.slId = slId]
          /\ run' = [run EXCEPT ![tf] = Idle]
      BY <1>5, <2>2 DEF Moved, Write
    <3> HIDE DEF slId
    <3>2. ticket'.remaining = ticket.remaining /\ ticket'.state = ticket.state
      BY <3>1 DEF Typed, Tickets
    <3>3. ~AfterTp1' /\ \A x \in Timeframes : ~(Busy(x)' /\ run'[x].action # "NONE")
      BY <1>2, <3>1, IdleType, LadderGoesOn
    <3>4. QED
      BY <1>1, <1>3, <2>2, <3>2, <3>3 DEF LadderKept
  <2>3. QED
    BY <1>2, <2>1, <2>2
<1>6. QED
  BY <1>4, <1>5 DEF MoveSl, EditSl, CancelSl, CreateSl

LEMMA LadderStep ==
  ASSUME RatchetInv, Unflipped, faults \in Nat, LadderInv, [Next]_vars PROVE LadderInv'
<1>1. faults' = 0 => faults = 0 /\ ~Fault
  BY FaultsGrow DEF Fault
<1>2. caller' = caller
  BY DEF Next, Begin, Handle, CloseAnswered, CloseFails, MoveSl, EditSl, CancelSl, CreateSl,
     PriceMoves, StopTriggers, TimePasses, vars
<1> SUFFICES ASSUME caller = "contract", LadderKept, ~Fault PROVE LadderKept'
  BY <1>1, <1>2 DEF LadderInv
<1>3. ASSUME NEW tf \in Timeframes, Begin(tf) \/ Handle(tf) PROVE LadderKept'
  BY <1>3, LadderBegin, LadderAnswered, LadderFails, LadderMoves DEF Handle
<1>4. CASE StopTriggers
  BY <1>4 DEF StopTriggers, LadderKept, AfterTp1, Moving, Busy
<1>5. CASE PriceMoves \/ TimePasses \/ UNCHANGED vars
  BY <1>5 DEF PriceMoves, TimePasses, vars, LadderKept, AfterTp1, Moving, Busy
<1>6. QED
  BY <1>3, <1>4, <1>5 DEF Next

(***************************************************************************)
(* Between two candles, as long as nothing has failed: under the contract  *)
(* the row and the exchange agree with the ladder of PRD 7.13, and for     *)
(* both callers what is left after TP1 has a stop at the entry or above,   *)
(* for every size, targets, price and interleaving.                        *)
(***************************************************************************)
THEOREM ExitsAtRest == Spec => []AtRest
<1>1. Init => Unflipped /\ CoverInv /\ LadderInv
  <2> SUFFICES ASSUME Init PROVE Unflipped /\ CoverInv /\ LadderInv
    OBVIOUS
  <2>1. \A tf \in Timeframes : ~Busy(tf) /\ ~Moving(tf)
    BY DEF Init, Idle, Busy, Moving
  <2>2. ticket.state = "INITIAL" /\ ticket.remaining = Size /\ pos = Size
    BY DEF Init, NewTicket
  <2>3. QED
    BY <2>1, <2>2, LadderValues
       DEF Init, Unflipped, CoverInv, Covered, LadderInv, LadderKept, AfterTp1
<1>2. RatchetInv /\ (Unflipped /\ CoverInv /\ LadderInv) /\ [Next]_vars
        => (Unflipped /\ CoverInv /\ LadderInv)'
  BY UnflippedStep, CoverStep, LadderStep DEF CoverInv
<1>3. RatchetInv /\ Unflipped /\ CoverInv /\ LadderInv => AtRest
  <2> SUFFICES ASSUME Unflipped, CoverInv, LadderInv, Quiet, faults = 0
               PROVE  /\ caller = "contract" /\ ~stopped =>
                           pos = ticket.remaining /\ pos = Ladder(ticket.state)
                      /\ tp1s > 0 /\ pos > 0 => \E s \in stops : s.at >= 0
    BY DEF AtRest
  <2>1. \A tf \in Timeframes : ~Moving(tf)
    BY DEF Quiet, Busy, Moving
  <2>2. QED
    BY <2>1 DEF CoverInv, Covered, StopAbove, MoverAbove, LadderInv, LadderKept, AfterTp1
<1> HIDE DEF RatchetInv, Unflipped, CoverInv, LadderInv, AtRest, Init, Next, vars
<1>4. QED
  BY <1>1, <1>2, <1>3, RatchetHolds, PTL DEF Spec
=============================================================================
