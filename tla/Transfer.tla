------------------------------ MODULE Transfer ------------------------------
(***************************************************************************)
(* Moving profit from the futures to the spot wallet: the timer chain of   *)
(* transfer/scheduler.ts, executeTransfer of transfer/executor.ts with its *)
(* retries, and the manual ways in (api/routes/transfers.ts and            *)
(* scripts/transfer-now.ts), over the configuration cache.                 *)
(*                                                                         *)
(* Time is counted in half days from a Sunday's midnight.                  *)
(***************************************************************************)
EXTENDS Config

CONSTANTS
  Runs,               \* runs that may be in flight
  MaxNow, MaxStarts, MaxManual, MaxTrades,     \* bounds
  MaxRetries,         \* withRetry's attempts
  Wallet, Margins, Profits,                    \* the account before, what trading may make of it
  RiskTimesMultiplier,                         \* risk_pct * reserve_multiplier, in percent
  ReserveFloor, TransferPct, MinTransfer

ASSUME TransferAssumption ==
  /\ {MaxNow, MaxStarts, MaxManual, MaxTrades, Wallet, ReserveFloor, MinTransfer} \subseteq Nat
  /\ MaxRetries \in Nat \ {0} /\ RiskTimesMultiplier \in 0..100 /\ TransferPct \in 0..100
  /\ Values \subseteq [enabled : BOOLEAN, schedule : {"daily", "weekly"}, time : 0..1]
  /\ Margins \subseteq Nat /\ Profits \subseteq Int /\ None \notin Nat

VARIABLES
  now,
  running, starts,  \* the scheduler's running, how often start() was called
  timer,            \* when the timer of the handle fires, None without one
  orphans,          \* armed timers whose handle has been overwritten
  run,              \* the runOnce or executeTransfer in each slot
  manual, trades,   \* how often
  wallet, margin, profit,
  busyStop          \* the last stop() met a run, or a timer it had no handle to

vars == <<configVars, now, running, starts, timer, orphans, run, manual, trades, wallet, margin,
          profit, busyStop>>
account == <<wallet, margin, profit>>
counts == <<starts, manual, trades>>

Day == 2
Week == 14
NoRun == [at |-> "none"]
Active(r) == run[r] # NoRun
Chained(r) == Active(r) /\ run[r].chain
Larger(x, y) == IF x > y THEN x ELSE y

-----------------------------------------------------------------------------
(***************************************************************************)
(* getNextRunTime.                                                         *)
(***************************************************************************)
UntilDaily(t, time) ==
  LET target == t - (t % Day) + time IN IF t >= target THEN target + Day - t ELSE target - t

UntilNextMonday(t, time) ==
  LET weekday == (t \div Day) % 7
      target == t - (t % Day) + Day * (IF weekday = 1 THEN 0 ELSE (8 - weekday) % 7) + time
  IN  IF t >= target THEN target + Week - t ELSE target - t

GetNextRunTime(schedule, time, t) ==
  t + (IF schedule = "weekly" THEN UntilNextMonday(t, time) ELSE UntilDaily(t, time))

-----------------------------------------------------------------------------
(***************************************************************************)
(* calculateTransferable.                                                  *)
(***************************************************************************)
Reserve(w) == Larger((w * RiskTimesMultiplier) \div 100, ReserveFloor)
TransferAmount(p) == (p * TransferPct) \div 100

CoversUnspent(w, m, amount) == w >= m + Reserve(w)      \* variant: the balance before
Covers(w, m, amount) == w - amount >= m + Reserve(w)

Transferable(w, m, p) ==
  p > 0 /\ TransferAmount(p) >= MinTransfer /\ Covers(w, m, TransferAmount(p))

-----------------------------------------------------------------------------
Init ==
  /\ ConfigInit
  /\ now = 0 /\ running = FALSE /\ timer = None /\ orphans = {}
  /\ starts = 0 /\ manual = 0 /\ trades = 0 /\ busyStop = FALSE
  /\ run = [r \in Runs |-> NoRun]
  /\ wallet = Wallet /\ margin = 0 /\ profit = 0

Tick ==
  /\ now < MaxNow /\ now' = now + 1
  /\ profit' = IF now' % Day = 0 THEN 0 ELSE profit       \* getDailyProfit starts at midnight
  /\ UNCHANGED <<configVars, running, timer, orphans, run, counts, wallet, margin, busyStop>>

\* A run that another change of the account has come between.
Disturbed(others) == [r \in Runs |-> IF r \in others /\ Active(r) THEN [run[r] EXCEPT !.calm = FALSE] ELSE run[r]]

\* The daemon trades: a ticket closes, a position is opened or closed.
Trade ==
  /\ trades < MaxTrades /\ trades' = trades + 1
  /\ margin' \in Margins /\ profit' \in Profits /\ wallet' = wallet + profit' - profit
  /\ wallet' >= margin' /\ run' = Disturbed(Runs)
  /\ UNCHANGED <<configVars, now, running, timer, orphans, starts, manual, busyStop>>

Armed(at) ==
  /\ timer' = at
  /\ orphans' = IF timer = None THEN orphans ELSE orphans \cup {timer}

Start ==
  /\ starts < MaxStarts /\ starts' = starts + 1
  /\ running' = TRUE /\ Armed(now)
  /\ UNCHANGED <<configVars, now, run, manual, trades, account, busyStop>>

StopUnnoticed ==                             \* variant: only running is reset
  /\ running' = FALSE /\ busyStop' = (orphans # {} \/ \E r \in Runs : Chained(r))
  /\ UNCHANGED <<configVars, now, timer, orphans, run, counts, account>>

\* At any time: a second stop() clears the timer a run armed after the first.
Stop ==
  /\ running' = FALSE /\ timer' = None
  /\ busyStop' = (orphans # {} \/ \E r \in Runs : Chained(r))
  /\ UNCHANGED <<configVars, now, orphans, run, counts, account>>

Begins(r, at, chain) ==
  /\ ~Active(r)
  /\ run' = [run EXCEPT ![r] = [at |-> at, chain |-> chain, conf |-> None, try |-> 1,
                                amount |-> 0, calm |-> \A o \in Runs : ~Active(o)]]

Fire(r) ==
  /\ \/ timer # None /\ timer <= now /\ timer' = None /\ UNCHANGED orphans
     \/ \E at \in orphans : at <= now /\ orphans' = orphans \ {at} /\ UNCHANGED timer
  /\ Begins(r, "config", TRUE)
  /\ UNCHANGED <<configVars, now, running, counts, account, busyStop>>

\* POST /transfers/trigger or the transfer-now script: executeTransfer without the chain.
TriggerTransfer(r) ==
  /\ manual < MaxManual /\ manual' = manual + 1
  /\ Begins(r, "params", FALSE)
  /\ UNCHANGED <<configVars, now, running, timer, orphans, starts, trades, account, busyStop>>

Step(r, to) == run' = [run EXCEPT ![r] = to]

\* runOnce's end: the timer is armed whatever has happened, stop() included.
Ends(r, at) ==
  /\ Step(r, NoRun)
  /\ IF run[r].chain THEN Armed(at) ELSE UNCHANGED <<timer, orphans>>
Returns(r) ==
  IF run[r].chain THEN Ends(r, GetNextRunTime(run[r].conf.schedule, run[r].conf.time, now))
                  ELSE Ends(r, now)
ThrowsUnarmed(r) ==                           \* variant: an error ends the chain
  Step(r, NoRun) /\ UNCHANGED <<timer, orphans>>
Throws(r) == Ends(r, now + Day)

\* Three getConfig at once; without a cache they throw.
ReadConfig(r) ==
  /\ run[r].at = "config"
  /\ \/ cache # None /\ cache.enabled /\ UNCHANGED <<timer, orphans>>
        /\ Step(r, [run[r] EXCEPT !.at = "params", !.conf = cache])
     \/ cache # None /\ ~cache.enabled /\ Step(r, NoRun)
        /\ Armed(GetNextRunTime(cache.schedule, cache.time, now))
     \/ cache = None /\ Throws(r)
  /\ UNCHANGED <<configVars, now, running, counts, account, busyStop>>

\* getTransferParams, calculateTransferable; what is skipped is logged, which may throw.
GetTransferParams(r) ==
  /\ run[r].at = "params"
  /\ \/ /\ Transferable(wallet, margin, profit) /\ UNCHANGED <<timer, orphans>>
        /\ Step(r, [run[r] EXCEPT !.at = "send", !.amount = TransferAmount(profit)])
     \/ ~Transferable(wallet, margin, profit) /\ Returns(r)
     \/ Throws(r)
  /\ UNCHANGED <<configVars, now, running, counts, account, busyStop>>

\* One attempt: the money moves or not, the answer comes or not.
Moves(r) == wallet - margin >= run[r].amount /\ wallet' = wallet - run[r].amount
Transfer(r) ==
  /\ run[r].at = "send" /\ Moves(r)
  /\ run' = [Disturbed(Runs \ {r}) EXCEPT ![r].at = "after"]
  /\ UNCHANGED <<configVars, now, running, timer, orphans, counts, margin, profit, busyStop>>

Retried(r, w) ==
  [w EXCEPT ![r].try = @ + 1, ![r].at = IF run[r].try = MaxRetries THEN "after" ELSE "send"]
AnswerLost(r) ==
  /\ run[r].at = "send" /\ Moves(r)
  /\ run' = Retried(r, Disturbed(Runs))
  /\ UNCHANGED <<configVars, now, running, timer, orphans, counts, margin, profit, busyStop>>

TransferRefused(r) ==
  /\ run[r].at = "send"
  /\ run' = Retried(r, run)
  /\ UNCHANGED <<configVars, now, running, timer, orphans, counts, account, busyStop>>

\* The balance is read and the outcome logged; logging the failure may throw as well.
LogOutcome(r) ==
  /\ run[r].at = "after" /\ (Returns(r) \/ Throws(r))
  /\ UNCHANGED <<configVars, now, running, counts, account, busyStop>>

Next ==
  \/ ConfigNext /\ UNCHANGED <<now, running, timer, orphans, run, counts, account, busyStop>>
  \/ Tick \/ Trade \/ Start \/ Stop
  \/ \E r \in Runs :
       \/ Fire(r) \/ TriggerTransfer(r) \/ ReadConfig(r) \/ GetTransferParams(r)
       \/ Transfer(r) \/ AnswerLost(r) \/ TransferRefused(r) \/ LogOutcome(r)

Spec == Init /\ [][Next]_vars

-----------------------------------------------------------------------------
\* The scheduler does not die: until it is stopped a timer is armed or a run is under
\* way, whatever of configuration, exchange and log fails; and the time it is armed
\* for is the first instant after now that the schedule names.
Scheduled(t, schedule, time) == t % Day = time /\ (schedule = "weekly" => ((t \div Day) % 7) = 1)
KeepsRunning ==
  /\ running => timer # None \/ orphans # {} \/ \E r \in Runs : Chained(r)
  /\ \A schedule \in {"daily", "weekly"}, time \in 0..1 :
       LET next == GetNextRunTime(schedule, time, now) IN
       /\ next > now /\ Scheduled(next, schedule, time)
       /\ \A t \in (now + 1)..(next - 1) : ~Scheduled(t, schedule, time)

\* A transfer never eats into the margin and the reserve, if nothing else has touched the
\* account since its run looked and no answer of its was lost.
BufferKept ==
  [][\A r \in Runs : run[r].at = "send" /\ run[r].calm /\ (Transfer(r) \/ AnswerLost(r))
       => wallet' >= margin + Reserve(wallet')]_vars

\* stop() is final where no run was under way and no second start had hidden a timer.
StopsQuietly ==
  ~running /\ ~busyStop => timer = None /\ orphans = {} /\ \A r \in Runs : ~Chained(r)
=============================================================================
