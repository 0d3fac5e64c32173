------------------------------- MODULE Limits -------------------------------
(***************************************************************************)
(* What may stop an entry before the signal is looked at: trade blocks     *)
(* (filters/trade-block.ts, filters/economic-calendar.ts) and loss limits  *)
(* (limits/loss-limit.ts), read by the 5M and 1M handlers of               *)
(* daemon/pipeline.ts, which are not awaited and interleave.               *)
(*                                                                         *)
(* Time is counted in slots of a quarter of an hour and visits the         *)
(* instants of Clock.  Losses are counted in units.                        *)
(***************************************************************************)
EXTENDS Integers, FiniteSets, Functions

CONSTANTS
  Clock,              \* the instants explored, from slot 0 of day 0
  Symbols,
  Streams,            \* <<symbol, timeframe>> whose candles close
  Losing,             \* <<symbol, timeframe>> whose tickets may lose
  Releases,           \* economic events: [at, stars]
  DayLimit,           \* balance * LOSS_LIMIT.max_daily_loss_pct
  MaxSessionLosses, MaxHourly5m, MaxHourly1m,
  MaxLosses           \* bound: losses in one behaviour

ASSUME ClockAssumption == Clock \subseteq Nat /\ 0 \in Clock
ASSUME SymbolAssumption == IsFiniteSet(Symbols)
ASSUME StreamAssumption == Streams \subseteq Symbols \X {"5M", "1M", "1H"} /\ Losing \subseteq Symbols \X {"5M", "1M"}
ASSUME ReleaseAssumption == Releases \subseteq [at : Nat, stars : Nat]
ASSUME LimitAssumption == {DayLimit, MaxSessionLosses, MaxHourly5m, MaxHourly1m} \subseteq Nat \ {0}

Day == 96
Hour == 4
UtcDateKey(t) == t \div Day
UtcHourKey(t) == t \div Hour

VARIABLES
  now,
  row,            \* symbol_state: losses_today, losses_session, losses_this_1h_5m and _1m
  oneTime,        \* trade_blocks rows that are not recurring
  ran,            \* the last day the calendar has run for
  last,           \* lastDailyReset and lastHourlyReset of the caller of resetAllExpired
  sessionStarted, \* sessionStartTime is set (it then lies in the past)
  prev,           \* previouslyBlocked
  fired,          \* recent1MFired: symbols whose 1M fired in this slot
  task,           \* the handler of each stream
  losses,         \* how many have been recorded
  known,          \* events of the days whose calendar was stored
  \* History, read by no guard: the losses of this day and hour,
  real,           \* all of them,
  settled,        \* those recorded when no reset was due or on its way,
  wiped           \* those a reset has taken back

limitVars == <<now, row, oneTime, ran, last, sessionStarted, prev, fired, task, losses, known,
               real, settled, wiped>>

Idle == [at |-> "idle"]
NoLoss == [today |-> 0, h5 |-> 0, h1 |-> 0]

-----------------------------------------------------------------------------
(***************************************************************************)
(* Trade blocks.  SEED_PATTERNS: market opens <<start, duration>>, and the *)
(* funding hours with a window of a slot on either side.                   *)
(***************************************************************************)
MarketOpens == {<<0, 8>>, <<28, 8>>, <<54, 8>>, <<58, 8>>}
FundingHours == {0, 32, 64}
HalfFunding == 1

InMarketOpenWindow(rule, t) ==
  LET start == rule[1]  end == rule[1] + rule[2]  n == t % Day IN
  IF end >= Day THEN n >= start \/ n < end - Day ELSE n >= start /\ n < end

FundingUnwrapped(center, t) ==             \* variant: the window before midnight forgotten
  t % Day >= center - HalfFunding /\ t % Day < center + HalfFunding

InFundingWindow(center, t) ==
  LET start == center - HalfFunding  end == center + HalfFunding  n == t % Day IN
  IF start < 0 THEN n >= Day + start \/ n < end
  ELSE IF end >= Day THEN n >= start \/ n < end - Day
  ELSE n >= start /\ n < end

MatchesRecurrenceRule(t) ==
  \/ \E rule \in MarketOpens : InMarketOpenWindow(rule, t)
  \/ \E center \in FundingHours : InFundingWindow(center, t)

IsTradeBlocked(t) ==
  MatchesRecurrenceRule(t) \/ \E b \in oneTime : b.start <= t /\ t <= b.end

BlockSpan == 8
EconomicBlock(e) == [start |-> e.at - BlockSpan, end |-> e.at + BlockSpan]
FallbackBlock(day) == [start |-> day * Day, end |-> (day + 1) * Day]
ParsedEvents(day) == {e \in Releases : UtcDateKey(e.at) = day /\ e.stars >= 3}

-----------------------------------------------------------------------------
LimitInit ==
  /\ now = 0 /\ ran = -1 /\ sessionStarted = FALSE /\ oneTime = {} /\ known = {}
  /\ row = [s \in Symbols |-> [today |-> 0, session |-> 0, h5 |-> 0, h1 |-> 0]]
  /\ last = [s \in Symbols |-> [daily |-> 0, hourly |-> 0]]
  /\ prev = [s \in Symbols |-> FALSE] /\ fired = {}
  /\ task = [st \in Streams |-> Idle]
  /\ real = [s \in Symbols |-> NoLoss] /\ settled = real /\ wiped = real /\ losses = 0

\* The history counts a day and an hour by the clock.
Aged(l, t) ==
  [today |-> IF t \div Day = now \div Day THEN l.today ELSE 0,
   h5 |-> IF t \div Hour = now \div Hour THEN l.h5 ELSE 0,
   h1 |-> IF t \div Hour = now \div Hour THEN l.h1 ELSE 0]

\* A handler outlives one tick at most.
Tick ==
  /\ \A st \in Streams : task[st].at # "idle" => task[st].time = now
  /\ \E t \in Clock :
       /\ t > now /\ now' = t /\ fired' = {}
       /\ real' = [s \in Symbols |-> Aged(real[s], t)]
       /\ settled' = [s \in Symbols |-> Aged(settled[s], t)]
       /\ wiped' = [s \in Symbols |-> Aged(wiped[s], t)]
  /\ UNCHANGED <<row, oneTime, ran, last, sessionStarted, prev, task, losses, known>>

-----------------------------------------------------------------------------
(***************************************************************************)
(* runDailyEconomicCalendar, once a day at or after midnight: a row for    *)
(* each 3-star event of the day, some of them when an insert throws; then, *)
(* as when the page is not read, one row for the whole day, or, the        *)
(* database still failing, nothing more.                                   *)
(***************************************************************************)
RunCalendar ==
  LET day == UtcDateKey(now) IN
  /\ ran < day /\ ran' = day
  /\ \/ /\ oneTime' = oneTime \cup {EconomicBlock(e) : e \in ParsedEvents(day)}
        /\ known' = known \cup ParsedEvents(day)
     \/ \E done \in SUBSET ParsedEvents(day) :
          /\ done # ParsedEvents(day) \/ done = {}
          /\ \/ /\ oneTime' = oneTime \cup {EconomicBlock(e) : e \in done} \cup {FallbackBlock(day)}
                /\ known' = known \cup ParsedEvents(day)
             \/ /\ oneTime' = oneTime \cup {EconomicBlock(e) : e \in done}
                /\ known' = known \cup done
  /\ UNCHANGED <<now, row, last, sessionStarted, prev, fired, task, losses, real, settled, wiped>>

-----------------------------------------------------------------------------
(***************************************************************************)
(* Loss counters.                                                          *)
(***************************************************************************)
TodayOf(f) == SumFunctionOnSet([s \in Symbols |-> f[s].today], Symbols)

Expired(s, t) ==
  {x \in {"daily", "session", "hourly"} :
     \/ x = "daily" /\ UtcDateKey(t) # UtcDateKey(last[s].daily)
     \/ x = "session" /\ sessionStarted
     \/ x = "hourly" /\ UtcHourKey(t) # UtcHourKey(last[s].hourly)}

\* resetDailyLosses, resetSessionLosses, resetHourlyLosses: one UPDATE each.
ResetHourlyOf1mForgotten(r, done) ==       \* variant: one of the two hourly counters
  [today |-> IF "daily" \in done THEN 0 ELSE r.today,
   session |-> IF "session" \in done THEN 0 ELSE r.session,
   h5 |-> IF "hourly" \in done THEN 0 ELSE r.h5, h1 |-> r.h1]
Reset(r, done) ==
  [today |-> IF "daily" \in done THEN 0 ELSE r.today,
   session |-> IF "session" \in done THEN 0 ELSE r.session,
   h5 |-> IF "hourly" \in done THEN 0 ELSE r.h5, h1 |-> IF "hourly" \in done THEN 0 ELSE r.h1]

\* What they take back: all there was of the day, of the hour.
Forgotten(all, l, done) ==
  [today |-> IF "daily" \in done THEN all.today ELSE l.today,
   h5 |-> IF "hourly" \in done THEN all.h5 ELSE l.h5, h1 |-> IF "hourly" \in done THEN all.h1 ELSE l.h1]

Counted(l, tf) ==
  [l EXCEPT !.today = @ + 1, !.h5 = @ + (IF tf = "5M" THEN 1 ELSE 0), !.h1 = @ + (IF tf = "1M" THEN 1 ELSE 0)]

\* A handler of s has that reset still to make, or to report as made.
Pending(s, name) ==
  \E st \in Streams : st[1] = s /\ task[st].at = "reset" /\ name \in task[st].due

\* The reset of this day, or hour, has been made and reported.
DayReset(s) == UtcDateKey(now) = UtcDateKey(last[s].daily)
HourReset(s) == UtcHourKey(now) = UtcHourKey(last[s].hourly)

SettledWith(s, l, c) ==
  [today |-> IF DayReset(s) /\ ~Pending(s, "daily") THEN c.today ELSE l.today,
   h5 |-> IF HourReset(s) /\ ~Pending(s, "hourly") THEN c.h5 ELSE l.h5,
   h1 |-> IF HourReset(s) /\ ~Pending(s, "hourly") THEN c.h1 ELSE l.h1]

\* recordLoss, one UPDATE: called by nothing in src/ but meant for a closing ticket.
RecordLoss(s, tf) ==
  /\ losses < MaxLosses /\ losses' = losses + 1
  /\ row' = [row EXCEPT ![s] = [Counted(row[s], tf) EXCEPT !.session = row[s].session + 1]]
  /\ real' = [real EXCEPT ![s] = Counted(@, tf)]
  /\ settled' = [settled EXCEPT ![s] = SettledWith(s, @, Counted(@, tf))]
  /\ UNCHANGED <<now, oneTime, ran, last, sessionStarted, prev, fired, task, known, wiped>>

CheckAllButEqual(r) ==                     \* variant: > where the code has >=
  r.today <= DayLimit /\ r.session <= MaxSessionLosses /\ r.h5 <= MaxHourly5m /\ r.h1 <= MaxHourly1m
CheckLossLimit(r) ==
  r.today < DayLimit /\ r.session < MaxSessionLosses /\ r.h5 < MaxHourly5m /\ r.h1 < MaxHourly1m
CheckAccountDailyLimit == TodayOf(row) < DayLimit

-----------------------------------------------------------------------------
(***************************************************************************)
(* processSymbol and the first gates of processEntry.  Any await may fail  *)
(* and end the handler; handlers of one stream follow each other.          *)
(***************************************************************************)
Goes(st, to) == task' = [task EXCEPT ![st] = to]
Quits(st) ==
  /\ task[st].at # "idle" /\ Goes(st, Idle)
  /\ UNCHANGED <<now, row, oneTime, ran, last, sessionStarted, prev, fired, losses, known, real, settled, wiped>>

\* resetAllExpired looks which resets are due.
CandleCloses(st) ==
  /\ task[st].at = "idle"
  /\ Goes(st, [at |-> "reset", time |-> now, due |-> Expired(st[1], now),
               seen |-> [real[st[1]] EXCEPT !.today = TodayOf(real)]])
  /\ UNCHANGED <<now, row, oneTime, ran, last, sessionStarted, prev, fired, losses, known, real, settled, wiped>>

Landed(s, done) ==
  /\ row' = [row EXCEPT ![s] = Reset(@, done)]
  /\ wiped' = [wiped EXCEPT ![s] = Forgotten(real[s], @, done)]

\* Its updates land, each on columns of its own, and the caller remembers which it
\* made; then 5M or 1M.
ResetsLand(st) ==
  LET s == st[1]  w == task[st] IN
  /\ w.at = "reset" /\ Landed(s, w.due)
  /\ last' = [last EXCEPT ![s] = [daily |-> IF "daily" \in w.due THEN w.time ELSE @.daily,
                                  hourly |-> IF "hourly" \in w.due THEN w.time ELSE @.hourly]]
  /\ fired' = IF st[2] = "1M" THEN fired \cup {s} ELSE fired
  /\ IF st[2] = "1H" \/ (st[2] = "5M" /\ s \in fired)
     THEN Goes(st, Idle) ELSE Goes(st, [at |-> "block", time |-> w.time, seen |-> w.seen])
  /\ UNCHANGED <<now, oneTime, ran, sessionStarted, prev, losses, known, real, settled>>

\* One of them fails though others land: the caller gets an error and remembers none.
ResetsFail(st) ==
  LET w == task[st] IN
  /\ w.at = "reset"
  /\ \E done \in SUBSET w.due : done # w.due /\ done # {} /\ Landed(st[1], done)
  /\ Goes(st, Idle)
  /\ UNCHANGED <<now, oneTime, ran, last, sessionStarted, prev, fired, losses, known, real, settled>>

\* isTradeBlocked answers blocked when its query fails.
Blocked(st) ==
  /\ task[st].at = "block" /\ Goes(st, Idle)
  /\ prev' = [prev EXCEPT ![st[1]] = TRUE]
  /\ UNCHANGED <<now, row, oneTime, ran, last, sessionStarted, fired, losses, known, real, settled, wiped>>

Open(st) == task[st].at = "block" /\ ~IsTradeBlocked(now)
Unblocked(st) ==
  /\ Open(st)
  /\ sessionStarted' = (sessionStarted \/ prev[st[1]])
  /\ prev' = [prev EXCEPT ![st[1]] = FALSE]
  /\ Goes(st, [task[st] EXCEPT !.at = "state"])
  /\ UNCHANGED <<now, row, oneTime, ran, last, fired, losses, known, real, settled, wiped>>

GetSymbolState(st) ==
  LET w == task[st] IN
  /\ w.at = "state"
  /\ Goes(st, [at |-> "limits", time |-> w.time, seen |-> w.seen, state |-> row[st[1]]])
  /\ UNCHANGED <<now, row, oneTime, ran, last, sessionStarted, prev, fired, losses, known, real, settled, wiped>>

\* Both limits pass: the handler goes on to the watch session and the signal.
Passes(st) ==
  task[st].at = "limits" /\ CheckAccountDailyLimit /\ CheckLossLimit(task[st].state)
PassLimits(st) ==
  /\ Passes(st) /\ Goes(st, Idle)
  /\ UNCHANGED <<now, row, oneTime, ran, last, sessionStarted, prev, fired, losses, known, real, settled, wiped>>

LimitNext ==
  \/ Tick \/ RunCalendar
  \/ \E st \in Losing : RecordLoss(st[1], st[2])
  \/ \E st \in Streams : \/ CandleCloses(st) \/ ResetsLand(st) \/ ResetsFail(st) \/ Blocked(st)
                         \/ Unblocked(st) \/ GetSymbolState(st) \/ PassLimits(st) \/ Quits(st)

LimitSpec == LimitInit /\ [][LimitNext]_limitVars

-----------------------------------------------------------------------------
\* The seeded windows, said without their wrapping: so many slots after the opening,
\* so near to a funding hour on the clock.
Distance(x, t) == LET n == (t - x) % Day IN IF 2 * n <= Day THEN n ELSE n - Day
WindowsHold(t) ==
  /\ \A rule \in MarketOpens : (t - rule[1]) % Day >= rule[2]
  /\ \A center \in FundingHours : Distance(center, t) \notin -HalfFunding..(HalfFunding - 1)

\* No handler passes the block check in a seeded window, nor within two hours of an
\* event of its day whose calendar was stored or made up for, whatever failed meanwhile.
BlocksHold ==
  \A st \in Streams : Open(st) =>
    /\ WindowsHold(now)
    /\ \A e \in known : UtcDateKey(e.at) = UtcDateKey(now) => e.at - now \notin -BlockSpan..BlockSpan

\* A reset may take back losses of its own hour or day: two handlers find the same
\* reset due, and the update of the later lands after losses were recorded
\* (loss-limit.ts resetAllExpired).  It takes back no other loss: one recorded when
\* the reset of its day, or hour, is remembered as made and no handler has it still
\* to make is in the counters until the day, or the hour, is over.  Every loss that
\* was not taken back is in them; and once the reset is remembered they hold these
\* and nothing more, nothing of an earlier hour or day.
CountersTrue ==
  \A s \in Symbols :
    /\ settled[s].today <= row[s].today /\ settled[s].h5 <= row[s].h5 /\ settled[s].h1 <= row[s].h1
    /\ real[s].today - wiped[s].today <= row[s].today
    /\ real[s].h5 - wiped[s].h5 <= row[s].h5 /\ real[s].h1 - wiped[s].h1 <= row[s].h1
    /\ DayReset(s) => row[s].today = real[s].today - wiped[s].today
    /\ HourReset(s) => row[s].h5 = real[s].h5 - wiped[s].h5 /\ row[s].h1 = real[s].h1 - wiped[s].h1

\* A handler that passes both limits may exceed them only by losses a reset took back:
\* of the losses recorded before its candle closed, those of the day, on all symbols,
\* and those of the hour, on its own, are below the limits when what resets have taken
\* back until now is not counted, however the handlers' resets and reads interleave.
LimitsHold ==
  \A st \in Streams : Passes(st) =>
    LET seen == task[st].seen  t == task[st].time  back == wiped[st[1]] IN
    /\ t \div Day = now \div Day => seen.today - TodayOf(wiped) < DayLimit
    /\ t \div Hour = now \div Hour => seen.h5 - back.h5 < MaxHourly5m /\ seen.h1 - back.h1 < MaxHourly1m
=============================================================================
