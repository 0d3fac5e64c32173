----------------------------- MODULE CandleFeed -----------------------------
(***************************************************************************)
(* The candles of one stream (a symbol and a timeframe): history sync and  *)
(* subscription at start (candles/index.ts, sync.ts), the collector        *)
(* (collector.ts), the recovery of gaps (gap-recovery.ts,                  *)
(* gap-detection.ts) and the table they write (repository.ts), over the    *)
(* connection of WsConnection.                                             *)
(*                                                                         *)
(* Time is counted in bars of the timeframe: `now` is the bar in progress. *)
(* A candle is [bar, row]; of its data only what the row will say matters: *)
(*   "open"    the price so far,  is_closed = false                        *)
(*   "partial" the price so far,  is_closed = true                         *)
(*   "final"   the final price,   is_closed = true                         *)
(***************************************************************************)
EXTENDS WsConnection, Integers, Sequences, FiniteSets, FiniteSetsExt, SequencesExt

CONSTANTS MaxBar,      \* bound: the last bar
          Day,         \* bars of a day
          Window,      \* bars of RECOVERY_WINDOW_MS
          Multiplier,  \* RECONNECT_MULTIPLIER
          MaxRecent,   \* MAX_RECENT_CLOSES
          MaxDelay,    \* how many bars late the close of a bar may arrive
          Slack,       \* candles asked for beyond those a gap lacks
          RestLimit,   \* candles the exchange returns when no limit is given
          MaxPending,  \* bound: upserts under way
          MaxCrashes   \* bound: crashes of the process

ASSUME BarsAssumption ==
  /\ {MaxBar, Slack, MaxPending, MaxCrashes} \subseteq Nat
  /\ {Day, Window, Multiplier, MaxRecent, MaxDelay, RestLimit} \subseteq Nat \ {0}

\* A repeated close arrives before the cache of closes can have lost the bar:
\* the closes that may come in between are fewer than the cache holds.
ASSUME CacheAssumption == 2 * (MaxDelay - 1) < MaxRecent

VARIABLES now,      \* the bar in progress
          rows,     \* the table: what is stored of each bar, or "none"
          up,       \* the process: "down", "starting", "running" or "stopped"
          heard,    \* lastReceivedPerSub: the bar in which a message came last
          recent,   \* recentCloses, in the order of insertion
          fired,    \* history: how often each bar's close reached the pipeline
          pending,  \* upserts not yet answered: handleCandle awaits none
          rec,      \* the run of GapRecovery
          crashes   \* how often the process died

feedVars == <<now, rows, up, heard, recent, fired, pending, rec, crashes>>
vars == <<wsVars, feedVars>>
memory == <<up, heard, recent, fired, pending>>

Bars == 0..MaxBar
Stored == {"none", "open", "partial", "final"}
NotHeard == -1

NoRecovery == [pc |-> "off", seen |-> {}, gaps |-> {}, got |-> {}, ok |-> TRUE]

Init ==
  /\ Unconnected /\ drops = 0
  /\ now = Day /\ rows = [b \in Bars |-> "none"]
  /\ up = "down" /\ heard = NotHeard /\ recent = <<>>
  /\ fired = [b \in Bars |-> 0] /\ pending = {} /\ rec = NoRecovery
  /\ crashes = 0

-----------------------------------------------------------------------------
(* The table. *)

\* Mutant: ON CONFLICT DO UPDATE without the WHERE.
UpsertAlways(old, new) == new

\* One row of INSERT ... ON CONFLICT DO UPDATE ... WHERE is_closed = false.
Upsert(old, new) == IF old \in {"none", "open"} THEN new ELSE old

\* bulkUpsertCandles of a set of candles, at most one of each bar.
UpsertAll(table, candles) ==
  [b \in Bars |->
     IF \E c \in candles : c.bar = b
     THEN Upsert(table[b], (CHOOSE c \in candles : c.bar = b).row)
     ELSE table[b]]

(***************************************************************************)
(* adapter.fetchOHLCV(since, limit): every candle it returns is marked     *)
(* closed, the one in progress too.                                        *)
(***************************************************************************)
FetchOHLCV(since, limit) ==
  {[bar |-> b, row |-> IF b = now THEN "partial" ELSE "final"] :
     b \in {x \in since..(since + limit - 1) : x <= now}}

(***************************************************************************)
(* downloadCandles: the archive's files, here one for each day, whole and  *)
(* final; a file that cannot be had is skipped without an error.           *)
(***************************************************************************)
Downloads(from, to) ==
  {{[bar |-> b, row |-> "final"] : b \in {x \in Bars : x \div Day \in days}} :
     days \in SUBSET ((from \div Day)..(to \div Day))}

-----------------------------------------------------------------------------
(* Start and stop. *)

\* daemon.ts starts the candle manager.
Start ==
  /\ up = "down"
  /\ up' = "starting"
  /\ UNCHANGED <<wsVars, now, rows, heard, recent, fired, pending, rec, crashes>>

\* syncCandles' range: from the last stored bar, less a day, to the end of
\* yesterday.
LatestStored == {b \in Bars : rows[b] # "none"}
SyncFrom == IF LatestStored = {} THEN 0
            ELSE Max({0, Max(LatestStored) - Day})
YesterdayEnd == (now \div Day) * Day - 1

\* What sync finds: the archive's candles, or, when it gave none, those of the
\* REST API, or, when that fails too, nothing.
SyncAnswers ==
  IF YesterdayEnd < SyncFrom THEN {{}}
  ELSE Downloads(SyncFrom, YesterdayEnd) \cup {FetchOHLCV(SyncFrom, RestLimit)}

(***************************************************************************)
(* CandleManager.start: syncCandles stores what it found, in batches, of   *)
(* which a failing one is the last; then the collector subscribes          *)
(* whatever became of the sync.                                            *)
(***************************************************************************)
SyncAndSubscribe ==
  /\ up = "starting"
  /\ \E candles \in SyncAnswers : \E last \in Bars :
       rows' = UpsertAll(rows, {c \in candles : c.bar <= last})
  /\ Connect
  /\ up' = "running"
  /\ UNCHANGED <<now, heard, recent, fired, pending, rec, crashes>>

\* CandleManager.stop: unsubscribe.  Upserts and a recovery go on.
Stop ==
  /\ up = "running"
  /\ Close
  /\ up' = "stopped"
  /\ UNCHANGED <<now, rows, heard, recent, fired, pending, rec, crashes>>

\* The process ends: the collector's memory and whatever was under way is
\* lost; the rows stay.
Crash ==
  /\ up # "down" /\ crashes < MaxCrashes
  /\ Disconnect
  /\ up' = "down" /\ heard' = NotHeard /\ recent' = <<>>
  /\ fired' = [b \in Bars |-> 0] /\ pending' = {} /\ rec' = NoRecovery
  /\ crashes' = crashes + 1
  /\ UNCHANGED <<now, rows>>

-----------------------------------------------------------------------------
(* The collector. *)

(***************************************************************************)
(* Is the gap since the last message longer than Multiplier durations?  In *)
(* bars the two messages lie now - heard apart; when that is the           *)
(* multiplier itself, it depends on where in their bars they came.         *)
(***************************************************************************)
GapDetected ==
  IF heard = NotHeard \/ now - heard < Multiplier THEN {FALSE}
  ELSE IF now - heard = Multiplier THEN BOOLEAN ELSE {TRUE}

\* Mutant: the eviction begins one entry early.
RememberLess(b) ==
  LET added == Append(recent, b)
  IN  IF Len(added) >= MaxRecent THEN Tail(added) ELSE added

\* recentCloses.add with the eviction of the oldest entry.
Remember(b) ==
  LET added == Append(recent, b)
  IN  IF Len(added) > MaxRecent THEN Tail(added) ELSE added

\* The close callbacks, at most once for a bar the cache still holds.
FireClose(c) ==
  IF c.row = "final" /\ c.bar \notin ToSet(recent)
  THEN /\ recent' = Remember(c.bar)
       /\ fired' = [fired EXCEPT ![c.bar] = @ + 1]
  ELSE UNCHANGED <<recent, fired>>

(***************************************************************************)
(* onReconnect's callback: recoverAll begins, and is not awaited.  Bound:  *)
(* the model follows one recovery at a time.                               *)
(***************************************************************************)
FireReconnect ==
  IF rec.pc \in {"off", "done"} THEN rec' = [NoRecovery EXCEPT !.pc = "detect"]
  ELSE UNCHANGED rec

\* handleCandle: the upsert is sent off, not awaited, before the callbacks.
HandleCandle(c) ==
  /\ \E gap \in GapDetected : IF gap THEN FireReconnect ELSE UNCHANGED rec
  /\ heard' = now
  /\ pending' = pending \cup {c}
  /\ FireClose(c)

\* A kline message: news of the bar in progress, or the close of a bar that
\* ended, which may come late and more than once.
Messages ==
  {[bar |-> now, row |-> "open"]} \cup
  {[bar |-> b, row |-> "final"] : b \in {x \in Bars : x < now /\ now - x <= MaxDelay}}

Receive ==
  /\ \E s \in Slots : socket[s] \in {"open", "closing"}
  /\ Cardinality(pending) < MaxPending
  /\ \E c \in Messages : HandleCandle(c)
  /\ UNCHANGED <<wsVars, now, rows, up, crashes>>

\* The database answers an upsert, in any order: the pool has several
\* connections.
UpsertLands(c) ==
  /\ c \in pending
  /\ pending' = pending \ {c}
  /\ rows' = UpsertAll(rows, {c})
  /\ UNCHANGED <<wsVars, now, up, heard, recent, fired, rec, crashes>>

\* An upsert fails: it is logged, and the collector goes on.
UpsertFails(c) ==
  /\ c \in pending
  /\ pending' = pending \ {c}
  /\ UNCHANGED <<wsVars, now, rows, up, heard, recent, fired, rec, crashes>>

-----------------------------------------------------------------------------
(* The recovery of gaps. *)

\* Mutant: a threshold of 2.5 durations.
GapsInWide(seen) ==
  IF seen = {} THEN {[from |-> Max({0, now - Window + 1}), count |-> Window]}
  ELSE {[from |-> p[1] + 1, count |-> p[2] - p[1] - 1] :
          p \in {q \in seen \X seen :
               /\ q[2] - q[1] >= 3
               /\ \A x \in seen : x <= q[1] \/ x >= q[2]}}

(***************************************************************************)
(* detectGaps: neighbouring stored bars more than 1.5 durations apart are  *)
(* the ends of a gap; with no rows the whole window is one.  Between two   *)
(* gaps lies a stored bar, so their ends are two durations apart and the   *)
(* code never merges them.                                                 *)
(***************************************************************************)
GapsIn(seen) ==
  IF seen = {} THEN {[from |-> Max({0, now - Window + 1}), count |-> Window]}
  ELSE {[from |-> p[1] + 1, count |-> p[2] - p[1] - 1] :
          p \in {q \in seen \X seen :
               /\ q[2] - q[1] >= 2
               /\ \A x \in seen : x <= q[1] \/ x >= q[2]}}

InWindow == {b \in Bars : rows[b] # "none" /\ now - Window < b /\ b <= now}

Detect ==
  /\ rec.pc = "detect"
  /\ rec' = [rec EXCEPT !.pc = IF GapsIn(InWindow) = {} THEN "done" ELSE "fetch",
                        !.seen = InWindow, !.gaps = GapsIn(InWindow)]

\* The query fails: recoverAll throws, and the manager logs it.
DetectFails ==
  /\ rec.pc = "detect"
  /\ rec' = NoRecovery

\* The gap at hand: they are filled from the oldest to the newest.
Gap == CHOOSE g \in rec.gaps : \A h \in rec.gaps : g.from <= h.from

GapsLeft == rec.gaps \ {Gap}
NextGap == IF GapsLeft = {} THEN "done" ELSE "fetch"

FetchGap ==
  /\ rec.pc = "fetch"
  /\ rec' = [rec EXCEPT !.pc = "store",
                        !.got = FetchOHLCV(Gap.from, Gap.count + Slack)]

StoreGap ==
  /\ rec.pc = "store"
  /\ rows' = UpsertAll(rows, rec.got)
  /\ rec' = [rec EXCEPT !.pc = NextGap, !.gaps = GapsLeft, !.got = {}]

\* A failing fetch or upsert is counted, and the next gap tried.
GapFails ==
  /\ rec.pc \in {"fetch", "store"}
  /\ rec' = [rec EXCEPT !.pc = NextGap, !.gaps = GapsLeft, !.got = {}, !.ok = FALSE]

Recovery ==
  /\ \/ StoreGap
     \/ (Detect \/ DetectFails \/ FetchGap \/ GapFails) /\ UNCHANGED rows
  /\ UNCHANGED <<wsVars, memory, now, crashes>>

-----------------------------------------------------------------------------
\* A bar ends.
Tick ==
  /\ now < MaxBar
  /\ now' = now + 1
  /\ UNCHANGED <<wsVars, memory, rows, rec, crashes>>

\* A socket or the reconnect timer changes the connection.
Connection ==
  /\ Network \/ TimerFires
  /\ UNCHANGED feedVars

Next ==
  \/ Start \/ SyncAndSubscribe \/ Stop \/ Crash
  \/ Receive
  \/ \E c \in pending : UpsertLands(c) \/ UpsertFails(c)
  \/ Recovery
  \/ Tick
  \/ Connection

(***************************************************************************)
(* Fairness: timers fire, and a connection attempt or closing handshake    *)
(* gets an answer (TCP reports a timeout).  Nothing is assumed of          *)
(* messages, the database or the clock.                                    *)
(***************************************************************************)
Fairness ==
  /\ WF_vars(TimerFires /\ UNCHANGED feedVars)
  /\ WF_vars(SocketAnswers /\ UNCHANGED feedVars)

Spec == Init /\ [][Next]_vars
FairSpec == Spec /\ Fairness

-----------------------------------------------------------------------------
(***************************************************************************)
(* A closed row is never written again: neither a late, unawaited upsert   *)
(* of the bar in progress, nor a repeated close, a sync or a recovery      *)
(* changes it (repository.ts:22-23, the WHERE of the upsert).              *)
(***************************************************************************)
ClosedStays ==
  [][\A b \in Bars : rows[b] \in {"partial", "final"} => rows'[b] = rows[b]]_vars

(***************************************************************************)
(* The pipeline hears of the close of a bar at most once in the life of a  *)
(* process, though the exchange repeats it within MaxDelay bars and the    *)
(* cache of closes holds MaxRecent bars only (collector.ts handleCandle).  *)
(* A close heard twice would be traded twice.                              *)
(***************************************************************************)
EachCloseOnce == \A b \in Bars : fired[b] <= 1

(***************************************************************************)
(* A recovery that met no error leaves no hole between the bars it found   *)
(* stored, although rows arrive while it runs (gap-recovery.ts recover,    *)
(* gap-detection.ts detectGaps): thresholds, the first bar of a gap and    *)
(* the count asked for fit together.                                       *)
(***************************************************************************)
RecoveredNoHoles ==
  rec.pc = "done" /\ rec.ok =>
    \A a, c \in rec.seen : \A b \in a..c : rows[b] # "none"

(***************************************************************************)
(* A running collector gets its connection back after every loss, unless   *)
(* the server ended it with a normal code (ws-manager.ts onclose,          *)
(* scheduleReconnect), failures being finitely many.                       *)
(***************************************************************************)
Reconnects == [](up = "running" => <>(isConnected \/ ordered \/ up # "running"))
=============================================================================
