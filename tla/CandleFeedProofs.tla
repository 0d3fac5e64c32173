-------------------------- MODULE CandleFeedProofs --------------------------
(* Theorems about the candle feed and its connection. *)
EXTENDS CandleFeed, FiniteSetTheorems, TLAPS

\* OneSocket is inductive once the sockets are known to be a function.
SocketInv == socket \in [Slots -> {"none", "connecting", "open", "closing"}] /\ OneSocket

\* A step of the sockets keeps the invariant.
LEMMA NetworkStep == ASSUME SocketInv, Network PROVE SocketInv'
<1>1. ASSUME NEW s \in Slots, SocketOpens(s) PROVE SocketInv'
  BY <1>1 DEF SocketInv, OneSocket, Live, SocketOpens
<1>2. ASSUME NEW s \in Slots, SocketClosed(s) PROVE SocketInv'
  BY <1>2 DEF SocketInv, OneSocket, Live, SocketClosed
<1>3. ASSUME NEW s \in Slots, SocketDrops(s) PROVE SocketInv'
  BY <1>3 DEF SocketInv, OneSocket, Live, SocketDrops
<1>4. ASSUME NEW s \in Slots, SocketEnds(s) PROVE SocketInv'
  BY <1>4 DEF SocketInv, OneSocket, Live, SocketEnds
<1> QED BY <1>1, <1>2, <1>3, <1>4 DEF Network

\* The timer is armed only without a live socket, so the new one is alone.
LEMMA TimerStep == ASSUME SocketInv, TimerFires PROVE SocketInv'
  BY DEF SocketInv, OneSocket, Live, TimerFires

\* Steps of the process: a new connection, its closing, its end.
LEMMA ProcessStep ==
  ASSUME SocketInv, Connect \/ Disconnect \/ Close PROVE SocketInv'
<1>1. CASE Connect BY <1>1 DEF SocketInv, OneSocket, Live, Connect
<1>2. CASE Disconnect BY <1>2 DEF SocketInv, OneSocket, Live, Disconnect
<1>3. CASE Close BY <1>3 DEF SocketInv, OneSocket, Live, Close
<1> QED BY <1>1, <1>2, <1>3

LEMMA SocketsUnchanged == ASSUME SocketInv, UNCHANGED wsVars PROVE SocketInv'
  BY DEF SocketInv, OneSocket, Live, wsVars

LEMMA SocketStep == ASSUME SocketInv, [Next]_vars PROVE SocketInv'
<1>1. CASE Start BY <1>1, SocketsUnchanged DEF Start
<1>2. CASE SyncAndSubscribe BY <1>2, ProcessStep DEF SyncAndSubscribe
<1>3. CASE Stop BY <1>3, ProcessStep DEF Stop
<1>4. CASE Crash BY <1>4, ProcessStep DEF Crash
<1>5. CASE Receive BY <1>5, SocketsUnchanged DEF Receive
<1>6. ASSUME NEW c \in pending, UpsertLands(c) \/ UpsertFails(c) PROVE SocketInv'
  BY <1>6, SocketsUnchanged DEF UpsertLands, UpsertFails
<1>7. CASE Recovery BY <1>7, SocketsUnchanged DEF Recovery
<1>8. CASE Tick BY <1>8, SocketsUnchanged DEF Tick
<1>9. CASE Connection BY <1>9, NetworkStep, TimerStep DEF Connection
<1>10. CASE UNCHANGED vars BY <1>10, SocketsUnchanged DEF vars
<1> QED BY <1>1, <1>2, <1>3, <1>4, <1>5, <1>6, <1>7, <1>8, <1>9, <1>10 DEF Next

(***************************************************************************)
(* Whatever the network does and whenever close(), the timer and crashes   *)
(* fall, the connection of a stream has one live socket at most, the one   *)
(* it knows of.                                                            *)
(***************************************************************************)
THEOREM FeedOneSocket == Spec => []OneSocket
<1>1. Init => SocketInv
  BY DEF Init, Unconnected, SocketInv, OneSocket, Live
<1>2. SocketInv /\ [Next]_vars => SocketInv'
  BY SocketStep
<1>3. SocketInv => OneSocket
  BY DEF SocketInv
<1> HIDE DEF SocketInv, OneSocket, Init, Next, vars
<1> QED BY <1>1, <1>2, <1>3, PTL DEF Spec

-----------------------------------------------------------------------------
\* What an upsert of any candles does to a table: closed rows keep their value.
KeepsClosed(old, new) ==
  \A b \in Bars : old[b] \in {"partial", "final"} => new[b] = old[b]

LEMMA UpsertKeepsClosed ==
  ASSUME NEW table, NEW candles PROVE KeepsClosed(table, UpsertAll(table, candles))
  BY DEF KeepsClosed, UpsertAll, Upsert

LEMMA RowsStep == ASSUME [Next]_vars PROVE KeepsClosed(rows, rows')
<1> DEFINE Kept == KeepsClosed(rows, rows')
<1>a. rows' = rows => Kept BY DEF KeepsClosed
<1>1. CASE Start BY <1>1, <1>a DEF Start
<1>2. CASE SyncAndSubscribe
  BY <1>2, UpsertKeepsClosed DEF SyncAndSubscribe
<1>3. CASE Stop BY <1>3, <1>a DEF Stop
<1>4. CASE Crash BY <1>4, <1>a DEF Crash
<1>5. CASE Receive BY <1>5, <1>a DEF Receive
<1>6. ASSUME NEW c \in pending, UpsertLands(c) PROVE Kept
  BY <1>6, UpsertKeepsClosed DEF UpsertLands
<1>7. ASSUME NEW c \in pending, UpsertFails(c) PROVE Kept
  BY <1>7, <1>a DEF UpsertFails
<1>8. CASE Recovery
  BY <1>8, <1>a, UpsertKeepsClosed DEF Recovery, StoreGap
<1>9. CASE Tick BY <1>9, <1>a DEF Tick
<1>10. CASE Connection BY <1>10, <1>a DEF Connection, feedVars
<1>11. CASE UNCHANGED vars BY <1>11, <1>a DEF vars, feedVars
<1> HIDE DEF Kept
<1>12. Kept
  BY <1>1, <1>2, <1>3, <1>4, <1>5, <1>6, <1>7, <1>8, <1>9, <1>10, <1>11 DEF Next, Kept
<1> QED BY <1>12 DEF Kept

(***************************************************************************)
(* However late, repeated or reordered the upserts of the collector, the   *)
(* sync and the recoveries are, a closed row is never rewritten.           *)
(***************************************************************************)
THEOREM FeedClosedStays == Spec => ClosedStays
<1>1. [Next]_vars =>
        [\A b \in Bars : rows[b] \in {"partial", "final"} => rows'[b] = rows[b]]_vars
  BY RowsStep DEF KeepsClosed
<1> HIDE DEF Init, Next, vars
<1> QED BY <1>1, PTL DEF Spec, ClosedStays

-----------------------------------------------------------------------------
(***************************************************************************)
(* Why a close is heard once.  The cache holds closes of different bars,   *)
(* and none arrived more than MaxDelay bars late, so an entry is at most   *)
(* MaxDelay - 1 bars older than one inserted before it.  When an entry x   *)
(* is the oldest of MaxRecent + 1, the others are MaxRecent different bars *)
(* from x - (MaxDelay - 1) on, which by CacheAssumption reach beyond       *)
(* x + MaxDelay - 1: the close of x comes no more.                         *)
(***************************************************************************)
Cached(s, t) ==
  /\ \A i \in 1..Len(s) : s[i] < t
  /\ \A i, j \in 1..Len(s) : i < j => s[i] # s[j] /\ s[i] - s[j] < MaxDelay

CloseInv ==
  /\ now \in Nat
  /\ recent \in Seq(Nat) /\ Len(recent) <= MaxRecent /\ Cached(recent, now)
  /\ fired \in [Bars -> {0, 1}]
  /\ \A b \in Bars :
       fired[b] = 1 => b + MaxDelay < now \/ \E i \in 1..Len(recent) : recent[i] = b

\* A full cache and one more: the oldest entry is out of date.
LEMMA OldestIsOld ==
  ASSUME NEW s \in Seq(Nat), NEW t \in Nat, Len(s) = MaxRecent + 1, Cached(s, t)
  PROVE  s[1] + MaxDelay < t
<1>1. /\ MaxRecent \in Nat /\ MaxRecent > 0 /\ MaxDelay \in Nat /\ MaxDelay > 0
      /\ 2 * (MaxDelay - 1) < MaxRecent
  <2>1. MaxRecent \in Nat \ {0} /\ MaxDelay \in Nat \ {0}
    BY BarsAssumption
  <2>2. QED
    BY <2>1, CacheAssumption
<1>2. \A i \in 1..(MaxRecent + 1) : s[i] \in Nat
  OBVIOUS
<1> SUFFICES ASSUME t <= s[1] + MaxDelay PROVE FALSE
  BY <1>1, <1>2
<1> DEFINE x == s[1]
           S == 1..MaxRecent
           I == (x - (MaxDelay - 1))..(x + (MaxDelay - 1))
           T == I \ {x}
           f == [i \in S |-> s[i + 1]]
<1>3. x \in Nat /\ x \in I
  BY <1>1, <1>2
<1>4. IsFiniteSet(S) /\ Cardinality(S) = MaxRecent
  BY <1>1, FS_Interval
<1>5. IsFiniteSet(T) /\ Cardinality(T) < MaxRecent
  <2>1. IsFiniteSet(I) /\ Cardinality(I) = 2 * (MaxDelay - 1) + 1
    <3>1. x - (MaxDelay - 1) \in Int /\ x + (MaxDelay - 1) \in Int
      BY <1>1, <1>3
    <3>2. (x + (MaxDelay - 1)) - (x - (MaxDelay - 1)) + 1 = 2 * (MaxDelay - 1) + 1
      BY <1>1, <1>3
    <3>3. ~(x - (MaxDelay - 1) > x + (MaxDelay - 1))
      BY <1>1, <1>3
    <3>4. QED
      BY <3>1, <3>2, <3>3, FS_Interval
  <2> HIDE DEF I
  <2>2. IsFiniteSet(T) /\ Cardinality(T) = Cardinality(I) - 1
    BY <1>3, <2>1, FS_RemoveElement
  <2>3. QED
    BY <1>1, <2>1, <2>2
<1>6. f \in [S -> T]
  <2> SUFFICES ASSUME NEW i \in S PROVE s[i + 1] \in T
    OBVIOUS
  <2>1. i + 1 \in 1..Len(s) /\ 1 \in 1..Len(s) /\ 1 < i + 1
    BY <1>1
  <2>2. s[i + 1] < t /\ s[1] # s[i + 1] /\ s[1] - s[i + 1] < MaxDelay
    BY <2>1 DEF Cached
  <2>3. s[i + 1] \in Nat
    BY <1>2, <2>1
  <2>4. QED
    BY <1>1, <1>3, <2>2, <2>3
<1>7. PICK i, j \in S : i # j /\ f[i] = f[j]
  <2> HIDE DEF S, T, f
  <2> QED BY <1>1, <1>4, <1>5, <1>6, FS_PigeonHole
<1>8. s[i + 1] = s[j + 1]
  BY <1>7
<1>9. /\ i + 1 \in 1..Len(s) /\ j + 1 \in 1..Len(s)
      /\ i + 1 < j + 1 \/ j + 1 < i + 1
  BY <1>1, <1>7
<1>10. QED
  BY <1>8, <1>9 DEF Cached

\* The close of a bar that the cache has not, heard now.
LEMMA RememberStep ==
  ASSUME CloseInv, NEW b \in Bars, b < now, now - b <= MaxDelay,
         \A i \in 1..Len(recent) : recent[i] # b,
         recent' = Remember(b), fired' = [fired EXCEPT ![b] = @ + 1], now' = now
  PROVE  CloseInv'
<1> DEFINE s == Append(recent, b)
<1>1. /\ now \in Nat /\ b \in Nat /\ MaxDelay \in Nat /\ MaxRecent \in Nat /\ MaxRecent > 0
      /\ recent \in Seq(Nat) /\ Len(recent) <= MaxRecent
  BY BarsAssumption DEF CloseInv, Bars
<1>2. /\ s \in Seq(Nat) /\ Len(s) = Len(recent) + 1 /\ s[Len(s)] = b
      /\ \A i \in 1..Len(recent) : s[i] = recent[i] /\ recent[i] \in Nat
  BY <1>1
<1>3. Cached(s, now)
  <2>1. ASSUME NEW i \in 1..Len(s) PROVE s[i] < now
    BY <1>1, <1>2, <2>1 DEF CloseInv, Cached
  <2>2. ASSUME NEW i \in 1..Len(s), NEW j \in 1..Len(s), i < j
        PROVE  s[i] # s[j] /\ s[i] - s[j] < MaxDelay
    <3>1. i \in 1..Len(recent)
      BY <1>1, <1>2, <2>2
    <3>2. CASE j \in 1..Len(recent)
      BY <1>2, <2>2, <3>1, <3>2 DEF CloseInv, Cached
    <3>3. CASE j = Len(s)
      <4>1. recent[i] < now /\ recent[i] # b
        BY <3>1 DEF CloseInv, Cached
      <4>2. QED
        BY <1>1, <1>2, <3>1, <3>3, <4>1
    <3>4. QED
      BY <1>1, <1>2, <3>2, <3>3
  <2>3. QED
    BY <2>1, <2>2 DEF Cached
<1>4. fired[b] = 0
  BY <1>1 DEF CloseInv
<1>5. fired' \in [Bars -> {0, 1}]
  BY <1>4 DEF CloseInv
<1>6. \A x \in Bars : fired'[x] = 1 => x + MaxDelay < now \/ \E i \in 1..Len(s) : s[i] = x
  <2> SUFFICES ASSUME NEW x \in Bars, fired'[x] = 1, ~(x + MaxDelay < now)
               PROVE  \E i \in 1..Len(s) : s[i] = x
    OBVIOUS
  <2>1. CASE x = b
    BY <1>1, <1>2, <2>1
  <2>2. CASE x # b
    <3>1. fired[x] = 1
      BY <2>2 DEF CloseInv
    <3>2. PICK i \in 1..Len(recent) : recent[i] = x
      BY <3>1 DEF CloseInv
    <3>3. QED
      BY <1>1, <1>2, <3>2
  <2>3. QED
    BY <2>1, <2>2
<1>7. CASE Len(s) <= MaxRecent
  <2>1. recent' = s
    BY <1>1, <1>2, <1>7 DEF Remember
  <2>2. QED
    BY <1>1, <1>2, <1>3, <1>5, <1>6, <1>7, <2>1 DEF CloseInv
<1>8. CASE Len(s) > MaxRecent
  <2>1. recent' = Tail(s) /\ Len(s) = MaxRecent + 1
    BY <1>1, <1>2, <1>8 DEF Remember
  <2> HIDE DEF s
  <2>2. /\ Tail(s) \in Seq(Nat) /\ Len(Tail(s)) = MaxRecent
        /\ \A i \in 1..MaxRecent : Tail(s)[i] = s[i + 1]
    BY <1>1, <1>2, <2>1
  <2>3. Cached(Tail(s), now)
    <3>1. ASSUME NEW i \in 1..MaxRecent PROVE i + 1 \in 1..Len(s)
      BY <1>1, <2>1
    <3>2. \A i \in 1..MaxRecent : Tail(s)[i] < now
      BY <1>3, <2>2, <3>1 DEF Cached
    <3>3. ASSUME NEW i \in 1..MaxRecent, NEW j \in 1..MaxRecent, i < j
          PROVE  Tail(s)[i] # Tail(s)[j] /\ Tail(s)[i] - Tail(s)[j] < MaxDelay
      <4>1. i + 1 < j + 1 /\ i + 1 \in 1..Len(s) /\ j + 1 \in 1..Len(s)
        BY <3>1, <3>3
      <4>2. QED
        BY <1>3, <2>2, <4>1 DEF Cached
    <3>4. QED
      BY <2>2, <3>2, <3>3 DEF Cached
  <2>4. s[1] + MaxDelay < now
    BY <1>1, <1>2, <1>3, <2>1, OldestIsOld
  <2>5. ASSUME NEW x \in Bars, fired'[x] = 1, ~(x + MaxDelay < now)
        PROVE  \E i \in 1..MaxRecent : Tail(s)[i] = x
    <3>1. PICK k \in 1..Len(s) : s[k] = x
      BY <1>6, <2>5
    <3>2. k # 1
      BY <2>4, <2>5, <3>1
    <3>3. k - 1 \in 1..MaxRecent /\ (k - 1) + 1 = k
      BY <1>1, <2>1, <3>1, <3>2
    <3>4. Tail(s)[k - 1] = x
      BY <2>2, <3>1, <3>3
    <3>5. QED
      BY <3>3, <3>4
  <2>6. QED
    BY <1>1, <1>5, <2>1, <2>2, <2>3, <2>5 DEF CloseInv
<1>9. QED
  BY <1>1, <1>2, <1>7, <1>8

LEMMA ReceiveStep == ASSUME CloseInv, Receive PROVE CloseInv'
<1>1. PICK c \in Messages : HandleCandle(c) /\ now' = now
  BY DEF Receive
<1>2. CASE c.row = "final" /\ c.bar \notin ToSet(recent)
  <2>1. c.bar \in Bars /\ c.bar < now /\ now - c.bar <= MaxDelay
    BY <1>2 DEF Messages
  <2>2. \A i \in 1..Len(recent) : recent[i] # c.bar
    BY <1>2 DEF ToSet, CloseInv
  <2>3. recent' = Remember(c.bar) /\ fired' = [fired EXCEPT ![c.bar] = @ + 1]
    BY <1>1, <1>2 DEF HandleCandle, FireClose
  <2>4. QED
    BY <1>1, <2>1, <2>2, <2>3, RememberStep
<1>3. CASE ~(c.row = "final" /\ c.bar \notin ToSet(recent))
  <2>1. UNCHANGED <<recent, fired>>
    BY <1>1, <1>3 DEF HandleCandle, FireClose
  <2>2. QED
    BY <1>1, <2>1 DEF CloseInv, Cached
<1>4. QED
  BY <1>2, <1>3

LEMMA CloseStep == ASSUME CloseInv, [Next]_vars PROVE CloseInv'
<1>1. CASE Receive
  BY <1>1, ReceiveStep
<1>2. CASE Crash
  <2>1. recent' = <<>> /\ fired' = [b \in Bars |-> 0] /\ now' = now
    BY <1>2 DEF Crash
  <2>2. QED
    BY <2>1, BarsAssumption DEF CloseInv, Cached
<1>3. CASE Tick
  <2>1. now' = now + 1 /\ UNCHANGED <<recent, fired>>
    BY <1>3 DEF Tick, memory
  <2>2. /\ now \in Nat /\ MaxDelay \in Nat /\ \A b \in Bars : b \in Nat
        /\ \A i \in 1..Len(recent) : recent[i] \in Nat
    BY BarsAssumption DEF CloseInv, Bars
  <2>3. Cached(recent, now')
    BY <2>1, <2>2 DEF CloseInv, Cached
  <2>4. \A b \in Bars : b + MaxDelay < now => b + MaxDelay < now'
    BY <2>1, <2>2
  <2>5. QED
    BY <2>1, <2>2, <2>3, <2>4 DEF CloseInv
<1>4. CASE UNCHANGED <<now, recent, fired>>
  BY <1>4 DEF CloseInv, Cached
<1>5. QED
  BY <1>1, <1>2, <1>3, <1>4
     DEF Next, Start, SyncAndSubscribe, Stop, UpsertLands, UpsertFails, Recovery, Connection,
         feedVars, memory, vars

(***************************************************************************)
(* Within the life of a process no close is handed to the pipeline twice,  *)
(* however the exchange repeats and reorders closes within MaxDelay bars,  *)
(* for every size of the cache that CacheAssumption allows.                *)
(***************************************************************************)
THEOREM FeedEachCloseOnce == Spec => []EachCloseOnce
<1>1. Init => CloseInv
  BY BarsAssumption DEF Init, CloseInv, Cached
<1>2. CloseInv /\ [Next]_vars => CloseInv'
  BY CloseStep
<1>3. CloseInv => EachCloseOnce
  BY DEF CloseInv, EachCloseOnce
<1> HIDE DEF CloseInv, EachCloseOnce, Init, Next, vars
<1>4. QED
  BY <1>1, <1>2, <1>3, PTL DEF Spec

-----------------------------------------------------------------------------
(* Recovered gaps. *)

Gaps == [from : Nat, count : Nat]
Filled(candles) == \A c \in candles : c.row # "none"
Inside(b, g) == g.from <= b /\ b < g.from + g.count

(***************************************************************************)
(* Why a finished recovery leaves no hole: a bar between two it found      *)
(* stored is stored or lies in a gap still to be filled, whose candles,    *)
(* once fetched, include it; and no row is ever taken away.                *)
(***************************************************************************)
HoleInv ==
  /\ rec = [pc |-> rec.pc, seen |-> rec.seen, gaps |-> rec.gaps, got |-> rec.got, ok |-> rec.ok]
  /\ now \in Nat /\ rec.seen \subseteq Bars /\ rec.gaps \subseteq Gaps
  /\ Filled(pending) /\ Filled(rec.got)
  /\ \A b \in rec.seen : b <= now
  /\ rec.pc \in {"fetch", "store"} => rec.gaps # {}
  /\ rec.pc = "done" => rec.gaps = {}
  /\ rec.pc \in {"fetch", "store", "done"} /\ rec.ok =>
       \A a, c \in rec.seen : \A b \in a..c :
         rows[b] # "none" \/ \E g \in rec.gaps : Inside(b, g)
  /\ rec.pc = "store" =>
       \A a, c \in rec.seen : \A b \in a..c :
         Inside(b, Gap) => \E k \in rec.got : k.bar = b

\* A set of naturals has a smallest element.
LEMMA Smallest ==
  ASSUME NEW T \in SUBSET Nat, T # {}
  PROVE  \E x \in T : \A y \in T : x <= y
<1>1. \E x \in T : \A y \in T : <<y, x>> \notin OpToRel(<, Nat)
  BY NatLessThanWellFounded, WFMin
<1>2. PICK x \in T : \A y \in T : <<y, x>> \notin OpToRel(<, Nat)
  BY <1>1
<1>3. \A y \in T : ~(y < x)
  BY <1>2 DEF OpToRel
<1>4. QED
  BY <1>3

LEMMA OldestGap ==
  ASSUME NEW gaps \in SUBSET Gaps, gaps # {}
  PROVE  (CHOOSE g \in gaps : \A h \in gaps : g.from <= h.from) \in gaps
<1> DEFINE T == {g.from : g \in gaps}
<1>1. T \in SUBSET Nat /\ T # {}
  BY DEF Gaps
<1> HIDE DEF T
<1>2. PICK x \in T : \A y \in T : x <= y
  BY <1>1, Smallest
<1>3. PICK g \in gaps : g.from = x
  BY <1>2 DEF T
<1>4. \A h \in gaps : g.from <= h.from
  BY <1>2, <1>3 DEF T
<1>5. QED
  BY <1>3, <1>4

\* detectGaps: a bar that is missing between two stored ones lies in a gap.
LEMMA GapsCover ==
  ASSUME NEW seen \in SUBSET Bars, NEW a \in seen, NEW c \in seen, NEW b \in a..c, b \notin seen
  PROVE  \E g \in GapsIn(seen) : Inside(b, g)
<1> DEFINE Above == {x \in seen : x > b}
           Below == {n \in Nat : \E x \in seen : x < b /\ n = b - x}
<1>0. seen \subseteq Nat /\ b \in Nat /\ a < b /\ b < c
  BY DEF Bars
<1>1. Above \in SUBSET Nat /\ Above # {} /\ Below \in SUBSET Nat /\ Below # {}
  <2>1. c \in Above /\ b - a \in Below
    BY <1>0
  <2>2. Above \in SUBSET Nat /\ Below \in SUBSET Nat
    BY <1>0
  <2>3. QED
    BY <2>1, <2>2
<1>2. PICK q \in Above : \A y \in Above : q <= y
  <2> HIDE DEF Above
  <2> QED BY <1>1, Smallest
<1>3. PICK d \in Below : \A y \in Below : d <= y
  <2> HIDE DEF Below
  <2> QED BY <1>1, Smallest
<1>4. PICK p \in seen : p < b /\ d = b - p
  BY <1>3
<1>5. \A x \in seen : x <= p \/ x >= q
  <2> SUFFICES ASSUME NEW x \in seen, x > p, x < q PROVE FALSE
    BY <1>0, <1>2
  <2>1. CASE x > b
    BY <1>0, <1>2, <2>1
  <2>2. CASE x < b
    <3>1. b - x \in Below
      BY <1>0, <2>2
    <3>2. b - p <= b - x
      BY <1>3, <1>4, <3>1
    <3>3. QED
      BY <1>0, <3>2
  <2>3. QED
    BY <1>0, <2>1, <2>2
<1>6. /\ q \in seen /\ b < q /\ p < b /\ p \in Nat /\ q \in Nat /\ q - p >= 2
  BY <1>0, <1>2, <1>4
<1> HIDE DEF Above, Below
<1>7. <<p, q>> \in {r \in seen \X seen : /\ r[2] - r[1] >= 2
                                         /\ \A x \in seen : x <= r[1] \/ x >= r[2]}
  BY <1>5, <1>6
<1>8. [from |-> p + 1, count |-> q - p - 1] \in GapsIn(seen)
  BY <1>7 DEF GapsIn
<1>9. Inside(b, [from |-> p + 1, count |-> q - p - 1])
  BY <1>0, <1>6 DEF Inside
<1>10. QED
  BY <1>8, <1>9

LEMMA GapsType ==
  ASSUME NEW seen \in SUBSET Bars, now \in Nat PROVE GapsIn(seen) \subseteq Gaps
<1>1. Window \in Nat /\ seen \subseteq Nat
  BY BarsAssumption DEF Bars
<1>2. ASSUME NEW i \in Int PROVE Max({0, i}) \in Nat
  <2>1. \E x \in {0, i} : \A y \in {0, i} : x >= y
    OBVIOUS
  <2>2. Max({0, i}) \in {0, i} /\ \A y \in {0, i} : Max({0, i}) >= y
    BY <2>1 DEF Max
  <2>3. QED
    BY <2>2
<1>3. CASE seen = {}
  BY <1>1, <1>2, <1>3 DEF GapsIn, Gaps
<1>4. CASE seen # {}
  BY <1>1, <1>4 DEF GapsIn, Gaps
<1>5. QED
  BY <1>3, <1>4

\* No upsert takes a row away, and one stores every bar it has a candle of.
LEMMA UpsertStores ==
  ASSUME NEW table, NEW candles, Filled(candles), NEW b \in Bars
  PROVE  /\ table[b] # "none" => UpsertAll(table, candles)[b] # "none"
         /\ (\E k \in candles : k.bar = b) => UpsertAll(table, candles)[b] # "none"
<1>1. CASE \E k \in candles : k.bar = b
  <2> DEFINE k == CHOOSE k \in candles : k.bar = b
  <2>1. k \in candles
    BY <1>1
  <2> HIDE DEF k
  <2>2. k.row # "none"
    BY <2>1 DEF Filled
  <2>3. UpsertAll(table, candles)[b] = Upsert(table[b], k.row)
    BY <1>1 DEF UpsertAll, k
  <2>4. QED
    BY <2>2, <2>3 DEF Upsert
<1>2. CASE ~\E k \in candles : k.bar = b
  BY <1>2 DEF UpsertAll
<1>3. QED
  BY <1>1, <1>2

LEMMA SyncFilled == ASSUME NEW candles \in SyncAnswers PROVE Filled(candles)
BY DEF SyncAnswers, Downloads, FetchOHLCV, Filled

\* Steps that leave the recovery alone and take no row away.
LEMMA HolesKept ==
  ASSUME HoleInv, UNCHANGED rec, now' \in Nat, now <= now', Filled(pending'),
         \A b \in Bars : rows[b] # "none" => rows'[b] # "none"
  PROVE  HoleInv'
<1>1. \A a, c \in rec.seen : \A b \in a..c : b \in Bars
  BY BarsAssumption DEF HoleInv, Bars
<1>2. Gap' = Gap
  BY DEF Gap
<1>3. \A b \in rec.seen : b <= now'
  BY DEF HoleInv, Bars
<1>4. QED
  BY <1>1, <1>2, <1>3 DEF HoleInv

LEMMA DetectStep == ASSUME HoleInv, Detect, UNCHANGED <<now, rows, pending>> PROVE HoleInv'
<1> DEFINE seen == InWindow
           gaps == GapsIn(InWindow)
           pc == IF gaps = {} THEN "done" ELSE "fetch"
<1>1. rec' = [pc |-> pc, seen |-> seen, gaps |-> gaps, got |-> rec.got, ok |-> rec.ok]
  BY DEF Detect, HoleInv
<1>2. seen \subseteq Bars /\ \A b \in seen : b <= now /\ rows[b] # "none"
  BY DEF InWindow
<1>3. gaps \subseteq Gaps
  BY <1>2, GapsType DEF HoleInv
<1>4. \A a, c \in seen : \A b \in a..c : b \notin seen => \E g \in gaps : Inside(b, g)
  BY <1>2, GapsCover
<1>5. pc # "store" /\ (pc = "fetch" => gaps # {}) /\ (pc = "done" => gaps = {})
  OBVIOUS
<1> HIDE DEF seen, gaps, pc
<1>6. QED
  BY <1>1, <1>2, <1>3, <1>4, <1>5 DEF HoleInv

LEMMA FetchStep == ASSUME HoleInv, FetchGap, UNCHANGED <<now, rows, pending>> PROVE HoleInv'
<1> DEFINE got == FetchOHLCV(Gap.from, Gap.count + Slack)
<1>1. /\ rec.pc = "fetch"
      /\ rec' = [pc |-> "store", seen |-> rec.seen, gaps |-> rec.gaps, got |-> got, ok |-> rec.ok]
  BY DEF FetchGap, HoleInv
<1>2. Gap \in rec.gaps /\ Gap.from \in Nat /\ Gap.count \in Nat /\ Slack \in Nat
  <2>1. Gap \in rec.gaps
    BY <1>1, OldestGap DEF HoleInv, Gap
  <2>2. Slack \in Nat
    BY BarsAssumption
  <2>3. QED
    BY <2>1, <2>2 DEF HoleInv, Gaps
<1>3. Gap' = Gap
  BY <1>1 DEF Gap
<1>4. Filled(got)
  BY DEF FetchOHLCV, Filled
<1>5. ASSUME NEW a \in rec.seen, NEW c \in rec.seen, NEW b \in a..c, Inside(b, Gap)
      PROVE  \E k \in got : k.bar = b
  <2>1. b <= now /\ b \in Int
    BY DEF HoleInv, Bars
  <2>2. b \in {x \in (Gap.from)..(Gap.from + (Gap.count + Slack) - 1) : x <= now}
    BY <1>2, <1>5, <2>1 DEF Inside
  <2>3. [bar |-> b, row |-> IF b = now THEN "partial" ELSE "final"] \in got
    BY <2>2 DEF FetchOHLCV
  <2>4. QED
    BY <2>3
<1> HIDE DEF got
<1>6. QED
  BY <1>1, <1>3, <1>4, <1>5 DEF HoleInv

\* The oldest gap is done with: stored, or given up.
LEMMA StoreStep ==
  ASSUME HoleInv, StoreGap, UNCHANGED <<now, pending>> PROVE HoleInv'
<1>1. /\ rec.pc = "store"
      /\ rec' = [pc |-> NextGap, seen |-> rec.seen, gaps |-> GapsLeft, got |-> {}, ok |-> rec.ok]
      /\ rows' = UpsertAll(rows, rec.got)
  BY DEF StoreGap, HoleInv
<1>2. GapsLeft = rec.gaps \ {Gap} /\ NextGap = IF GapsLeft = {} THEN "done" ELSE "fetch"
  BY DEF GapsLeft, NextGap
<1>3. ASSUME NEW a \in rec.seen, NEW c \in rec.seen, NEW b \in a..c, rec.ok
      PROVE  rows'[b] # "none" \/ \E g \in GapsLeft : Inside(b, g)
  <2>1. b \in Bars
    BY BarsAssumption DEF HoleInv, Bars
  <2>2. CASE rows[b] # "none"
    BY <1>1, <2>1, <2>2, UpsertStores DEF HoleInv
  <2>3. CASE rows[b] = "none"
    <3>1. PICK g \in rec.gaps : Inside(b, g)
      BY <1>1, <1>3, <2>3 DEF HoleInv
    <3>2. CASE g = Gap
      <4>1. \E k \in rec.got : k.bar = b
        BY <1>1, <3>1, <3>2 DEF HoleInv
      <4>2. QED
        BY <1>1, <2>1, <4>1, UpsertStores DEF HoleInv
    <3>3. CASE g # Gap
      BY <1>2, <3>1, <3>3
    <3>4. QED
      BY <3>2, <3>3
  <2>4. QED
    BY <2>2, <2>3
<1>4. Filled({}) /\ NextGap # "store"
  BY <1>2 DEF Filled
<1>5. QED
  BY <1>1, <1>2, <1>3, <1>4 DEF HoleInv

LEMMA GapFailsStep ==
  ASSUME HoleInv, GapFails, UNCHANGED <<now, rows, pending>> PROVE HoleInv'
<1>1. rec' = [pc |-> NextGap, seen |-> rec.seen, gaps |-> GapsLeft, got |-> {}, ok |-> FALSE]
  BY DEF GapFails, HoleInv
<1>2. GapsLeft = rec.gaps \ {Gap} /\ NextGap = IF GapsLeft = {} THEN "done" ELSE "fetch"
  BY DEF GapsLeft, NextGap
<1>3. Filled({}) /\ NextGap # "store"
  BY <1>2 DEF Filled
<1>4. QED
  BY <1>1, <1>2, <1>3 DEF HoleInv

\* A recovery not begun, or begun and not yet looking, promises nothing.
LEMMA FreshStep ==
  ASSUME HoleInv, NEW pc \in {"off", "detect"}, rec' = [NoRecovery EXCEPT !.pc = pc],
         UNCHANGED now, Filled(pending')
  PROVE  HoleInv'
<1>1. /\ rec' = [pc |-> pc, seen |-> {}, gaps |-> {}, got |-> {}, ok |-> TRUE]
      /\ pc \notin {"fetch", "store", "done"}
  <2>1. rec' = [pc |-> pc, seen |-> {}, gaps |-> {}, got |-> {}, ok |-> TRUE]
    BY DEF NoRecovery
  <2>2. QED
    BY <2>1
<1>2. Filled({})
  BY DEF Filled
<1>3. /\ rec'.seen = {} /\ rec'.gaps = {} /\ rec'.got = {} /\ rec'.pc \notin {"fetch", "store", "done"}
      /\ rec' = [pc |-> rec'.pc, seen |-> rec'.seen, gaps |-> rec'.gaps, got |-> rec'.got, ok |-> rec'.ok]
  <2>1. rec'.pc = pc /\ rec'.seen = {} /\ rec'.gaps = {} /\ rec'.got = {} /\ rec'.ok = TRUE
    BY <1>1
  <2>2. QED
    BY <1>1, <2>1
<1>4. QED
  BY <1>2, <1>3 DEF HoleInv

LEMMA HearStep == ASSUME HoleInv, Receive PROVE HoleInv'
<1>1. PICK c \in Messages : HandleCandle(c) /\ UNCHANGED <<now, rows>>
  BY DEF Receive
<1>2. Filled(pending') /\ now \in Nat
  BY <1>1 DEF HandleCandle, Messages, Filled, HoleInv
<1>3. UNCHANGED rec \/ rec' = [NoRecovery EXCEPT !.pc = "detect"]
  BY <1>1 DEF HandleCandle, FireReconnect
<1>4. CASE UNCHANGED rec
  BY <1>1, <1>2, <1>4, HolesKept
<1>5. CASE rec' = [NoRecovery EXCEPT !.pc = "detect"]
  BY <1>1, <1>2, <1>5, FreshStep
<1>6. QED
  BY <1>3, <1>4, <1>5

LEMMA HoleStep == ASSUME HoleInv, [Next]_vars PROVE HoleInv'
<1>0. now \in Nat /\ now <= now /\ Filled(pending)
  BY DEF HoleInv
<1>1. CASE Receive
  BY <1>1, HearStep
<1>2. CASE Crash
  <2>1. rec' = [NoRecovery EXCEPT !.pc = "off"] /\ now' = now /\ Filled(pending')
    BY <1>2 DEF Crash, NoRecovery, Filled
  <2>2. QED
    BY <2>1, FreshStep
<1>3. CASE Recovery
  <2>1. UNCHANGED <<now, pending>>
    BY <1>3 DEF Recovery, memory
  <2>2. CASE DetectFails /\ UNCHANGED rows
    <3>1. rec' = [NoRecovery EXCEPT !.pc = "off"]
      BY <2>2 DEF DetectFails, NoRecovery
    <3>2. QED
      BY <1>0, <2>1, <3>1, FreshStep
  <2>3. QED
    BY <1>3, <2>1, <2>2, DetectStep, FetchStep, StoreStep, GapFailsStep DEF Recovery
<1>4. CASE Tick
  <2>1. now' = now + 1 /\ UNCHANGED <<rec, rows, pending>>
    BY <1>4 DEF Tick, memory
  <2>2. QED
    BY <1>0, <2>1, HolesKept
<1>5. CASE SyncAndSubscribe
  <2>1. PICK candles \in SyncAnswers, x \in Bars :
          rows' = UpsertAll(rows, {c \in candles : c.bar <= x})
    BY <1>5 DEF SyncAndSubscribe
  <2>2. Filled({c \in candles : c.bar <= x})
    BY SyncFilled DEF Filled
  <2>3. \A b \in Bars : rows[b] # "none" => rows'[b] # "none"
    BY <2>1, <2>2, UpsertStores
  <2>4. UNCHANGED <<rec, now, pending>>
    BY <1>5 DEF SyncAndSubscribe
  <2>5. QED
    BY <1>0, <2>3, <2>4, HolesKept
<1>6. ASSUME NEW c \in pending, UpsertLands(c) PROVE HoleInv'
  <2>1. Filled({c}) /\ Filled(pending')
    BY <1>0, <1>6 DEF UpsertLands, Filled
  <2>2. \A b \in Bars : rows[b] # "none" => rows'[b] # "none"
    BY <1>6, <2>1, UpsertStores DEF UpsertLands
  <2>3. QED
    BY <1>0, <1>6, <2>1, <2>2, HolesKept DEF UpsertLands
<1>7. ASSUME NEW c \in pending, UpsertFails(c) PROVE HoleInv'
  <2>1. Filled(pending') /\ UNCHANGED <<rec, now, rows>>
    BY <1>0, <1>7 DEF UpsertFails, Filled
  <2>2. QED
    BY <1>0, <2>1, HolesKept
<1>8. CASE UNCHANGED <<now, rows, pending, rec>>
  BY <1>0, <1>8, HolesKept
<1>9. QED
  BY <1>1, <1>2, <1>3, <1>4, <1>5, <1>6, <1>7, <1>8
     DEF Next, Start, Stop, Connection, feedVars, vars

(***************************************************************************)
(* A recovery that met no error leaves no bar missing between those it     *)
(* found stored, whatever is stored while it runs (gap-recovery.ts,        *)
(* gap-detection.ts), for every window, slack and history.                 *)
(***************************************************************************)
THEOREM FeedRecoveredNoHoles == Spec => []RecoveredNoHoles
<1>1. Init => HoleInv
  BY BarsAssumption DEF Init, HoleInv, NoRecovery, Filled
<1>2. HoleInv /\ [Next]_vars => HoleInv'
  BY HoleStep
<1>3. HoleInv => RecoveredNoHoles
  BY DEF HoleInv, RecoveredNoHoles
<1> HIDE DEF HoleInv, RecoveredNoHoles, Init, Next, vars
<1>4. QED
  BY <1>1, <1>2, <1>3, PTL DEF Spec
=============================================================================
