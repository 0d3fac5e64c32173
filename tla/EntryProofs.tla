----------------------------- MODULE EntryProofs -----------------------------
(***************************************************************************)
(* Proofs about an entry: the signal and its gates (Signals), the trade    *)
(* blocks and loss limits in front of it (Limits), and the orders that     *)
(* carry it out (OrderExecutor).                                           *)
(***************************************************************************)
EXTENDS Signals, Limits, OrderExecutor, SumTheorems
-----------------------------------------------------------------------------
(***************************************************************************)
(* Signals, for any price grid, indicator values, thresholds, risk tiers,  *)
(* balances and leverage caps.                                             *)
(***************************************************************************)
Signalled == [dir : Directions, entry : Int, sl : Int, aGrade : BOOLEAN]
SizedStages == {"knn", "size", "sized"}

\* Where the entry handler is and what it has with it.
SignalTyped ==
  /\ bias \in Biases /\ session \in Directions \cup {None}
  /\ stage \in {"idle", "state", "evidence"} \cup SizedStages
  /\ read \in Biases
  /\ stage = "evidence" => active \in Directions
  /\ stage \in SizedStages => signal \in Signalled /\ signal.entry > 0

\* The bias of now is the one that was read, or that the signal passed, unless it has
\* been written since; and what the order is.
Gated ==
  /\ stage \in {"state", "evidence"} => read = bias \/ rewritten
  /\ stage \in SizedStages => BiasMatches(signal.dir, bias) \/ rewritten
  /\ stage = "sized" =>
       /\ SlDistance(signal) # 0
       /\ \E cap \in Balances \X LevCaps : order = CalculateSize(signal, cap)

SignalInv == SignalTyped /\ Gated

-----------------------------------------------------------------------------
LEMMA CandleTyped ==
  ASSUME NEW c \in Candles
  PROVE  /\ c.open \in Nat /\ c.high \in Nat /\ c.low \in Nat /\ c.close \in Nat
         /\ c.low <= c.open /\ c.open <= c.high /\ c.low <= c.close /\ c.close <= c.high
         /\ c.low > 0
BY PriceAssumption DEF Candles, Prices

LEMMA SignalFound ==
  ASSUME NEW i \in EntryInputs, NEW w \in Directions, CheckEvidence(i, w) # NoSignal
  PROVE  /\ CheckEvidence(i, w) \in Signalled
         /\ CheckEvidence(i, w) = [dir |-> w, entry |-> 20 * i.candle.close, sl |-> CalcSlPrice(i.candle, w),
                                   aGrade |-> i.bb4_1h # None /\ Touches(i.candle, w, i.bb4_1h)]
         /\ CheckEvidence(i, w).entry > 0
<1> DEFINE c == i.candle
           a == i.bb4_1h # None /\ Touches(i.candle, w, i.bb4_1h)
           sl == CalcSlPrice(c, w)
<1>1. CheckEvidence(i, w) = [dir |-> w, entry |-> 20 * c.close, sl |-> sl, aGrade |-> a]
  BY DEF CheckEvidence
<1>2. c \in Candles
  BY DEF EntryInputs
<1>3. c.open \in Nat /\ c.high \in Nat /\ c.low \in Nat /\ c.close \in Nat /\ c.close > 0
  BY <1>2, CandleTyped
<1>4. sl \in Int
  BY <1>3 DEF CalcSlPrice, SlBuffer, Tail, Lesser, Greater
<1>5. a \in BOOLEAN
  OBVIOUS
<1>6. 20 * c.close \in Int /\ 20 * c.close > 0
  BY <1>3
<1> HIDE DEF c, a, sl
<1>7. [dir |-> w, entry |-> 20 * c.close, sl |-> sl, aGrade |-> a] \in Signalled
  BY <1>4, <1>5, <1>6 DEF Signalled
<1>8. QED
  BY <1>1, <1>6, <1>7 DEF c, a, sl

LEMMA GatesPassed ==
  ASSUME NEW p \in Passing, p[1] \in Directions
  PROVE  p[3] \in Signalled /\ p[3].entry > 0 /\ p[3].dir = p[1] /\ BiasMatches(p[1], p[2])
<1>1. PICK t \in EntryInputs \X Directions \X Biases :
        LetsThrough(t[1], t[2], t[3]) /\ p = <<t[2], t[3], CheckEvidence(t[1], t[2])>>
  BY DEF Passing
<1>2. /\ t[1] \in EntryInputs /\ t[2] \in Directions
      /\ CheckEvidence(t[1], t[2]) # NoSignal /\ BiasMatches(t[2], t[3])
  BY <1>1 DEF LetsThrough
<1>3. /\ CheckEvidence(t[1], t[2]) \in Signalled /\ CheckEvidence(t[1], t[2]).entry > 0
      /\ CheckEvidence(t[1], t[2]).dir = t[2]
  BY <1>2, SignalFound
<1>4. p[1] = t[2] /\ p[2] = t[3] /\ p[3] = CheckEvidence(t[1], t[2])
  BY <1>1
<1>5. QED
  BY <1>2, <1>3, <1>4

LEMMA SignalInvHolds == SignalSpec => []SignalInv
<1>1. SignalInit => SignalInv
  BY DEF SignalInit, SignalInv, SignalTyped, Gated, SizedStages, Biases
<1>2. SignalInv /\ [SignalNext]_signalVars => SignalInv'
  <2> SUFFICES ASSUME SignalInv, [SignalNext]_signalVars PROVE SignalInv'
    OBVIOUS
  <2> USE DEF SignalInv, SignalTyped, Gated, SizedStages
  <2>1. CASE UpdateDailyBias
    <3>1. \A open, close \in Prices, slope \in -1..1 : DetermineDailyBias(close, open, slope) \in Biases
      BY DEF DetermineDailyBias, Biases
    <3>2. bias' \in Biases /\ (stage # "idle" => rewritten')
          /\ UNCHANGED <<session, stage, read, active, signal, order>>
      BY <2>1, <3>1 DEF UpdateDailyBias
    <3>3. QED
      BY <3>2
  <2>2. CASE HourCloses \/ HourFails \/ UNCHANGED signalVars
    <3>1. UNCHANGED <<bias, session, stage, read, active, signal, order, rewritten>>
      BY <2>2 DEF HourCloses, HourFails, signalVars
    <3>2. QED
      BY <3>1
  <2>3. CASE Process1H
    <3>1. session' \in Directions \cup {None}
      <4>1. PICK w \in Watchings : w[1] = session /\ session' = w[3]
        BY <2>3 DEF Process1H
      <4>2. PICK d \in Directions \cup {None}, b \in Biases, i \in HourInputs : w = <<d, b, Watch(i, d, b)>>
        BY DEF Watchings
      <4>3. DetectWatching(i, b) \in Directions \cup {None}
        BY DEF DetectWatching, First, Directions
      <4>4. Watch(i, d, b) \in Directions \cup {None}
        BY <4>3 DEF Watch
      <4>5. QED
        BY <4>1, <4>2, <4>4
    <3>2. UNCHANGED <<bias, stage, read, active, signal, order, rewritten>>
      BY <2>3 DEF Process1H
    <3>3. QED
      BY <3>1, <3>2
  <2>4. CASE ReadSymbolState
    BY <2>4 DEF ReadSymbolState
  <2>5. CASE ReadWatchSession
    BY <2>5 DEF ReadWatchSession
  <2>6. CASE PassGates
    <3>1. /\ active \in Directions
          /\ read = bias \/ rewritten
          /\ stage' = "knn" /\ read' = None /\ UNCHANGED <<bias, session, rewritten>>
      BY <2>6 DEF PassGates
    <3>2. PICK p \in Passing : p[1] = active /\ p[2] = read /\ signal' = p[3]
      BY <2>6 DEF PassGates
    <3>3. /\ signal' \in Signalled /\ signal'.entry > 0 /\ signal'.dir = active
          /\ BiasMatches(active, read)
      BY <3>1, <3>2, GatesPassed
    <3>4. read' \in Biases
      BY <3>1 DEF Biases
    <3>5. QED
      BY <3>1, <3>3, <3>4
  <2>7. CASE SearchKnn
    BY <2>7 DEF SearchKnn
  <2>8. CASE ComputeEntrySize
    BY <2>8 DEF ComputeEntrySize
  <2>9. CASE EntryEnds
    BY <2>9 DEF EntryEnds, Biases
  <2>10. QED
    BY <2>1, <2>2, <2>3, <2>4, <2>5, <2>6, <2>7, <2>8, <2>9 DEF SignalNext
<1> HIDE DEF SignalInv, SignalInit, SignalNext, signalVars
<1>3. QED
  BY <1>1, <1>2, PTL DEF SignalSpec

-----------------------------------------------------------------------------
\* The buffer of the stop is positive unless the candle has no extent.
LEMMA StopBeyond ==
  ASSUME NEW c \in Candles, Extent(c) # 0
  PROVE  /\ CalcSlPrice(c, "LONG") < 20 * c.low
         /\ CalcSlPrice(c, "SHORT") > 20 * c.high
<1>1. /\ c.open \in Nat /\ c.high \in Nat /\ c.low \in Nat /\ c.close \in Nat
      /\ c.low <= c.open /\ c.open <= c.high /\ c.low <= c.close /\ c.close <= c.high
  BY CandleTyped
<1>2. \A d \in Directions : SlBuffer(c, d) \in Nat /\ SlBuffer(c, d) > 0
  BY <1>1 DEF SlBuffer, Tail, Lesser, Greater, Extent, Directions
<1>3. QED
  BY <1>1, <1>2 DEF CalcSlPrice, Directions

\* Every signal of evidence can be traded, its stop beyond every price of its candle, on
\* any price grid; and however the 1D, 1H and entry handlers interleave, an entry against
\* the bias of the moment had it written while it was handled (signals/evidence-gate.ts
\* checkEvidence, pipeline.ts process1D, process1H, processEntry).
THEOREM SignalsSignalSound == SignalSpec => []SignalSound
<1>1. SignalInv => SignalSound
  <2> SUFFICES ASSUME SignalInv PROVE SignalSound
    OBVIOUS
  <2>1. ASSUME session # None, NEW i \in EntryInputs, CheckEvidence(i, session) # NoSignal,
               Extent(i.candle) # 0
        PROVE  IF CheckEvidence(i, session).dir = "LONG"
               THEN CheckEvidence(i, session).sl < 20 * i.candle.low
               ELSE CheckEvidence(i, session).sl > 20 * i.candle.high
    <3>1. session \in Directions
      BY <2>1 DEF SignalInv, SignalTyped
    <3>2. /\ CheckEvidence(i, session).dir = session
          /\ CheckEvidence(i, session).sl = CalcSlPrice(i.candle, session)
      BY <2>1, <3>1, SignalFound
    <3>3. i.candle \in Candles
      BY DEF EntryInputs
    <3>4. QED
      BY <2>1, <3>1, <3>2, <3>3, StopBeyond DEF Directions
  <2>2. ASSUME stage \in SizedStages, bias \in {"LONG_ONLY", "SHORT_ONLY"}
        PROVE  Follows(signal.dir, bias) \/ rewritten
    BY <2>2, NoneAssumption DEF SignalInv, Gated, BiasMatches
  <2> HIDE DEF SignalInv
  <2>3. QED
    BY <2>1, <2>2 DEF SignalSound, SizedStages
<1> HIDE DEF SignalInv, SignalInit, SignalNext, signalVars, SignalSound
<1>2. QED
  BY <1>1, SignalInvHolds, PTL

-----------------------------------------------------------------------------
(* The size of a position. *)

\* Rounding down and up.
LEMMA Floors ==
  ASSUME NEW x \in Nat, NEW y \in Nat \ {0}
  PROVE  (x \div y) \in Nat /\ (x \div y) * y <= x
OBVIOUS

LEMMA Ceilings ==
  ASSUME NEW x \in Nat, NEW y \in Nat \ {0}
  PROVE  /\ ((x + y - 1) \div y) \in Nat /\ x <= ((x + y - 1) \div y) * y
         /\ \A n \in Nat : x <= n * y => (x + y - 1) \div y <= n
<1> DEFINE q == (x + y - 1) \div y
<1>1. x + y - 1 \in Nat
  OBVIOUS
<1>2. q \in Nat /\ q * y <= x + y - 1 /\ x + y - 1 < q * y + y
  BY <1>1
<1>3. x <= q * y
  BY <1>2
<1>4. ASSUME NEW n \in Nat, x <= n * y PROVE q <= n
  <2> SUFFICES ASSUME q >= n + 1 PROVE FALSE
    BY <1>2
  <2> HIDE DEF q
  <2>1. q * y >= (n + 1) * y
    BY <1>2
  <2>2. (n + 1) * y = n * y + y
    OBVIOUS
  <2>3. n * y \in Nat /\ q * y \in Nat
    BY <1>2
  <2> DEFINE a == n * y  b == q * y
  <2> HIDE DEF a, b
  <2>4. QED
    BY <1>2, <1>4, <2>1, <2>2, <2>3 DEF a, b
<1>5. QED
  BY <1>2, <1>3, <1>4

\* A factor common to both sides.
LEMMA Cancel ==
  ASSUME NEW x \in Int, NEW y \in Int, NEW k \in Nat \ {0}, x * k <= y * k
  PROVE  x <= y
OBVIOUS

LEMMA Scale ==
  ASSUME NEW x \in Int, NEW y \in Int, NEW k \in Nat, x <= y
  PROVE  x * k <= y * k
OBVIOUS

(***************************************************************************)
(* With the risk r / rd of unit, a price e, a stop's distance d and the    *)
(* leverage cap: unit * r / (rd * d) does not lever beyond the cap, and    *)
(* unit * cap / e, where that would, does not lose more at the stop.       *)
(***************************************************************************)
LEMMA RawFits ==
  ASSUME NEW size \in Nat, NEW unit \in Nat, NEW r \in Nat, NEW rd \in Nat \ {0},
         NEW d \in Nat \ {0}, NEW e \in Nat \ {0}, NEW cap \in Nat,
         size * (rd * d) <= unit * r, r * e <= cap * rd * d
  PROVE  size * e <= unit * cap
<1> DEFINE k == rd * d
<1>1. k \in Nat \ {0} /\ r * e <= cap * k
  OBVIOUS
<1>2. size * k <= unit * r
  OBVIOUS
<1> HIDE DEF k
<1>3. (size * k) * e <= (unit * r) * e
  BY <1>1, <1>2
<1>4. unit * (r * e) <= unit * (cap * k)
  BY <1>1
<1>5. /\ (size * k) * e = (size * e) * k /\ (unit * r) * e = unit * (r * e)
      /\ unit * (cap * k) = (unit * cap) * k
  BY <1>1
<1>6. (size * e) * k <= (unit * cap) * k
  <2> DEFINE a == (size * e) * k  b == unit * (r * e)  c == (unit * cap) * k
  <2>1. a \in Int /\ b \in Int /\ c \in Int /\ a <= b /\ b <= c
    BY <1>1, <1>3, <1>4, <1>5
  <2> HIDE DEF a, b, c
  <2>2. a <= c
    BY <2>1
  <2>3. QED
    BY <2>2 DEF a, c
<1>7. QED
  BY <1>1, <1>6, Cancel

LEMMA CappedFits ==
  ASSUME NEW size \in Nat, NEW unit \in Nat, NEW r \in Nat, NEW rd \in Nat \ {0},
         NEW d \in Nat \ {0}, NEW e \in Nat \ {0}, NEW cap \in Nat,
         size * e <= unit * cap, cap * rd * d <= r * e
  PROVE  size * d * rd <= unit * r
<1> DEFINE k == rd * d
<1>1. k \in Nat \ {0} /\ cap * k <= r * e
  OBVIOUS
<1>2. size * d * rd = size * k
  OBVIOUS
<1> HIDE DEF k
<1>3. (size * e) * k <= (unit * cap) * k
  BY <1>1
<1>4. unit * (cap * k) <= unit * (r * e)
  BY <1>1
<1>5. /\ (size * e) * k = (size * k) * e /\ (unit * cap) * k = unit * (cap * k)
      /\ unit * (r * e) = (unit * r) * e
  BY <1>1
<1>6. (size * k) * e <= (unit * r) * e
  <2> DEFINE a == (size * k) * e  b == unit * (cap * k)  c == (unit * r) * e
  <2>1. a \in Int /\ b \in Int /\ c \in Int /\ a <= b /\ b <= c
    BY <1>1, <1>3, <1>4, <1>5
  <2> HIDE DEF a, b, c
  <2>2. a <= c
    BY <2>1
  <2>3. QED
    BY <2>2 DEF a, c
<1>7. size * k <= unit * r
  BY <1>1, <1>6, Cancel
<1>8. QED
  BY <1>2, <1>7

LEMMA RiskTyped ==
  ASSUME NEW b \in Nat PROVE RiskDen \in Nat \ {0} /\ RiskNum(b) \in Nat
BY TierAssumption DEF RiskDen, RiskNum

LEMMA SizeFits ==
  ASSUME NEW s \in Signalled, s.entry > 0, SlDistance(s) # 0, NEW cap \in Balances \X LevCaps
  PROVE  LET o == CalculateSize(s, cap) IN
         /\ o.size * SlDistance(s) * RiskDen <= 20 * Lots * o.balance * RiskNum(o.balance)
         /\ o.leverage <= o.cap /\ o.leverage <= HardCap
         /\ o.size * EntryPrice(s) <= o.leverage * 20 * Lots * o.balance
<1> DEFINE b == cap[1]  most == Lesser(HardCap, cap[2])  unit == 20 * Lots * b
           within == <<b, most>>
           d == SlDistance(s)  e == EntryPrice(s)  r == RiskNum(b)  rd == RiskDen
           q == IF TooLevered(s, within) THEN CappedSize(s, within) ELSE RawSize(s, b)
           size == RoundDownToTick(q)
           leverage == (size * e + unit - 1) \div unit
<1>1. /\ b \in Nat \ {0} /\ most \in Nat \ {0} /\ Lots \in Nat \ {0}
      /\ cap[2] \in Nat /\ HardCap \in Nat /\ most <= cap[2] /\ most <= HardCap
  BY SizeAssumption DEF Lesser
<1>2. unit \in Nat \ {0}
  BY <1>1
<1>3. r \in Nat /\ rd \in Nat \ {0}
  BY <1>1, RiskTyped
<1>4. d \in Nat \ {0}
  BY DEF SlDistance, Abs, Signalled
<1>5. e \in Nat \ {0}
  BY PriceAssumption DEF EntryPrice, Signalled
<1>6. /\ CalculateSize(s, cap).size = size /\ CalculateSize(s, cap).leverage = leverage
      /\ CalculateSize(s, cap).balance = b /\ CalculateSize(s, cap).cap = cap[2]
  BY DEF CalculateSize
<1> SUFFICES size \in Nat /\ size * e <= unit * most /\ size * d * rd <= unit * r
  <2>1. size * e \in Nat
    BY <1>5
  <2> HIDE DEF d, e, r, rd, size, unit, b, most
  <2> DEFINE x == size * e
  <2>2. leverage = (x + unit - 1) \div unit
    OBVIOUS
  <2>3. x \in Nat /\ x <= most * unit
    BY <1>1, <1>2, <2>1
  <2> HIDE DEF leverage, x
  <2>4. leverage <= most /\ x <= leverage * unit /\ leverage \in Nat
    BY <1>1, <1>2, <2>2, <2>3, Ceilings
  <2>7. leverage <= cap[2] /\ leverage <= HardCap
    BY <1>1, <2>4
  <2>5. leverage * 20 * Lots * b = leverage * unit
    BY <1>1, <2>4 DEF unit
  <2>6. QED
    BY <1>6, <2>4, <2>5, <2>7 DEF d, e, r, rd, unit, x
<1>7. CASE TooLevered(s, within)
  <2>1. size = (unit * most) \div e
    BY <1>7 DEF RoundDownToTick, CappedSize
  <2>2. r * e > most * rd * d
    BY <1>7 DEF TooLevered
  <2> HIDE DEF d, e, r, rd, size, unit, b, most
  <2>3. unit * most \in Nat
    BY <1>1, <1>2
  <2>4. size \in Nat /\ size * e <= unit * most
    BY <1>5, <2>1, <2>3, Floors
  <2>5. most * rd * d <= r * e
    BY <1>1, <1>3, <1>4, <1>5, <2>2
  <2>6. size * d * rd <= unit * r
    BY <1>1, <1>2, <1>3, <1>4, <1>5, <2>4, <2>5, CappedFits
  <2>7. QED
    BY <2>4, <2>6
<1>8. CASE ~TooLevered(s, within)
  <2>1. size = (unit * r) \div (rd * d)
    BY <1>8 DEF RoundDownToTick, RawSize
  <2>2. ~(r * e > most * rd * d)
    BY <1>8 DEF TooLevered
  <2> HIDE DEF d, e, r, rd, size, unit, b, most
  <2>3. unit * r \in Nat /\ rd * d \in Nat \ {0}
    BY <1>2, <1>3, <1>4
  <2>4. size \in Nat /\ size * (rd * d) <= unit * r
    BY <2>1, <2>3, Floors
  <2>5. r * e <= most * rd * d
    BY <1>1, <1>3, <1>4, <1>5, <2>2
  <2>6. size * e <= unit * most
    BY <1>1, <1>2, <1>3, <1>4, <1>5, <2>4, <2>5, RawFits
  <2>7. size * d * rd = size * (rd * d)
    BY <1>3, <1>4, <2>4
  <2>8. QED
    BY <2>4, <2>6, <2>7
<1>9. QED
  BY <1>7, <1>8

\* An order loses no more than the tier's risk at its stop, and the leverage set on the
\* exchange carries it within the cap: for any balance, price, stop and cap
\* (positions/sizer.ts getRiskPct, calculateSize, roundDownToTick).
THEOREM SignalsSizeBounded == SignalSpec => []SizeBounded
<1>1. SignalInv => SizeBounded
  <2> SUFFICES ASSUME SignalInv, stage = "sized"
               PROVE  /\ order.size * SlDistance(signal) * RiskDen
                           <= 20 * Lots * order.balance * RiskNum(order.balance)
                      /\ order.leverage <= order.cap /\ order.leverage <= HardCap
                      /\ order.size * EntryPrice(signal) <= order.leverage * 20 * Lots * order.balance
    BY DEF SizeBounded
  <2>1. /\ signal \in Signalled /\ signal.entry > 0 /\ SlDistance(signal) # 0
        /\ \E cap \in Balances \X LevCaps : order = CalculateSize(signal, cap)
    BY DEF SignalInv, SignalTyped, Gated, SizedStages
  <2> HIDE DEF SignalInv
  <2>2. QED
    BY <2>1, SizeFits
<1> HIDE DEF SignalInv, SignalInit, SignalNext, signalVars, SizeBounded
<1>2. QED
  BY <1>1, SignalInvHolds, PTL

-----------------------------------------------------------------------------
(* The decision over the neighbours. *)

LEMMA CellsFinite == IsFiniteSet(Cells)
<1>1. \A a, b, c : IsFiniteSet({a, b, c})
  <2> SUFFICES ASSUME NEW a, NEW b, NEW c PROVE IsFiniteSet({a, b, c})
    OBVIOUS
  <2>1. IsFiniteSet({a}) /\ IsFiniteSet({b}) /\ IsFiniteSet({c})
    BY FS_Singleton
  <2>2. IsFiniteSet({a} \cup {b})
    BY <2>1, FS_Union
  <2>3. IsFiniteSet(({a} \cup {b}) \cup {c})
    BY <2>1, <2>2, FS_Union
  <2>4. {a, b, c} = ({a} \cup {b}) \cup {c}
    OBVIOUS
  <2>5. QED
    BY <2>3, <2>4
<1>2. IsFiniteSet(Labels) /\ IsFiniteSet(Ages)
  BY <1>1 DEF Labels, Ages
<1>3. QED
  BY <1>2, FS_Product DEF Cells

\* The weight of one neighbour of a cell among those of the labels ls.
UnitWeight(c, ls) == IF c[1] \in ls THEN CalcTimeDecay(c[2]) ELSE 0

LEMMA UnitWeightNat == \A c, ls : UnitWeight(c, ls) \in Nat
BY DEF UnitWeight, CalcTimeDecay

LEMMA WeightNat ==
  ASSUME NEW n \in [Cells -> Nat], NEW ls PROVE WeightOf(n, ls) \in Nat
<1> DEFINE g == [c \in Cells |-> IF c[1] \in ls THEN n[c] * CalcTimeDecay(c[2]) ELSE 0]
<1>1. \A c \in Cells : g[c] \in Nat
  BY DEF CalcTimeDecay
<1>2. DOMAIN g = Cells
  OBVIOUS
<1> HIDE DEF g
<1>3. SumFunctionOnSet(g, Cells) \in Nat
  BY <1>1, CellsFinite, SumNat
<1>4. QED
  BY <1>2, <1>3 DEF WeightOf, SumFunction, g

\* A neighbour moved from one cell to another takes its weight with it.
LEMMA MovedCount ==
  ASSUME NEW n \in [Cells -> Nat], NEW from \in Cells, NEW to \in Cells, from # to, n[from] > 0
  PROVE  /\ Moved(n, from, to) \in [Cells -> Nat]
         /\ SumFunction(Moved(n, from, to)) = SumFunction(n)
<1> DEFINE h == [n EXCEPT ![from] = @ - 1]
           m == Moved(n, from, to)
<1>1. h \in [Cells -> Nat] /\ h[from] = n[from] - 1 /\ \A c \in Cells : c # from => h[c] = n[c]
  OBVIOUS
<1>2. m \in [Cells -> Nat] /\ m[to] = h[to] + 1 /\ \A c \in Cells : c # to => m[c] = h[c]
  BY DEF Moved
<1> HIDE DEF h, m
<1>3. SumFunctionOnSet(h, Cells) = SumFunctionOnSet(n, Cells) - n[from] + h[from]
  BY <1>1, CellsFinite, SumUpdate
<1>4. SumFunctionOnSet(m, Cells) = SumFunctionOnSet(h, Cells) - h[to] + m[to]
  BY <1>1, <1>2, CellsFinite, SumUpdate
<1>5. SumFunctionOnSet(n, Cells) \in Nat /\ SumFunctionOnSet(h, Cells) \in Nat
  BY <1>1, CellsFinite, SumNat
<1>6. SumFunctionOnSet(m, Cells) = SumFunctionOnSet(n, Cells)
  BY <1>1, <1>2, <1>3, <1>4, <1>5
<1>7. DOMAIN m = Cells /\ DOMAIN n = Cells
  BY <1>2
<1>8. QED
  BY <1>2, <1>6, <1>7 DEF m, SumFunction

LEMMA MovedWeight ==
  ASSUME NEW n \in [Cells -> Nat], NEW from \in Cells, NEW to \in Cells, from # to, n[from] > 0, NEW ls
  PROVE  WeightOf(Moved(n, from, to), ls) = WeightOf(n, ls) - UnitWeight(from, ls) + UnitWeight(to, ls)
<1> DEFINE m == Moved(n, from, to)
           g(k) == [c \in Cells |-> IF c[1] \in ls THEN k[c] * CalcTimeDecay(c[2]) ELSE 0]
           h == [g(n) EXCEPT ![from] = g(n)[from] - UnitWeight(from, ls)]
           a == g(n)
           b == g(m)
<1>1. /\ m \in [Cells -> Nat] /\ m[from] = n[from] - 1 /\ m[to] = n[to] + 1
      /\ \A c \in Cells : c # from /\ c # to => m[c] = n[c]
  BY DEF Moved
<1> HIDE DEF m
<1>2. \A c \in Cells : a[c] = n[c] * UnitWeight(c, ls) /\ b[c] = m[c] * UnitWeight(c, ls)
  BY <1>1 DEF UnitWeight
<1>3. \A c \in Cells : UnitWeight(c, ls) \in Nat /\ n[c] \in Nat /\ m[c] \in Nat
  BY <1>1, UnitWeightNat
<1>4. \A c \in Cells : a[c] \in Int /\ b[c] \in Int
  BY <1>2, <1>3
<1>5. /\ b[from] = a[from] - UnitWeight(from, ls)
      /\ b[to] = a[to] + UnitWeight(to, ls)
      /\ \A c \in Cells : c # from /\ c # to => b[c] = a[c]
  <2> DEFINE u(c) == UnitWeight(c, ls)
  <2>1. b[from] = (n[from] - 1) * u(from) /\ b[to] = (n[to] + 1) * u(to)
    BY <1>1, <1>2
  <2>2. \A x \in Int, y \in Int : (x - 1) * y = x * y - y /\ (x + 1) * y = x * y + y
    OBVIOUS
  <2>3. a[from] = n[from] * u(from) /\ a[to] = n[to] * u(to)
    BY <1>2
  <2>4. n[from] \in Int /\ n[to] \in Int /\ u(from) \in Int /\ u(to) \in Int
    BY <1>3
  <2> HIDE DEF a, b, g, u
  <2>5. b[from] = a[from] - u(from) /\ b[to] = a[to] + u(to)
    BY <2>1, <2>2, <2>3, <2>4
  <2>6. \A c \in Cells : c # from /\ c # to => b[c] = a[c]
    BY <1>1, <1>2
  <2>7. QED
    BY <2>5, <2>6 DEF u
<1>6. /\ h[from] = a[from] - UnitWeight(from, ls) /\ \A c \in Cells : c # from => h[c] = a[c]
      /\ DOMAIN a = Cells /\ DOMAIN b = Cells
  OBVIOUS
<1> HIDE DEF g, a, b, h
<1>7. \A c \in Cells : h[c] \in Int
  BY <1>3, <1>4, <1>6
<1>8. SumFunctionOnSet(h, Cells) = SumFunctionOnSet(a, Cells) - a[from] + h[from]
  BY <1>4, <1>6, <1>7, CellsFinite, SumUpdate
<1>9. SumFunctionOnSet(b, Cells) = SumFunctionOnSet(h, Cells) - h[to] + b[to]
  <2>1. \A c \in Cells : c # to => b[c] = h[c]
    BY <1>5, <1>6
  <2>2. QED
    BY <1>4, <1>7, <2>1, CellsFinite, SumUpdate
<1>10. SumFunctionOnSet(a, Cells) \in Int
  BY <1>4, CellsFinite, SumInt
<1>11. SumFunctionOnSet(b, Cells)
         = SumFunctionOnSet(a, Cells) - UnitWeight(from, ls) + UnitWeight(to, ls)
  BY <1>3, <1>4, <1>5, <1>6, <1>8, <1>9, <1>10
<1>12. SumFunction(a) = WeightOf(n, ls) /\ SumFunction(b) = WeightOf(m, ls)
  BY DEF WeightOf, a, b, g
<1>13. QED
  BY <1>6, <1>11, <1>12 DEF SumFunction, m

\* The wins weigh no more than all.
LEMMA WinsInWeight ==
  ASSUME NEW n \in [Cells -> Nat] PROVE WeightOf(n, {"WIN"}) <= Weight(n)
<1> DEFINE g(ls) == [c \in Cells |-> IF c[1] \in ls THEN n[c] * CalcTimeDecay(c[2]) ELSE 0]
           a == g({"WIN"})
           b == g(Labels)
<1>1. \A c \in Cells : a[c] \in Int /\ b[c] \in Int /\ a[c] <= b[c]
  BY DEF CalcTimeDecay, Labels
<1>2. DOMAIN a = Cells /\ DOMAIN b = Cells
  OBVIOUS
<1>3. SumFunction(a) = WeightOf(n, {"WIN"}) /\ SumFunction(b) = Weight(n)
  BY DEF WeightOf, Weight
<1> HIDE DEF a, b
<1>4. SumFunctionOnSet(a, Cells) <= SumFunctionOnSet(b, Cells)
  BY <1>1, CellsFinite, SumMonotone
<1>5. QED
  BY <1>2, <1>3, <1>4 DEF SumFunction

(***************************************************************************)
(* The arithmetic of a better past: w, t and l weigh the wins, the time    *)
(* exits and the losses, all of them weigh x, pct is the win rate asked.   *)
(***************************************************************************)
LEMMA MoreWins ==
  ASSUME NEW w \in Nat, NEW x \in Nat, NEW pct \in Nat, NEW y \in Nat, 100 * w >= pct * x
  PROVE  100 * (w + y) >= pct * x
OBVIOUS

LEMMA FewerLosses ==
  ASSUME NEW w \in Nat, NEW x \in Nat, NEW pct \in Nat, NEW y \in Nat, y <= x, 100 * w >= pct * x
  PROVE  100 * w >= pct * (x - y)
<1>1. pct * (x - y) = pct * x - pct * y /\ pct * y >= 0
  OBVIOUS
<1> DEFINE a == pct * x  b == pct * y  c == pct * (x - y)
<1>2. a \in Int /\ b \in Int /\ c \in Int
  OBVIOUS
<1>3. c = a - b /\ b >= 0 /\ 100 * w >= a
  BY <1>1
<1> HIDE DEF a, b, c
<1>4. 100 * w >= c
  BY <1>2, <1>3
<1>5. QED
  BY <1>4 DEF c

LEMMA YoungerWins ==
  ASSUME NEW w \in Nat, NEW x \in Nat, NEW t \in Nat, NEW l \in Nat, NEW pct \in Nat, NEW y \in Nat,
         w <= x, 100 * w >= pct * x, 1250 * (2 * w - t - 2 * l) > 2 * x
  PROVE  100 * (w + y) >= pct * (x + y)
<1> DEFINE a == pct * x  b == pct * y
<1>1. pct * (x + y) = a + b /\ a \in Nat /\ b \in Nat /\ 100 * w >= a
  OBVIOUS
<1>2. CASE pct <= 100
  <2>1. b <= 100 * y
    BY <1>2
  <2> HIDE DEF a, b
  <2>2. QED
    BY <1>1, <2>1
<1>3. CASE pct > 100
  <2>1. x > 0
    <3>1. w > 0
      OBVIOUS
    <3>2. QED
      BY <3>1
  <2>2. pct * x >= 101 * x
    BY <1>3
  <2>3. FALSE
    <3> HIDE DEF a
    <3>1. a >= 101 * x
      BY <2>2 DEF a
    <3>2. QED
      BY <1>1, <2>1, <3>1
  <2>4. QED
    BY <2>3
<1>4. QED
  BY <1>2, <1>3

\* The neighbours' weights by label, before and after one of them moves.
LEMMA WeightsTyped ==
  ASSUME NEW n \in [Cells -> Nat]
  PROVE  /\ WeightOf(n, {"WIN"}) \in Nat /\ WeightOf(n, {"LOSS"}) \in Nat
         /\ WeightOf(n, {"TIME_EXIT"}) \in Nat /\ Weight(n) \in Nat /\ SumFunction(n) \in Nat
<1>1. SumFunctionOnSet(n, Cells) \in Nat /\ DOMAIN n = Cells
  BY CellsFinite, SumNat
<1>2. QED
  BY <1>1, WeightNat DEF Weight, SumFunction

\* What passes for a plain signal passes for an A grade.
LEMMA PassAGrade ==
  ASSUME NEW n \in [Cells -> Nat], MakeDecision(n, FALSE) = "PASS"
  PROVE  MakeDecision(n, TRUE) = "PASS"
<1> DEFINE x == Weight(n)  w == WeightOf(n, {"WIN"})
           p == WinratePct  q == AGradeWinratePct
<1>1. x \in Nat /\ w \in Nat /\ SumFunction(n) \in Nat
  BY WeightsTyped
<1>2. /\ ~(SumFunction(n) < MinSamples) /\ 100 * w >= p * x
      /\ 1250 * TwiceExpectancy(n) > 2 * x
  BY DEF MakeDecision, Floor, WinrateReached
<1>3. ~(SumFunction(n) < AGradeMinSamples)
  BY <1>1, <1>2, GradeAssumption
<1>4. p \in Nat /\ q \in Nat /\ q <= p
  BY GradeAssumption
<1> HIDE DEF x, w, p, q
<1>5. q * x <= p * x
  BY <1>1, <1>4
<1>6. 100 * w >= q * x
  <2> DEFINE a == q * x  b == p * x
  <2>1. a \in Nat /\ b \in Nat /\ a <= b /\ 100 * w >= b
    BY <1>1, <1>2, <1>4, <1>5
  <2> HIDE DEF a, b
  <2>2. 100 * w >= a
    BY <1>1, <2>1
  <2>3. QED
    BY <2>2 DEF a
<1>7. QED
  BY <1>2, <1>3, <1>6 DEF MakeDecision, Floor, WinrateReached, x, w, p, q

\* What passes still passes when one neighbour does better.
LEMMA PassMoved ==
  ASSUME NEW n \in [Cells -> Nat], MakeDecision(n, FALSE) = "PASS",
         NEW from \in Cells, NEW to \in Cells, n[from] > 0,
         \/ from[2] = to[2] /\ to[1] = "WIN"
         \/ from[1] = "WIN" /\ to[1] = "WIN" /\ Younger(to[2], from[2])
         \/ from[1] = "LOSS" /\ to[1] = "LOSS" /\ Younger(from[2], to[2])
  PROVE  MakeDecision(Moved(n, from, to), FALSE) = "PASS"
<1> DEFINE m == Moved(n, from, to)
           W == WeightOf(n, {"WIN"})  T == WeightOf(n, {"TIME_EXIT"})  L == WeightOf(n, {"LOSS"})
           X == Weight(n)
           W2 == WeightOf(m, {"WIN"})  T2 == WeightOf(m, {"TIME_EXIT"})  L2 == WeightOf(m, {"LOSS"})
           X2 == Weight(m)
           f == CalcTimeDecay(from[2])  g == CalcTimeDecay(to[2])
           pct == WinratePct
<1>1. /\ W \in Nat /\ T \in Nat /\ L \in Nat /\ X \in Nat /\ pct \in Nat /\ W <= X
      /\ f \in Nat /\ g \in Nat
  BY WeightsTyped, WinsInWeight, GradeAssumption DEF CalcTimeDecay
<1>2. /\ ~(SumFunction(n) < MinSamples) /\ 100 * W >= pct * X
      /\ 1250 * (2 * W - T - 2 * L) > 2 * X
  BY DEF MakeDecision, Floor, WinrateReached, TwiceExpectancy
<1>3. CASE from = to
  <2>1. m = n
    BY <1>3 DEF Moved
  <2>2. QED
    BY <2>1
<1>4. CASE from # to
  <2>1. m \in [Cells -> Nat] /\ SumFunction(m) = SumFunction(n)
    BY <1>4, MovedCount
  <2>2. /\ W2 \in Nat /\ T2 \in Nat /\ L2 \in Nat /\ X2 \in Nat
    BY <2>1, WeightsTyped
  <2>3. /\ W2 = W - UnitWeight(from, {"WIN"}) + UnitWeight(to, {"WIN"})
        /\ T2 = T - UnitWeight(from, {"TIME_EXIT"}) + UnitWeight(to, {"TIME_EXIT"})
        /\ L2 = L - UnitWeight(from, {"LOSS"}) + UnitWeight(to, {"LOSS"})
        /\ X2 = X - UnitWeight(from, Labels) + UnitWeight(to, Labels)
    BY <1>4, MovedWeight DEF Weight
  <2>4. /\ from[1] \in Labels /\ to[1] \in Labels /\ from[2] \in Ages /\ to[2] \in Ages
        /\ from = <<from[1], from[2]>> /\ to = <<to[1], to[2]>>
    BY DEF Cells
  <2> SUFFICES /\ 100 * W2 >= pct * X2
               /\ 1250 * (2 * W2 - T2 - 2 * L2) > 2 * X2
    BY <1>2, <2>1 DEF MakeDecision, Floor, WinrateReached, TwiceExpectancy
  <2>5. CASE from[2] = to[2] /\ to[1] = "WIN"
    <3>1. from[1] \in {"LOSS", "TIME_EXIT"}
      BY <1>4, <2>4, <2>5 DEF Labels
    <3>2. W2 = W + f /\ X2 = X /\ T2 <= T /\ L2 <= L
      <4>1. /\ UnitWeight(from, {"WIN"}) = 0 /\ UnitWeight(to, {"WIN"}) = f
            /\ UnitWeight(to, {"TIME_EXIT"}) = 0 /\ UnitWeight(to, {"LOSS"}) = 0
            /\ UnitWeight(from, {"TIME_EXIT"}) >= 0 /\ UnitWeight(from, {"LOSS"}) >= 0
            /\ UnitWeight(from, Labels) = f /\ UnitWeight(to, Labels) = f
        BY <2>4, <2>5, <3>1, UnitWeightNat DEF UnitWeight
      <4> HIDE DEF W, T, L, X, W2, T2, L2, X2, f
      <4>2. UnitWeight(from, {"TIME_EXIT"}) \in Nat /\ UnitWeight(from, {"LOSS"}) \in Nat
        BY UnitWeightNat
      <4>3. QED
        BY <1>1, <2>2, <2>3, <4>1, <4>2
    <3> HIDE DEF W, T, L, X, W2, T2, L2, X2, f, pct
    <3>3. 100 * W2 >= pct * X2
      BY <1>1, <1>2, <3>2, MoreWins
    <3>4. QED
      BY <1>1, <1>2, <2>2, <3>2, <3>3
  <2>6. CASE from[1] = "WIN" /\ to[1] = "WIN" /\ Younger(to[2], from[2])
    <3> DEFINE y == g - f
    <3>1. y \in Nat
      BY <2>6 DEF Younger, CalcTimeDecay
    <3>2. W2 = W + y /\ X2 = X + y /\ T2 = T /\ L2 = L
      <4>1. /\ UnitWeight(from, {"WIN"}) = f /\ UnitWeight(to, {"WIN"}) = g
            /\ UnitWeight(from, {"TIME_EXIT"}) = 0 /\ UnitWeight(to, {"TIME_EXIT"}) = 0
            /\ UnitWeight(from, {"LOSS"}) = 0 /\ UnitWeight(to, {"LOSS"}) = 0
            /\ UnitWeight(from, Labels) = f /\ UnitWeight(to, Labels) = g
        BY <2>4, <2>6 DEF UnitWeight, Labels
      <4> HIDE DEF W, T, L, X, W2, T2, L2, X2, f, g
      <4>2. QED
        BY <1>1, <2>2, <2>3, <4>1
    <3> HIDE DEF W, T, L, X, W2, T2, L2, X2, f, g, y, pct
    <3>3. 100 * (W + y) >= pct * (X + y)
      BY <1>1, <1>2, <3>1, YoungerWins
    <3>4. 1250 * (2 * (W + y) - T - 2 * L) > 2 * (X + y)
      BY <1>1, <1>2, <3>1
    <3>5. QED
      BY <3>2, <3>3, <3>4
  <2>7. CASE from[1] = "LOSS" /\ to[1] = "LOSS" /\ Younger(from[2], to[2])
    <3> DEFINE y == f - g
    <3>1. y \in Nat
      BY <2>7 DEF Younger, CalcTimeDecay
    <3>2. W2 = W /\ X2 = X - y /\ T2 = T /\ L2 = L - y
      <4>1. /\ UnitWeight(from, {"WIN"}) = 0 /\ UnitWeight(to, {"WIN"}) = 0
            /\ UnitWeight(from, {"TIME_EXIT"}) = 0 /\ UnitWeight(to, {"TIME_EXIT"}) = 0
            /\ UnitWeight(from, {"LOSS"}) = f /\ UnitWeight(to, {"LOSS"}) = g
            /\ UnitWeight(from, Labels) = f /\ UnitWeight(to, Labels) = g
        BY <2>4, <2>7 DEF UnitWeight, Labels
      <4> HIDE DEF W, T, L, X, W2, T2, L2, X2, f, g
      <4>2. QED
        BY <1>1, <2>2, <2>3, <4>1
    <3> HIDE DEF W, T, L, X, W2, T2, L2, X2, f, g, y, pct
    <3>3. y <= X
      BY <1>1, <2>2, <3>1, <3>2
    <3>4. 100 * W >= pct * (X - y)
      BY <1>1, <1>2, <3>1, <3>3, FewerLosses
    <3>5. 1250 * (2 * W - T - 2 * (L - y)) > 2 * (X - y)
      BY <1>1, <1>2, <3>1
    <3>6. QED
      BY <3>2, <3>4, <3>5
  <2>8. QED
    BY <2>5, <2>6, <2>7
<1>5. QED
  BY <1>3, <1>4

\* A better past never turns an entry down: what passes passes as A grade, with a loss or
\* time exit turned into a win, with a win grown younger or a loss older, for any number
\* of neighbours and any thresholds (knn/decision.ts makeDecision, knn/time-decay.ts).
THEOREM SignalsKnnMonotone == SignalSpec => []KnnMonotone
<1>1. KnnMonotone
  <2> SUFFICES ASSUME NEW n \in Neighbourhoods, MakeDecision(n, FALSE) = "PASS"
               PROVE  /\ MakeDecision(n, TRUE) = "PASS"
                      /\ \A from, to \in Cells :
                           /\ n[from] > 0
                           /\ \/ from[2] = to[2] /\ to[1] = "WIN"
                              \/ from[1] = "WIN" /\ to[1] = "WIN" /\ Younger(to[2], from[2])
                              \/ from[1] = "LOSS" /\ to[1] = "LOSS" /\ Younger(from[2], to[2])
                           => MakeDecision(Moved(n, from, to), FALSE) = "PASS"
    BY DEF KnnMonotone
  <2>1. n \in [Cells -> Nat]
    BY DEF Neighbourhoods
  <2>2. QED
    BY <2>1, PassAGrade, PassMoved
<1> HIDE DEF KnnMonotone
<1>2. QED
  BY <1>1, PTL

-----------------------------------------------------------------------------
(***************************************************************************)
(* The market upside down.  First what reflection does to prices, bands    *)
(* and candles and to the tests they are put to.                           *)
(***************************************************************************)
LEMMA Flips ==
  /\ \A p \in Prices : p \in Int /\ Flip(p) \in Prices /\ Flip(p) = MaxPrice + 1 - p /\ Flip(Flip(p)) = p
  /\ MaxPrice \in Nat
BY PriceAssumption DEF Flip, Prices

LEMMA FlippedBand ==
  ASSUME NEW b \in Bands
  PROVE  /\ b # None /\ b.lower \in Int /\ b.upper \in Int /\ b.lower < b.upper
         /\ FlipBand(b) # None
         /\ FlipBand(b).lower = MaxPrice + 1 - b.upper /\ FlipBand(b).upper = MaxPrice + 1 - b.lower
<1>1. b.lower \in Prices /\ b.upper \in Prices /\ b.lower < b.upper /\ b # None
  BY NoBandAssumption DEF Bands
<1>2. FlipBand(b) = [lower |-> Flip(b.upper), upper |-> Flip(b.lower)]
  BY <1>1 DEF FlipBand
<1>3. FlipBand(b) \in Bands
  BY <1>1, <1>2, Flips DEF Bands
<1>4. QED
  BY <1>1, <1>2, <1>3, Flips, NoBandAssumption

LEMMA FlippedCandle ==
  ASSUME NEW c \in Candles
  PROVE  /\ c.open \in Int /\ c.high \in Int /\ c.low \in Int /\ c.close \in Int
         /\ FlipCandle(c).open = MaxPrice + 1 - c.open /\ FlipCandle(c).close = MaxPrice + 1 - c.close
         /\ FlipCandle(c).high = MaxPrice + 1 - c.low /\ FlipCandle(c).low = MaxPrice + 1 - c.high
<1>1. c.open \in Prices /\ c.high \in Prices /\ c.low \in Prices /\ c.close \in Prices
  BY DEF Candles
<1>2. QED
  BY <1>1, Flips DEF FlipCandle

LEMMA FlippedTests ==
  ASSUME NEW c \in Candles, NEW d \in Directions
  PROVE  /\ Opposite(d) \in Directions /\ Opposite(Opposite(d)) = d /\ Opposite(d) # d
         /\ \A b \in Bands : /\ Beyond(FlipCandle(c).close, Opposite(d), FlipBand(b)) <=> Beyond(c.close, d, b)
                             /\ Touches(FlipCandle(c), Opposite(d), FlipBand(b)) <=> Touches(c, d, b)
         /\ FarWick(FlipCandle(c), Opposite(d)) = FarWick(c, d)
         /\ Tail(FlipCandle(c), Opposite(d)) = Tail(c, d)
         /\ Extent(FlipCandle(c)) = Extent(c)
         /\ FlipCandle(c).high = FlipCandle(c).low <=> c.high = c.low
<1>1. d \in {"LONG", "SHORT"} /\ MaxPrice \in Int
  BY Flips DEF Directions
<1>2. /\ c.open \in Int /\ c.high \in Int /\ c.low \in Int /\ c.close \in Int
      /\ FlipCandle(c).open = MaxPrice + 1 - c.open /\ FlipCandle(c).close = MaxPrice + 1 - c.close
      /\ FlipCandle(c).high = MaxPrice + 1 - c.low /\ FlipCandle(c).low = MaxPrice + 1 - c.high
  BY FlippedCandle
<1>3. Opposite(d) \in Directions /\ Opposite(Opposite(d)) = d /\ Opposite(d) # d
  BY <1>1 DEF Opposite, Directions
<1>4. ASSUME NEW b \in Bands
      PROVE  /\ Beyond(FlipCandle(c).close, Opposite(d), FlipBand(b)) <=> Beyond(c.close, d, b)
             /\ Touches(FlipCandle(c), Opposite(d), FlipBand(b)) <=> Touches(c, d, b)
  <2>1. /\ b.lower \in Int /\ b.upper \in Int
        /\ FlipBand(b).lower = MaxPrice + 1 - b.upper /\ FlipBand(b).upper = MaxPrice + 1 - b.lower
    BY FlippedBand
  <2>2. QED
    BY <1>1, <1>2, <2>1 DEF Beyond, Touches, Opposite
<1>5. /\ FarWick(FlipCandle(c), Opposite(d)) = FarWick(c, d)
      /\ Tail(FlipCandle(c), Opposite(d)) = Tail(c, d)
  BY <1>1, <1>2 DEF FarWick, Tail, Lesser, Greater, Opposite
<1>6. /\ Extent(FlipCandle(c)) = Extent(c)
      /\ FlipCandle(c).high = FlipCandle(c).low <=> c.high = c.low
  BY <1>1, <1>2 DEF Extent
<1>7. QED
  BY <1>3, <1>4, <1>5, <1>6

LEMMA FlippedBias ==
  ASSUME NEW b \in Biases, NEW d \in Directions
  PROVE  /\ Follows(Opposite(d), FlipBias(b)) <=> Follows(d, b)
         /\ FlipBias(b) = "NEUTRAL" <=> b = "NEUTRAL"
         /\ FlipBias(b) = None <=> b = None
         /\ IsDirectionAllowed(Opposite(d), FlipBias(b)) <=> IsDirectionAllowed(d, b)
<1>1. None # "LONG_ONLY" /\ None # "SHORT_ONLY" /\ None # "NEUTRAL"
  BY NoneAssumption
<1>2. d \in {"LONG", "SHORT"} /\ b \in {"LONG_ONLY", "SHORT_ONLY", "NEUTRAL", None}
  BY DEF Directions, Biases
<1>3. QED
  BY <1>1, <1>2 DEF Follows, FlipBias, IsDirectionAllowed, Opposite

LEMMA FlippedDailyBias ==
  ASSUME NEW open \in Prices, NEW close \in Prices, NEW slope \in -1..1
  PROVE  DetermineDailyBias(Flip(close), Flip(open), -slope) = FlipBias(DetermineDailyBias(close, open, slope))
<1>1. /\ open \in Int /\ close \in Int /\ slope \in Int /\ MaxPrice \in Int
      /\ Flip(open) = MaxPrice + 1 - open /\ Flip(close) = MaxPrice + 1 - close
  BY Flips
<1>2. QED
  BY <1>1 DEF DetermineDailyBias, FlipBias

-----------------------------------------------------------------------------
(* Evidence and safety, upside down. *)

LEMMA FlippedEntry ==
  ASSUME NEW i \in EntryInputs
  PROVE  /\ i.candle \in Candles /\ i.bb4 \in Bands /\ i.bb20 \in Bands \cup {None}
         /\ i.bb4_1h \in Bands \cup {None} /\ i.slope \in {None, "up", "flat", "down"}
         /\ FlipEntry(i).candle = FlipCandle(i.candle) /\ FlipEntry(i).bb4 = FlipBand(i.bb4)
         /\ FlipEntry(i).bb20 = FlipBand(i.bb20) /\ FlipEntry(i).bb4_1h = FlipBand(i.bb4_1h)
         /\ FlipEntry(i).slope = FlipSlope(i.slope)
BY DEF EntryInputs, FlipEntry, EvenBands

LEMMA FlippedStop ==
  ASSUME NEW c \in Candles, NEW d \in Directions
  PROVE  CalcSlPrice(FlipCandle(c), Opposite(d)) = 20 * (MaxPrice + 1) - CalcSlPrice(c, d)
<1>1. /\ c.high \in Int /\ c.low \in Int /\ c.close \in Int /\ c.open \in Int /\ MaxPrice \in Int
      /\ FlipCandle(c).close = MaxPrice + 1 - c.close
      /\ FlipCandle(c).high = MaxPrice + 1 - c.low /\ FlipCandle(c).low = MaxPrice + 1 - c.high
  BY FlippedCandle, Flips
<1>2. SlBuffer(FlipCandle(c), Opposite(d)) = SlBuffer(c, d)
  BY FlippedTests DEF SlBuffer, Extent
<1>3. SlBuffer(c, d) \in Int
  BY <1>1 DEF SlBuffer, Tail, Lesser, Greater
<1>4. d \in {"LONG", "SHORT"}
  BY DEF Directions
<1>5. QED
  BY <1>1, <1>2, <1>3, <1>4 DEF CalcSlPrice, Opposite

\* Where not both bands are touched, the touch is of the other one.
LEMMA FlippedTouch ==
  ASSUME NEW i \in EntryInputs, \E d \in Directions : ~Touches(i.candle, d, i.bb4)
  PROVE  /\ TouchDirection(i) \in Directions \cup {None}
         /\ TouchDirection(FlipEntry(i)) = FlipDir(TouchDirection(i))
<1> DEFINE Long == Touches(i.candle, "LONG", i.bb4)
           Short == Touches(i.candle, "SHORT", i.bb4)
<1>1. ~Long \/ ~Short
  BY DEF Directions
<1>2. /\ Touches(FlipEntry(i).candle, "SHORT", FlipEntry(i).bb4) <=> Long
      /\ Touches(FlipEntry(i).candle, "LONG", FlipEntry(i).bb4) <=> Short
  <2>1. "LONG" \in Directions /\ "SHORT" \in Directions /\ Opposite("LONG") = "SHORT" /\ Opposite("SHORT") = "LONG"
    BY DEF Directions, Opposite
  <2>2. QED
    BY <2>1, FlippedEntry, FlippedTests
<1>3. None \notin Directions
  BY NoneAssumption DEF Directions
<1>4. TouchDirection(i) = IF Long THEN "LONG" ELSE IF Short THEN "SHORT" ELSE None
  BY DEF TouchDirection
<1>5. TouchDirection(FlipEntry(i)) = IF Short THEN "LONG" ELSE IF Long THEN "SHORT" ELSE None
  BY <1>2 DEF TouchDirection
<1> HIDE DEF Long, Short
<1>6. QED
  BY <1>1, <1>3, <1>4, <1>5 DEF FlipDir, Opposite, Directions

LEMMA FlippedSlope ==
  ASSUME NEW s \in {None, "up", "flat", "down"}, NEW d \in Directions
  PROVE  SlopeFits(FlipSlope(s), Opposite(d)) <=> SlopeFits(s, d)
BY NoneAssumption DEF SlopeFits, FlipSlope, Opposite, Directions

LEMMA FlippedDoubleB ==
  ASSUME NEW i \in EntryInputs, NEW d \in Directions
  PROVE  DoubleB(FlipEntry(i), Opposite(d)) <=> DoubleB(i, d)
<1>1. CASE i.bb20 = None
  BY <1>1, FlippedEntry DEF DoubleB, FlipBand
<1>2. CASE i.bb20 # None
  <2>1. i.bb20 \in Bands
    BY <1>2, FlippedEntry
  <2>2. FlipBand(i.bb20) # None
    BY <2>1, FlippedBand
  <2>3. Touches(FlipCandle(i.candle), Opposite(d), FlipBand(i.bb20)) <=> Touches(i.candle, d, i.bb20)
    BY <2>1, FlippedEntry, FlippedTests
  <2>4. QED
    BY <1>2, <2>2, <2>3, FlippedEntry DEF DoubleB
<1>3. QED
  BY <1>1, <1>2

LEMMA FlippedGrade ==
  ASSUME NEW i \in EntryInputs, NEW d \in Directions
  PROVE  (FlipEntry(i).bb4_1h # None /\ Touches(FlipEntry(i).candle, Opposite(d), FlipEntry(i).bb4_1h))
           = (i.bb4_1h # None /\ Touches(i.candle, d, i.bb4_1h))
<1>1. CASE i.bb4_1h = None
  BY <1>1, FlippedEntry DEF FlipBand
<1>2. CASE i.bb4_1h # None
  <2>1. i.bb4_1h \in Bands
    BY <1>2, FlippedEntry
  <2>2. FlipBand(i.bb4_1h) # None
    BY <2>1, FlippedBand
  <2>3. Touches(FlipCandle(i.candle), Opposite(d), FlipBand(i.bb4_1h)) <=> Touches(i.candle, d, i.bb4_1h)
    BY <2>1, FlippedEntry, FlippedTests
  <2>4. QED
    BY <1>2, <2>2, <2>3, FlippedEntry
<1>3. QED
  BY <1>1, <1>2

LEMMA FlippedEvidence ==
  ASSUME NEW i \in EntryInputs, NEW w \in Directions, \E d \in Directions : ~Touches(i.candle, d, i.bb4)
  PROVE  CheckEvidence(FlipEntry(i), Opposite(w)) = FlipSignal(CheckEvidence(i, w))
<1> DEFINE j == FlipEntry(i)
           d == TouchDirection(i)
           Found == d # None /\ d = w /\ (DoubleB(i, d) \/ SlopeFits(i.slope, d))
           g == i.bb4_1h # None /\ Touches(i.candle, w, i.bb4_1h)
           h == j.bb4_1h # None /\ Touches(j.candle, Opposite(w), j.bb4_1h)
<1>1. d \in Directions \cup {None} /\ TouchDirection(j) = FlipDir(d) /\ None \notin Directions
  BY FlippedTouch, NoneAssumption DEF Directions
<1>2. Opposite(w) \in Directions /\ Opposite(Opposite(w)) = w /\ Opposite(w) # None
  BY <1>1, FlippedTests DEF Opposite, Directions
<1>3. CASE Found
  <2>1. d = w /\ TouchDirection(j) = Opposite(w)
    BY <1>1, <1>3 DEF FlipDir
  <2>2. DoubleB(j, Opposite(w)) \/ SlopeFits(j.slope, Opposite(w))
    BY <1>3, <2>1, FlippedDoubleB, FlippedSlope, FlippedEntry
  <2>3. CheckEvidence(i, w) = [dir |-> w, entry |-> 20 * i.candle.close, sl |-> CalcSlPrice(i.candle, w), aGrade |-> g]
    BY <1>3, <2>1 DEF CheckEvidence
  <2>4. CheckEvidence(j, Opposite(w))
          = [dir |-> Opposite(w), entry |-> 20 * j.candle.close, sl |-> CalcSlPrice(j.candle, Opposite(w)), aGrade |-> h]
    BY <1>2, <2>1, <2>2 DEF CheckEvidence
  <2>5. 20 * j.candle.close = 20 * (MaxPrice + 1) - 20 * i.candle.close
    BY FlippedEntry, FlippedCandle, Flips
  <2>6. CalcSlPrice(j.candle, Opposite(w)) = 20 * (MaxPrice + 1) - CalcSlPrice(i.candle, w)
    BY FlippedEntry, FlippedStop
  <2>7. h = g
    BY FlippedGrade
  <2>8. CheckEvidence(i, w) # NoSignal
    BY <1>1, <2>3 DEF NoSignal
  <2> HIDE DEF g, h, j
  <2>9. FlipSignal(CheckEvidence(i, w))
          = [dir |-> Opposite(w), entry |-> 20 * (MaxPrice + 1) - 20 * i.candle.close,
             sl |-> 20 * (MaxPrice + 1) - CalcSlPrice(i.candle, w), aGrade |-> g]
    BY <2>3, <2>8 DEF FlipSignal
  <2>10. QED
    BY <2>4, <2>5, <2>6, <2>7, <2>9 DEF j
<1>4. CASE ~Found
  <2>1. CheckEvidence(i, w) = NoSignal
    BY <1>4 DEF CheckEvidence
  <2>2. ~(TouchDirection(j) # None /\ TouchDirection(j) = Opposite(w)
          /\ (DoubleB(j, TouchDirection(j)) \/ SlopeFits(j.slope, TouchDirection(j))))
    <3> SUFFICES ASSUME TouchDirection(j) # None, TouchDirection(j) = Opposite(w),
                        DoubleB(j, Opposite(w)) \/ SlopeFits(j.slope, Opposite(w))
                 PROVE FALSE
      OBVIOUS
    <3>1. d = w
      BY <1>1, <1>2 DEF FlipDir, Opposite, Directions
    <3>2. DoubleB(i, w) \/ SlopeFits(i.slope, w)
      BY FlippedDoubleB, FlippedSlope, FlippedEntry
    <3>3. QED
      BY <1>1, <1>4, <3>1, <3>2
  <2>3. CheckEvidence(j, Opposite(w)) = NoSignal
    BY <2>2 DEF CheckEvidence
  <2>4. QED
    BY <2>1, <2>3 DEF FlipSignal
<1>5. QED
  BY <1>3, <1>4

LEMMA FlippedBox ==
  ASSUME NEW i \in EntryInputs PROVE BoxOk(FlipEntry(i)) <=> BoxOk(i)
<1>1. CASE i.bb20 = None
  BY <1>1, FlippedEntry DEF BoxOk, FlipBand
<1>2. CASE i.bb20 # None
  <2>1. /\ i.bb20 \in Bands /\ i.candle \in Candles /\ FlipEntry(i).bb20 = FlipBand(i.bb20)
        /\ FlipEntry(i).candle = FlipCandle(i.candle)
    BY <1>2, FlippedEntry
  <2>2. /\ FlipBand(i.bb20) # None /\ i.bb20.lower \in Int /\ i.bb20.upper \in Int
        /\ FlipBand(i.bb20).lower = MaxPrice + 1 - i.bb20.upper
        /\ FlipBand(i.bb20).upper = MaxPrice + 1 - i.bb20.lower
    BY <2>1, FlippedBand
  <2>3. /\ i.candle.close \in Int /\ MaxPrice \in Int
        /\ FlipCandle(i.candle).close = MaxPrice + 1 - i.candle.close
    BY <2>1, FlippedCandle, Flips
  <2>4. QED
    BY <1>2, <2>1, <2>2, <2>3 DEF BoxOk, Abs
<1>3. QED
  BY <1>1, <1>2

LEMMA FlippedNoise ==
  ASSUME NEW c \in Candles, NEW m \in SafetyInputs, m.sma20_5m # c.close, NEW b \in Biases
  PROVE  NoiseOk(FlipCandle(c), FlipMore(m), FlipBias(b)) <=> NoiseOk(c, m, b)
<1>1. CASE m.sma20_5m = None
  BY <1>1 DEF NoiseOk, FlipMore
<1>2. CASE m.sma20_5m # None
  <2>1. m.sma20_5m \in Prices
    BY <1>2 DEF SafetyInputs
  <2>2. /\ FlipMore(m).timeframe = m.timeframe /\ FlipMore(m).sma20_5m = Flip(m.sma20_5m)
        /\ FlipMore(m).sma20_5m # None
    BY <1>2, <2>1, Flips, NoneAssumption DEF FlipMore, SafetyInputs
  <2>3. FlipCandle(c).close > FlipMore(m).sma20_5m <=> ~(c.close > m.sma20_5m)
    BY <2>1, <2>2, Flips, FlippedCandle
  <2>4. /\ b \in {"LONG_ONLY", "SHORT_ONLY", "NEUTRAL", None} /\ None \notin {"LONG_ONLY", "SHORT_ONLY", "NEUTRAL"}
    BY NoneAssumption DEF Biases
  <2>5. QED
    BY <1>2, <2>2, <2>3, <2>4 DEF NoiseOk, FlipBias
<1>3. QED
  BY <1>1, <1>2

LEMMA FlippedSafety ==
  ASSUME NEW i \in EntryInputs, NEW d \in Directions, NEW m \in SafetyInputs, NEW b \in Biases,
         m.sma20_5m # i.candle.close
  PROVE  CheckSafety(i, d, m, b) = CheckSafety(FlipEntry(i), Opposite(d), FlipMore(m), FlipBias(b))
<1> DEFINE c == i.candle
           k == FlipCandle(c)
<1>1. c \in Candles /\ FlipEntry(i).candle = k
  BY FlippedEntry
<1>2. FlipMore(m).timeframe = m.timeframe /\ FlipMore(m).ranges5 = m.ranges5
  BY DEF FlipMore, SafetyInputs
<1>3. /\ Follows(Opposite(d), FlipBias(b)) <=> Follows(d, b)
      /\ Tail(k, Opposite(d)) = Tail(c, d) /\ Extent(k) = Extent(c)
  BY <1>1, FlippedBias, FlippedTests
<1> HIDE DEF c, k
<1>4. WickOk(k, Opposite(d), FlipMore(m).timeframe, FlipBias(b)) <=> WickOk(c, d, m.timeframe, b)
  BY <1>2, <1>3 DEF WickOk
<1>5. CalmOk(k, Opposite(d), FlipMore(m), FlipBias(b)) <=> CalmOk(c, d, m, b)
  BY <1>2, <1>3 DEF CalmOk
<1>6. NoiseOk(k, FlipMore(m), FlipBias(b)) <=> NoiseOk(c, m, b)
  BY <1>1, FlippedNoise DEF c, k
<1>7. BoxOk(FlipEntry(i)) <=> BoxOk(i)
  BY FlippedBox
<1>8. CheckSafety(i, d, m, b) <=> CheckSafety(FlipEntry(i), Opposite(d), FlipMore(m), FlipBias(b))
  BY <1>1, <1>4, <1>5, <1>6, <1>7 DEF CheckSafety, c
<1>9. QED
  BY <1>8 DEF CheckSafety

-----------------------------------------------------------------------------
(* detectWatching upside down. *)

LEMMA FlippedHour ==
  ASSUME NEW i \in HourInputs
  PROVE  /\ i.candle \in Candles /\ i.bb4 \in Bands /\ i.levels \subseteq Prices
         /\ i.bb20 = None \/ i.bb20 \in EvenBands
         /\ FlipHour(i).candle = FlipCandle(i.candle)
         /\ FlipHour(i).bb20 = FlipBand(i.bb20) /\ FlipHour(i).bb4 = FlipBand(i.bb4)
         /\ FlipHour(i).expansion = i.expansion /\ FlipHour(i).atr = i.atr
         /\ FlipHour(i).levels = {Flip(l) : l \in i.levels}
         /\ FlipHour(i).bb20 = None <=> i.bb20 = None
<1>1. /\ i.candle \in Candles /\ i.bb4 \in Bands /\ i.levels \in SUBSET SRLevels
      /\ i.bb20 \in EvenBands \cup {None}
  BY DEF HourInputs
<1>2. /\ FlipHour(i).candle = FlipCandle(i.candle)
      /\ FlipHour(i).bb20 = FlipBand(i.bb20) /\ FlipHour(i).bb4 = FlipBand(i.bb4)
      /\ FlipHour(i).expansion = i.expansion /\ FlipHour(i).atr = i.atr
      /\ FlipHour(i).levels = {Flip(l) : l \in i.levels}
  BY DEF HourInputs, FlipHour
<1>3. i.levels \subseteq Prices
  BY <1>1, IndicatorAssumption DEF Prices
<1>4. FlipBand(i.bb20) = None <=> i.bb20 = None
  <2>1. CASE i.bb20 = None
    BY <2>1 DEF FlipBand
  <2>2. CASE i.bb20 \in EvenBands
    <3>1. i.bb20 \in Bands
      BY <2>2 DEF EvenBands
    <3>2. QED
      BY <3>1, FlippedBand
  <2>3. QED
    BY <1>1, <2>1, <2>2
<1>5. QED
  BY <1>1, <1>2, <1>3, <1>4

\* The first answer of two sets of which one has the opposite directions of the other.
LEMMA FlippedFirst ==
  ASSUME NEW S \in SUBSET Directions, NEW T \in SUBSET Directions,
         \A d \in Directions : Opposite(d) \in T <=> d \in S,
         ~("LONG" \in S /\ "SHORT" \in S)
  PROVE  First(T) = FlipDir(First(S)) /\ (T = {} <=> S = {})
<1>1. ("SHORT" \in T <=> "LONG" \in S) /\ ("LONG" \in T <=> "SHORT" \in S)
  BY DEF Directions, Opposite
<1>2. S \subseteq {"LONG", "SHORT"} /\ T \subseteq {"LONG", "SHORT"} /\ None \notin {"LONG", "SHORT"}
  BY NoneAssumption DEF Directions
<1>3. QED
  BY <1>1, <1>2 DEF First, FlipDir, Opposite, Directions

LEMMA FlippedBreakout ==
  ASSUME NEW i \in HourInputs, NEW b \in Biases
  PROVE  /\ \A d \in Directions : Opposite(d) \in SqueezeBreakout(FlipHour(i), FlipBias(b)) <=> d \in SqueezeBreakout(i, b)
         /\ ~("LONG" \in SqueezeBreakout(i, b) /\ "SHORT" \in SqueezeBreakout(i, b))
<1>1. CASE i.bb20 = None
  BY <1>1, FlippedHour DEF SqueezeBreakout
<1>2. CASE i.bb20 \in EvenBands
  <2>1. i.bb20 \in Bands /\ i.candle \in Candles
    BY <1>2, FlippedHour DEF EvenBands
  <2>2. ASSUME NEW d \in Directions
        PROVE  Opposite(d) \in SqueezeBreakout(FlipHour(i), FlipBias(b)) <=> d \in SqueezeBreakout(i, b)
    <3> DEFINE j == FlipHour(i)
               c == i.candle
               k == FlipCandle(c)
    <3>1. /\ Opposite(d) \in Directions /\ Opposite(Opposite(d)) = d
          /\ Beyond(k.close, Opposite(Opposite(d)), FlipBand(i.bb20)) <=> Beyond(c.close, Opposite(d), i.bb20)
          /\ FarWick(k, Opposite(d)) = FarWick(c, d) /\ k.high - k.low = c.high - c.low
          /\ k.high = k.low <=> c.high = c.low
      BY <2>1, FlippedTests DEF Extent
    <3>2. /\ j.candle = k /\ j.bb20 = FlipBand(i.bb20) /\ j.expansion = i.expansion
          /\ j.bb20 # None /\ i.bb20 # None
      BY <2>1, FlippedHour, FlippedBand
    <3>3. IsDirectionAllowed(Opposite(d), FlipBias(b)) <=> IsDirectionAllowed(d, b)
      BY FlippedBias
    <3> HIDE DEF j, k
    <3>4. QED
      BY <3>1, <3>2, <3>3 DEF SqueezeBreakout, j
  <2>3. i.candle.close \in Int /\ i.bb20.lower \in Int /\ i.bb20.upper \in Int /\ i.bb20.lower < i.bb20.upper
    BY <2>1, FlippedCandle, FlippedBand
  <2>4. ~("LONG" \in SqueezeBreakout(i, b) /\ "SHORT" \in SqueezeBreakout(i, b))
    BY <2>3 DEF SqueezeBreakout, Beyond, Opposite
  <2>5. QED
    BY <2>2, <2>4
<1>3. QED
  BY <1>1, <1>2, FlippedHour

LEMMA FlippedBB4Touch ==
  ASSUME NEW i \in HourInputs, NEW b \in Biases
  PROVE  /\ \A d \in Directions : Opposite(d) \in BB4Touch(FlipHour(i), FlipBias(b)) <=> d \in BB4Touch(i, b)
         /\ ~("LONG" \in BB4Touch(i, b) /\ "SHORT" \in BB4Touch(i, b))
<1> DEFINE j == FlipHour(i)
<1>1. /\ i.candle.close \in Int /\ i.bb4.lower \in Int /\ i.bb4.upper \in Int /\ i.bb4.lower < i.bb4.upper
      /\ j.candle.close = MaxPrice + 1 - i.candle.close /\ MaxPrice \in Int
      /\ j.bb4.lower = MaxPrice + 1 - i.bb4.upper /\ j.bb4.upper = MaxPrice + 1 - i.bb4.lower
      /\ j.bb20 = None <=> i.bb20 = None
  BY FlippedHour, FlippedCandle, FlippedBand, Flips
<1>2. \A d \in Directions : IsDirectionAllowed(Opposite(d), FlipBias(b)) <=> IsDirectionAllowed(d, b)
  BY FlippedBias
<1> HIDE DEF j
<1>3. \A d \in Directions : Opposite(d) \in BB4Touch(j, FlipBias(b)) <=> d \in BB4Touch(i, b)
  BY <1>1, <1>2 DEF BB4Touch, Opposite, Directions
<1>4. ~("LONG" \in BB4Touch(i, b) /\ "SHORT" \in BB4Touch(i, b))
  BY <1>1 DEF BB4Touch
<1>5. QED
  BY <1>3, <1>4 DEF j

\* A set of prices, and what its members are above a close, upside down.
LEMMA FlippedSum ==
  ASSUME NEW x \in Prices, NEW S \in SUBSET Prices, NEW R,
         \A p \in S : Flip(p) \in R, \A q \in R : \E p \in S : q = Flip(p)
  PROVE  /\ Cardinality(R) = Cardinality(S)
         /\ SumFunctionOnSet([p \in Prices |-> p - x], S) \in Int
         /\ SumFunctionOnSet([p \in Prices |-> p - Flip(x)], R) = -SumFunctionOnSet([p \in Prices |-> p - x], S)
<1> DEFINE h == [p \in Prices |-> Flip(p)]
           f == [p \in Prices |-> p - x]
           g == [p \in Prices |-> x - p]
           k == [p \in Prices |-> p - Flip(x)]
<1>1. IsFiniteSet(S)
  <2>1. IsFiniteSet(Prices)
    BY PriceAssumption, FS_Interval DEF Prices
  <2>2. QED
    BY <2>1, FS_Subset
<1>2. /\ \A p \in S : h[p] = Flip(p) /\ f[p] = p - x /\ g[p] = x - p
      /\ \A q \in Prices : k[q] = q - Flip(x)
  OBVIOUS
<1>3. \A p \in S : p \in Int /\ Flip(p) \in Prices /\ Flip(p) = MaxPrice + 1 - p
  BY Flips
<1>4. x \in Int /\ Flip(x) = MaxPrice + 1 - x /\ MaxPrice \in Int
  BY Flips
<1> HIDE DEF h, f, g, k
<1>5. \A p, q \in S : h[p] = h[q] => p = q
  BY <1>2, <1>3, <1>4
<1>6. Pairs(h, S, R)
  BY <1>2, <1>5 DEF Pairs
<1>7. \A p \in S : g[p] \in Int /\ k[h[p]] = g[p] /\ f[p] \in Int /\ g[p] = -f[p]
  BY <1>2, <1>3, <1>4
<1>8. Cardinality(R) = Cardinality(S)
  BY <1>1, <1>6, ImageFinite
<1>9. SumFunctionOnSet(k, R) = SumFunctionOnSet(g, S)
  <2>1. \A p \in S : g[p] \in Int /\ k[h[p]] = g[p]
    BY <1>7
  <2>2. QED
    BY <1>1, <1>6, <2>1, SumImage
<1>10. SumFunctionOnSet(g, S) = -SumFunctionOnSet(f, S) /\ SumFunctionOnSet(f, S) \in Int
  BY <1>1, <1>7, SumNegate, SumInt
<1>11. QED
  BY <1>8, <1>9, <1>10 DEF f, k

\* The SMA20, where it counts among the near levels.
NearSma(i) == {Sma20(i)} \cap {p \in Prices : 10 * Abs(i.candle.close - p) < 3 * i.atr}

LEMMA FlippedNear ==
  ASSUME NEW i \in HourInputs, i.bb20 # None, i.atr # None
  PROVE  /\ \A p \in NearLevels(i) : Flip(p) \in NearLevels(FlipHour(i))
         /\ \A q \in NearLevels(FlipHour(i)) : \E p \in NearLevels(i) : q = Flip(p)
         /\ \A p \in NearSma(i) : Flip(p) \in NearSma(FlipHour(i))
         /\ \A q \in NearSma(FlipHour(i)) : \E p \in NearSma(i) : q = Flip(p)
<1> DEFINE j == FlipHour(i)
           Near(p) == 10 * Abs(i.candle.close - p) < 3 * i.atr
           FarNear(p) == 10 * Abs(j.candle.close - p) < 3 * j.atr
<1>1. /\ i.candle \in Candles /\ i.levels \subseteq Prices /\ i.bb20 \in EvenBands
      /\ j.candle = FlipCandle(i.candle) /\ j.atr = i.atr /\ j.bb20 = FlipBand(i.bb20)
      /\ j.levels = {Flip(l) : l \in i.levels}
  BY FlippedHour
<1>2. /\ i.candle.close \in Int /\ j.candle.close = MaxPrice + 1 - i.candle.close /\ MaxPrice \in Int
  BY <1>1, FlippedCandle, Flips
<1>3. \A p \in Prices : FarNear(Flip(p)) <=> Near(p)
  BY <1>1, <1>2, Flips DEF Abs
<1>4. Sma20(i) \in Prices /\ Sma20(j) = Flip(Sma20(i))
  <2>1. /\ i.bb20.lower \in Prices /\ i.bb20.upper \in Prices /\ i.bb20.lower < i.bb20.upper
        /\ (i.bb20.lower + i.bb20.upper) % 2 = 0
        /\ j.bb20.lower = MaxPrice + 1 - i.bb20.upper /\ j.bb20.upper = MaxPrice + 1 - i.bb20.lower
    BY <1>1, FlippedBand DEF EvenBands, Bands
  <2>2. QED
    BY <1>2, <2>1 DEF Sma20, Flip, Prices
<1>5. /\ \A p : p \in NearLevels(i) <=> p \in i.levels /\ Near(p)
      /\ \A q : q \in NearLevels(j) <=> q \in j.levels /\ FarNear(q)
      /\ \A p : p \in NearSma(i) <=> p = Sma20(i) /\ p \in Prices /\ Near(p)
      /\ \A q : q \in NearSma(j) <=> q = Sma20(j) /\ q \in Prices /\ FarNear(q)
  BY DEF NearLevels, NearSma
<1> HIDE DEF j, Near, FarNear
<1>6. /\ \A p \in NearLevels(i) : Flip(p) \in NearLevels(j)
      /\ \A q \in NearLevels(j) : \E p \in NearLevels(i) : q = Flip(p)
  BY <1>1, <1>3, <1>5
<1>7. /\ \A p \in NearSma(i) : Flip(p) \in NearSma(j)
      /\ \A q \in NearSma(j) : \E p \in NearSma(i) : q = Flip(p)
  BY <1>3, <1>4, <1>5, Flips
<1>8. QED
  BY <1>6, <1>7 DEF j

LEMMA FlippedSurplus ==
  ASSUME NEW i \in HourInputs, i.bb20 # None, i.atr # None
  PROVE  /\ Surplus(FlipHour(i)).count = Surplus(i).count
         /\ Surplus(FlipHour(i)).sum = -Surplus(i).sum /\ Surplus(i).sum \in Int
<1> DEFINE j == FlipHour(i)
           x == i.candle.close
           y == Flip(x)
           Above(p, S) == SumFunctionOnSet([q \in Prices |-> q - p], S)
<1>1. /\ Surplus(i).count = Cardinality(NearSma(i)) + Cardinality(NearLevels(i))
      /\ Surplus(j).count = Cardinality(NearSma(j)) + Cardinality(NearLevels(j))
      /\ Surplus(i).sum = Above(x, NearSma(i)) + Above(x, NearLevels(i))
      /\ Surplus(j).sum = Above(j.candle.close, NearSma(j)) + Above(j.candle.close, NearLevels(j))
  BY DEF Surplus, NearSma
<1>2. x \in Prices /\ j.candle.close = y
  BY FlippedHour, FlippedCandle, Flips DEF Candles
<1>3. NearSma(i) \in SUBSET Prices /\ NearLevels(i) \in SUBSET Prices
  BY FlippedHour DEF NearSma, NearLevels
<1>4. /\ Cardinality(NearLevels(j)) = Cardinality(NearLevels(i))
      /\ Above(x, NearLevels(i)) \in Int /\ Above(y, NearLevels(j)) = -Above(x, NearLevels(i))
  <2>1. \A p \in NearLevels(i) : Flip(p) \in NearLevels(j)
    BY FlippedNear
  <2>2. \A q \in NearLevels(j) : \E p \in NearLevels(i) : q = Flip(p)
    BY FlippedNear
  <2> HIDE DEF j, x
  <2>3. QED
    BY <1>2, <1>3, <2>1, <2>2, FlippedSum
<1>5. /\ Cardinality(NearSma(j)) = Cardinality(NearSma(i))
      /\ Above(x, NearSma(i)) \in Int /\ Above(y, NearSma(j)) = -Above(x, NearSma(i))
  <2>1. \A p \in NearSma(i) : Flip(p) \in NearSma(j)
    BY FlippedNear
  <2>2. \A q \in NearSma(j) : \E p \in NearSma(i) : q = Flip(p)
    BY FlippedNear
  <2> HIDE DEF j, x
  <2>3. QED
    BY <1>2, <1>3, <2>1, <2>2, FlippedSum
<1> HIDE DEF j, x, y, Above
<1>6. QED
  BY <1>1, <1>2, <1>4, <1>5 DEF j

LEMMA FlippedConfluence ==
  ASSUME NEW i \in HourInputs, NEW b \in Biases,
         i.atr = None \/ i.bb20 = None \/ Surplus(i).sum # 0
  PROVE  /\ \A d \in Directions : Opposite(d) \in SRConfluence(FlipHour(i), FlipBias(b)) <=> d \in SRConfluence(i, b)
         /\ ~("LONG" \in SRConfluence(i, b) /\ "SHORT" \in SRConfluence(i, b))
<1>1. CASE i.atr = None \/ i.bb20 = None
  BY <1>1, FlippedHour DEF SRConfluence
<1>2. CASE i.atr # None /\ i.bb20 # None
  <2> DEFINE j == FlipHour(i)
  <2>1. /\ j.atr # None /\ j.bb20 # None /\ Surplus(j).count = Surplus(i).count
        /\ Surplus(j).sum = -Surplus(i).sum /\ Surplus(i).sum \in Int /\ Surplus(i).sum # 0
    BY <1>2, FlippedHour, FlippedSurplus
  <2>2. \A d \in Directions : IsDirectionAllowed(Opposite(d), FlipBias(b)) <=> IsDirectionAllowed(d, b)
    BY FlippedBias
  <2> HIDE DEF j
  <2>3. \A d \in Directions : Opposite(d) = (IF Surplus(j).sum > 0 THEN "SHORT" ELSE "LONG")
                                <=> d = (IF Surplus(i).sum > 0 THEN "SHORT" ELSE "LONG")
    BY <2>1 DEF Opposite, Directions
  <2>4. \A d \in Directions : Opposite(d) \in Directions
    BY DEF Opposite, Directions
  <2>5. \A d \in Directions : Opposite(d) \in SRConfluence(j, FlipBias(b)) <=> d \in SRConfluence(i, b)
    BY <1>2, <2>1, <2>2, <2>3, <2>4 DEF SRConfluence
  <2>6. ~("LONG" \in SRConfluence(i, b) /\ "SHORT" \in SRConfluence(i, b))
    BY DEF SRConfluence
  <2>7. QED
    BY <2>5, <2>6 DEF j
<1>3. QED
  BY <1>1, <1>2

LEMMA FlippedDetection ==
  ASSUME NEW i \in HourInputs, NEW b \in Biases,
         i.atr = None \/ i.bb20 = None \/ Surplus(i).sum # 0
  PROVE  DetectWatching(FlipHour(i), FlipBias(b)) = FlipDir(DetectWatching(i, b))
<1> DEFINE j == FlipHour(i)
           c == FlipBias(b)
<1>1. /\ First(SqueezeBreakout(j, c)) = FlipDir(First(SqueezeBreakout(i, b)))
      /\ SqueezeBreakout(j, c) = {} <=> SqueezeBreakout(i, b) = {}
  <2>1. SqueezeBreakout(j, c) \in SUBSET Directions /\ SqueezeBreakout(i, b) \in SUBSET Directions
    BY DEF SqueezeBreakout
  <2>2. QED
    BY <2>1, FlippedBreakout, FlippedFirst
<1>2. /\ First(SRConfluence(j, c)) = FlipDir(First(SRConfluence(i, b)))
      /\ SRConfluence(j, c) = {} <=> SRConfluence(i, b) = {}
  <2>1. SRConfluence(j, c) \in SUBSET Directions /\ SRConfluence(i, b) \in SUBSET Directions
    BY DEF SRConfluence
  <2>2. QED
    BY <2>1, FlippedConfluence, FlippedFirst
<1>3. First(BB4Touch(j, c)) = FlipDir(First(BB4Touch(i, b)))
  <2>1. BB4Touch(j, c) \in SUBSET Directions /\ BB4Touch(i, b) \in SUBSET Directions
    BY DEF BB4Touch
  <2>2. QED
    BY <2>1, FlippedBB4Touch, FlippedFirst
<1> HIDE DEF j, c
<1>4. DetectWatching(j, c) = FlipDir(DetectWatching(i, b))
  BY <1>1, <1>2, <1>3 DEF DetectWatching
<1>5. QED
  BY <1>4 DEF j, c

-----------------------------------------------------------------------------
\* The daily bias, detectWatching, checkEvidence and checkSafety treat LONG and SHORT alike,
\* on any price grid and for any levels (signals/watching.ts detectWatching,
\* signals/evidence-gate.ts, signals/safety-gate.ts, filters/daily-direction.ts).
THEOREM SignalsMirrorFair == SignalSpec => []MirrorFair
<1>1. SignalInv => MirrorFair
  <2> SUFFICES ASSUME SignalInv PROVE MirrorFair
    OBVIOUS
  <2>1. bias \in Biases
    BY DEF SignalInv, SignalTyped
  <2>2. \A open, close \in Prices, slope \in -1..1 :
          DetermineDailyBias(Flip(close), Flip(open), -slope) = FlipBias(DetermineDailyBias(close, open, slope))
    BY FlippedDailyBias
  <2>3. ASSUME NEW i \in HourInputs, i.atr = None \/ i.bb20 = None \/ Surplus(i).sum # 0
        PROVE  DetectWatching(FlipHour(i), FlipBias(bias)) = FlipDir(DetectWatching(i, bias))
    BY <2>1, <2>3, FlippedDetection
  <2>4. ASSUME session # None PROVE session \in Directions
    BY <2>4 DEF SignalInv, SignalTyped
  <2>5. ASSUME NEW d \in Directions, NEW i \in EntryInputs, \E x \in Directions : ~Touches(i.candle, x, i.bb4)
        PROVE  CheckEvidence(FlipEntry(i), Opposite(d)) = FlipSignal(CheckEvidence(i, d))
    BY <2>5, FlippedEvidence
  <2>6. ASSUME NEW d \in Directions, NEW i \in EntryInputs,
               NEW more \in SafetyInputs, more.sma20_5m # i.candle.close
        PROVE  CheckSafety(i, d, more, bias)
                 = CheckSafety(FlipEntry(i), Opposite(d), FlipMore(more), FlipBias(bias))
    BY <2>1, <2>6, FlippedSafety
  <2> HIDE DEF SignalInv
  <2>7. QED
    BY <2>2, <2>3, <2>4, <2>5, <2>6 DEF MirrorFair
<1> HIDE DEF SignalInv, SignalInit, SignalNext, signalVars, MirrorFair
<1>2. QED
  BY <1>1, SignalInvHolds, PTL

-----------------------------------------------------------------------------
(***************************************************************************)
(* Limits, for any instants, symbols, streams, releases and limits.        *)
(***************************************************************************)
(***************************************************************************)
(* Every event the calendar vouched for has its window in the table, or    *)
(* the window of its whole day.                                            *)
(***************************************************************************)
KnownBlocked ==
  /\ now \in Nat /\ known \subseteq Releases
  /\ \A e \in known : EconomicBlock(e) \in oneTime \/ FallbackBlock(UtcDateKey(e.at)) \in oneTime

Counts == [today : Nat, h5 : Nat, h1 : Nat]
Columns == [today : Nat, session : Nat, h5 : Nat, h1 : Nat]

\* The columns, the resets remembered and the resets on their way.
Typed ==
  /\ now \in Nat
  /\ row \in [Symbols -> Columns]
  /\ real \in [Symbols -> Counts] /\ settled \in [Symbols -> Counts] /\ wiped \in [Symbols -> Counts]
  /\ last \in [Symbols -> [daily : Nat, hourly : Nat]]
  /\ \A s \in Symbols : last[s].daily <= now /\ last[s].hourly <= now
  /\ task = [st \in Streams |-> task[st]]
  /\ \A st \in Streams : task[st].at = "reset" => task[st].time \in Nat /\ task[st].time <= now

(***************************************************************************)
(* A loss is settled once its day's reset has been made and none is on its *)
(* way; from then on the remembered reset is today's, so that a candle of  *)
(* the same day asks for no other.  Of a counter c: all the losses, those  *)
(* that were taken back, those that are settled, whether its reset is      *)
(* remembered and whether one is pending.                                  *)
(***************************************************************************)
Kept(c, all, back, firm, made, pending) ==
  /\ firm <= c
  /\ firm > 0 => made /\ ~pending
  /\ back <= all /\ all - back <= c
  /\ made => c = all - back

DayCounted(s) ==
  Kept(row[s].today, real[s].today, wiped[s].today, settled[s].today, DayReset(s), Pending(s, "daily"))

HourCounted(s) ==
  /\ Kept(row[s].h5, real[s].h5, wiped[s].h5, settled[s].h5, HourReset(s), Pending(s, "hourly"))
  /\ Kept(row[s].h1, real[s].h1, wiped[s].h1, settled[s].h1, HourReset(s), Pending(s, "hourly"))

CountInv == Typed /\ \A s \in Symbols : DayCounted(s) /\ HourCounted(s)

-----------------------------------------------------------------------------
(* The seeded windows. *)

\* The market openings, whichever of the four, at any time of any day.
LEMMA MarketWindows ==
  ASSUME NEW t \in Nat, NEW rule \in MarketOpens, ~InMarketOpenWindow(rule, t)
  PROVE  (t - rule[1]) % Day >= rule[2]
<1>1. rule[1] \in {0, 28, 54, 58} /\ rule[2] = 8
  BY DEF MarketOpens
<1>2. ASSUME NEW x \in {0, 28, 54, 58}, ~(t % 96 >= x /\ t % 96 < x + 8)
      PROVE  (t - x) % 96 >= 8
  <2>1. CASE x = 0
    BY <1>2, <2>1
  <2>2. CASE x = 28
    BY <1>2, <2>2
  <2>3. CASE x = 54
    BY <1>2, <2>3
  <2>4. CASE x = 58
    BY <1>2, <2>4
  <2>5. QED
    BY <1>2, <2>1, <2>2, <2>3, <2>4
<1>3. ~(t % 96 >= rule[1] /\ t % 96 < rule[1] + 8)
  BY <1>1 DEF InMarketOpenWindow, Day
<1>4. QED
  BY <1>1, <1>2, <1>3 DEF Day

\* The funding hours, the one at midnight with its window on both days.
LEMMA FundingWindows ==
  ASSUME NEW t \in Nat, NEW center \in FundingHours, ~InFundingWindow(center, t)
  PROVE  Distance(center, t) \notin -HalfFunding..(HalfFunding - 1)
<1> USE DEF InFundingWindow, Distance, HalfFunding, Day
<1>1. CASE center = 0
  BY <1>1
<1>2. CASE center = 32
  BY <1>2
<1>3. CASE center = 64
  BY <1>3
<1>4. QED
  BY <1>1, <1>2, <1>3 DEF FundingHours

LEMMA SeededWindows ==
  ASSUME NEW t \in Nat, ~MatchesRecurrenceRule(t) PROVE WindowsHold(t)
BY MarketWindows, FundingWindows DEF MatchesRecurrenceRule, WindowsHold

-----------------------------------------------------------------------------
(* The calendar. *)

LEMMA KnownStep == ASSUME KnownBlocked, [LimitNext]_limitVars PROVE KnownBlocked'
<1> USE DEF KnownBlocked
<1>1. CASE RunCalendar
  <2>1. UNCHANGED now /\ oneTime \subseteq oneTime'
    BY <1>1 DEF RunCalendar
  <2>2. \A e \in ParsedEvents(UtcDateKey(now)) : e \in Releases /\ UtcDateKey(e.at) = UtcDateKey(now)
    BY DEF ParsedEvents
  <2>3. ASSUME NEW e \in known', e \notin known
        PROVE  /\ e \in Releases
               /\ EconomicBlock(e) \in oneTime' \/ FallbackBlock(UtcDateKey(e.at)) \in oneTime'
    <3>1. e \in ParsedEvents(UtcDateKey(now))
      BY <1>1, <2>3 DEF RunCalendar
    <3>2. \/ FallbackBlock(UtcDateKey(now)) \in oneTime'
          \/ EconomicBlock(e) \in oneTime'
      BY <1>1, <2>3, <3>1 DEF RunCalendar
    <3>3. QED
      BY <2>2, <3>1, <3>2
  <2>4. QED
    BY <2>1, <2>3
<1>2. CASE Tick
  BY <1>2, ClockAssumption DEF Tick
<1>3. CASE ~RunCalendar /\ ~Tick
  <2>1. UNCHANGED <<now, oneTime, known>>
    BY <1>3 DEF LimitNext, RecordLoss, CandleCloses, ResetsLand, ResetsFail, Blocked, Unblocked, GetSymbolState,
       PassLimits, Quits, limitVars
  <2>2. QED
    BY <2>1
<1>4. QED
  BY <1>1, <1>2, <1>3

\* Outside every block, an event of the day is more than two hours away.
LEMMA Unblocks ==
  ASSUME KnownBlocked, ~IsTradeBlocked(now)
  PROVE  /\ WindowsHold(now)
         /\ \A e \in known : UtcDateKey(e.at) = UtcDateKey(now) => e.at - now \notin -BlockSpan..BlockSpan
<1>1. WindowsHold(now)
  BY SeededWindows DEF IsTradeBlocked, KnownBlocked
<1>2. ASSUME NEW e \in known, UtcDateKey(e.at) = UtcDateKey(now)
      PROVE  e.at - now \notin -BlockSpan..BlockSpan
  <2>1. now \in Nat /\ e.at \in Nat
    BY ReleaseAssumption DEF KnownBlocked
  <2>2. FallbackBlock(UtcDateKey(e.at)) \notin oneTime
    BY <1>2, <2>1 DEF IsTradeBlocked, FallbackBlock, UtcDateKey, Day
  <2>3. EconomicBlock(e) \in oneTime
    BY <2>2 DEF KnownBlocked
  <2>4. ~(e.at - 8 <= now /\ now <= e.at + 8)
    BY <2>3 DEF IsTradeBlocked, EconomicBlock, BlockSpan
  <2>5. QED
    BY <2>1, <2>4 DEF BlockSpan
<1>3. QED
  BY <1>1, <1>2

\* The block check lets nobody through in a seeded window or within two hours
\* of an event, on any day and whatever failed (trade-block.ts isTradeBlocked,
\* economic-calendar.ts runDailyEconomicCalendar).
THEOREM LimitsBlocksHold == LimitSpec => []BlocksHold
<1>1. LimitInit => KnownBlocked
  BY DEF LimitInit, KnownBlocked
<1>2. KnownBlocked /\ [LimitNext]_limitVars => KnownBlocked'
  BY KnownStep
<1>3. KnownBlocked => BlocksHold
  BY Unblocks DEF BlocksHold, Open
<1> HIDE DEF KnownBlocked, LimitInit, LimitNext, limitVars, BlocksHold
<1>4. QED
  BY <1>1, <1>2, <1>3, PTL DEF LimitSpec

-----------------------------------------------------------------------------
(* The counters. *)

LEMMA StreamsTyped ==
  /\ \A st \in Streams : st[1] \in Symbols
  /\ \A st \in Losing : st[1] \in Symbols /\ st[2] \in {"5M", "1M"}
BY StreamAssumption

\* Days and hours follow each other.
LEMMA KeysGrow ==
  ASSUME NEW x \in Nat, NEW y \in Nat, NEW z \in Nat, x <= y, y < z
  PROVE  /\ z \div 96 # y \div 96 => z \div 96 # x \div 96
         /\ z \div 4 # y \div 4 => z \div 4 # x \div 4
<1>1. x \div 96 <= y \div 96 /\ y \div 96 <= z \div 96
  OBVIOUS
<1>2. x \div 4 <= y \div 4 /\ y \div 4 <= z \div 4
  OBVIOUS
<1>3. QED
  BY <1>1, <1>2

LEMMA TickStep == ASSUME CountInv, Tick PROVE CountInv'
<1> USE DEF CountInv
<1>1. /\ now' \in Nat /\ now < now' /\ now \in Nat
      /\ UNCHANGED <<row, last, task>>
      /\ real' = [s \in Symbols |-> Aged(real[s], now')]
      /\ settled' = [s \in Symbols |-> Aged(settled[s], now')]
      /\ wiped' = [s \in Symbols |-> Aged(wiped[s], now')]
  BY ClockAssumption DEF Tick, Typed
<1>2. \A l \in Counts : Aged(l, now') \in Counts
  BY DEF Aged, Counts
<1>3. Typed'
  <2>1. real' \in [Symbols -> Counts] /\ settled' \in [Symbols -> Counts] /\ wiped' \in [Symbols -> Counts]
    BY <1>1, <1>2 DEF Typed
  <2>2. \A s \in Symbols : last[s].daily \in Nat /\ last[s].hourly \in Nat
    BY DEF Typed
  <2>3. QED
    BY <1>1, <2>1, <2>2 DEF Typed
<1>4. ASSUME NEW s \in Symbols PROVE DayCounted(s)' /\ HourCounted(s)'
  <2>1. /\ last[s].daily \in Nat /\ last[s].hourly \in Nat
        /\ last[s].daily <= now /\ last[s].hourly <= now
        /\ row[s].today \in Nat /\ row[s].h5 \in Nat /\ row[s].h1 \in Nat
        /\ settled[s] \in Counts /\ real[s] \in Counts /\ wiped[s] \in Counts
    BY DEF Typed, Columns
  <2>2. \A name : Pending(s, name)' <=> Pending(s, name)
    BY <1>1 DEF Pending
  <2>3. /\ now' \div 96 # now \div 96 => now' \div 96 # last[s].daily \div 96
        /\ now' \div 4 # now \div 4 => now' \div 4 # last[s].hourly \div 4
    <3> DEFINE d == last[s].daily
               h == last[s].hourly
               y == now
               z == now'
    <3>1. d \in Nat /\ h \in Nat /\ y \in Nat /\ z \in Nat /\ d <= y /\ h <= y /\ y < z
      BY <1>1, <2>1
    <3> HIDE DEF d, h, y, z
    <3>2. z \div 96 # y \div 96 => z \div 96 # d \div 96
      BY <3>1, KeysGrow
    <3>3. z \div 4 # y \div 4 => z \div 4 # h \div 4
      BY <3>1, KeysGrow
    <3>4. QED
      BY <3>2, <3>3 DEF d, h, y, z
  <2>4. DayCounted(s)'
    <3>1. CASE now' \div 96 = now \div 96
      <4>1. settled'[s].today = settled[s].today /\ real'[s].today = real[s].today
            /\ wiped'[s].today = wiped[s].today
        BY <1>1, <3>1 DEF Aged, Day
      <4>2. DayReset(s)' <=> DayReset(s)
        BY <1>1, <3>1 DEF DayReset, UtcDateKey, Day
      <4>3. QED
        BY <1>1, <2>2, <4>1, <4>2 DEF DayCounted, Kept
    <3>2. CASE now' \div 96 # now \div 96
      <4>1. settled'[s].today = 0 /\ real'[s].today = 0 /\ wiped'[s].today = 0
        BY <1>1, <3>2 DEF Aged, Day
      <4>2. ~DayReset(s)'
        BY <1>1, <2>3, <3>2 DEF DayReset, UtcDateKey, Day
      <4>3. QED
        BY <1>1, <2>1, <4>1, <4>2 DEF DayCounted, Kept
    <3>3. QED
      BY <3>1, <3>2
  <2>5. HourCounted(s)'
    <3>1. CASE now' \div 4 = now \div 4
      <4>1. /\ settled'[s].h5 = settled[s].h5 /\ real'[s].h5 = real[s].h5 /\ wiped'[s].h5 = wiped[s].h5
            /\ settled'[s].h1 = settled[s].h1 /\ real'[s].h1 = real[s].h1 /\ wiped'[s].h1 = wiped[s].h1
        BY <1>1, <3>1 DEF Aged, Hour
      <4>2. HourReset(s)' <=> HourReset(s)
        BY <1>1, <3>1 DEF HourReset, UtcHourKey, Hour
      <4>3. QED
        BY <1>1, <2>2, <4>1, <4>2 DEF HourCounted, Kept
    <3>2. CASE now' \div 4 # now \div 4
      <4>1. /\ settled'[s].h5 = 0 /\ real'[s].h5 = 0 /\ wiped'[s].h5 = 0
            /\ settled'[s].h1 = 0 /\ real'[s].h1 = 0 /\ wiped'[s].h1 = 0
        BY <1>1, <3>2 DEF Aged, Hour
      <4>2. ~HourReset(s)'
        BY <1>1, <2>3, <3>2 DEF HourReset, UtcHourKey, Hour
      <4>3. QED
        BY <1>1, <2>1, <4>1, <4>2 DEF HourCounted, Kept
    <3>3. QED
      BY <3>1, <3>2
  <2>6. QED
    BY <2>4, <2>5
<1>5. QED
  BY <1>3, <1>4

\* What a loss of a 5M or of a 1M ticket adds, to a ghost and to a row.
LEMMA CountedValue ==
  ASSUME NEW l \in Counts, NEW tf
  PROVE  Counted(l, tf) = [today |-> l.today + 1,
                           h5 |-> l.h5 + (IF tf = "5M" THEN 1 ELSE 0),
                           h1 |-> l.h1 + (IF tf = "1M" THEN 1 ELSE 0)]
<1> DEFINE five == IF tf = "5M" THEN 1 ELSE 0
           one == IF tf = "1M" THEN 1 ELSE 0
<1>1. five \in Nat /\ one \in Nat /\ l \in [today : Nat, h5 : Nat, h1 : Nat]
  BY DEF Counts
<1>2. Counted(l, tf) = [l EXCEPT !.today = l.today + 1, !.h5 = l.h5 + five, !.h1 = l.h1 + one]
  BY DEF Counted
<1> HIDE DEF five, one
<1>3. Counted(l, tf) = [today |-> l.today + 1, h5 |-> l.h5 + five, h1 |-> l.h1 + one]
  BY <1>1, <1>2
<1>4. QED
  BY <1>3 DEF five, one

LEMMA LostValue ==
  ASSUME NEW l \in Columns, NEW tf
  PROVE  [Counted(l, tf) EXCEPT !.session = l.session + 1]
           = [today |-> l.today + 1, session |-> l.session + 1,
              h5 |-> l.h5 + (IF tf = "5M" THEN 1 ELSE 0),
              h1 |-> l.h1 + (IF tf = "1M" THEN 1 ELSE 0)]
<1> DEFINE five == IF tf = "5M" THEN 1 ELSE 0
           one == IF tf = "1M" THEN 1 ELSE 0
<1>1. five \in Nat /\ one \in Nat /\ l \in [today : Nat, session : Nat, h5 : Nat, h1 : Nat]
  BY DEF Columns
<1>2. Counted(l, tf) = [l EXCEPT !.today = l.today + 1, !.h5 = l.h5 + five, !.h1 = l.h1 + one]
  BY DEF Counted
<1> HIDE DEF five, one
<1>3. [Counted(l, tf) EXCEPT !.session = l.session + 1]
        = [today |-> l.today + 1, session |-> l.session + 1, h5 |-> l.h5 + five, h1 |-> l.h1 + one]
  <2>1. Counted(l, tf) = [today |-> l.today + 1, session |-> l.session, h5 |-> l.h5 + five, h1 |-> l.h1 + one]
    BY <1>1, <1>2
  <2>2. QED
    BY <2>1
<1>4. QED
  BY <1>3 DEF five, one

LEMMA RecordStep ==
  ASSUME CountInv, NEW st \in Losing, RecordLoss(st[1], st[2]) PROVE CountInv'
<1> USE DEF CountInv
<1> DEFINE s == st[1]
           five == IF st[2] = "5M" THEN 1 ELSE 0
           one == IF st[2] = "1M" THEN 1 ELSE 0
           r == [Counted(row[s], st[2]) EXCEPT !.session = row[s].session + 1]
           l == Counted(real[s], st[2])
           c == Counted(settled[s], st[2])
           k == SettledWith(s, settled[s], c)
<1>1. s \in Symbols /\ five \in Nat /\ one \in Nat
  BY StreamsTyped
<1>2. /\ row[s] \in Columns /\ real[s] \in Counts /\ settled[s] \in Counts /\ wiped[s] \in Counts
      /\ row[s].today \in Nat /\ row[s].session \in Nat /\ row[s].h5 \in Nat /\ row[s].h1 \in Nat
      /\ real[s].today \in Nat /\ real[s].h5 \in Nat /\ real[s].h1 \in Nat
      /\ settled[s].today \in Nat /\ settled[s].h5 \in Nat /\ settled[s].h1 \in Nat
      /\ wiped[s].today \in Nat /\ wiped[s].h5 \in Nat /\ wiped[s].h1 \in Nat
  <2>1. row[s] \in Columns /\ real[s] \in Counts /\ settled[s] \in Counts /\ wiped[s] \in Counts
    BY <1>1 DEF Typed
  <2>2. QED
    BY <2>1 DEF Counts, Columns
<1>3. /\ r = [today |-> row[s].today + 1, session |-> row[s].session + 1,
              h5 |-> row[s].h5 + five, h1 |-> row[s].h1 + one]
      /\ l = [today |-> real[s].today + 1, h5 |-> real[s].h5 + five, h1 |-> real[s].h1 + one]
      /\ c = [today |-> settled[s].today + 1, h5 |-> settled[s].h5 + five, h1 |-> settled[s].h1 + one]
  BY <1>2, CountedValue, LostValue
<1> DEFINE day == DayReset(s) /\ ~Pending(s, "daily")
           hour == HourReset(s) /\ ~Pending(s, "hourly")
<1>4. /\ k.today = IF day THEN settled[s].today + 1 ELSE settled[s].today
      /\ k.h5 = IF hour THEN settled[s].h5 + five ELSE settled[s].h5
      /\ k.h1 = IF hour THEN settled[s].h1 + one ELSE settled[s].h1
  <2> HIDE DEF c
  <2>1. k = [today |-> IF day THEN c.today ELSE settled[s].today,
             h5 |-> IF hour THEN c.h5 ELSE settled[s].h5, h1 |-> IF hour THEN c.h1 ELSE settled[s].h1]
    BY DEF SettledWith
  <2> HIDE DEF k, day, hour
  <2>2. QED
    BY <1>3, <2>1
<1>5. k = [today |-> k.today, h5 |-> k.h5, h1 |-> k.h1]
  BY DEF SettledWith
<1>6. /\ row' = [row EXCEPT ![s] = r] /\ real' = [real EXCEPT ![s] = l]
      /\ settled' = [settled EXCEPT ![s] = k]
      /\ UNCHANGED <<now, last, task, wiped>>
  <2>1. row' = [row EXCEPT ![s] = r]
    BY DEF RecordLoss
  <2>2. real' = [real EXCEPT ![s] = l]
    BY DEF RecordLoss
  <2>3. settled' = [settled EXCEPT ![s] = k]
    BY DEF RecordLoss
  <2>4. UNCHANGED <<now, last, task, wiped>>
    BY DEF RecordLoss
  <2>5. QED
    BY <2>1, <2>2, <2>3, <2>4
<1> HIDE DEF s, five, one, r, l, c, k, day, hour
<1>7. Typed'
  <2>1. r \in Columns /\ l \in Counts
    BY <1>1, <1>2, <1>3 DEF Counts, Columns
  <2>2. k.today \in Nat /\ k.h5 \in Nat /\ k.h1 \in Nat
    BY <1>1, <1>2, <1>4
  <2>3. k \in Counts
    BY <1>5, <2>2 DEF Counts
  <2>4. QED
    BY <1>1, <1>6, <2>1, <2>3 DEF Typed
<1>8. \A x \in Symbols : /\ DayReset(x)' <=> DayReset(x)
                         /\ HourReset(x)' <=> HourReset(x)
                         /\ \A name : Pending(x, name)' <=> Pending(x, name)
  BY <1>6 DEF Pending, DayReset, HourReset
<1>9. ASSUME NEW x \in Symbols, x # s PROVE DayCounted(x)' /\ HourCounted(x)'
  <2>1. row'[x] = row[x] /\ real'[x] = real[x] /\ settled'[x] = settled[x] /\ wiped'[x] = wiped[x]
    BY <1>1, <1>6, <1>9 DEF Typed
  <2>2. QED
    BY <1>8, <2>1 DEF DayCounted, HourCounted, Kept
<1>10. DayCounted(s)' /\ HourCounted(s)'
  <2>1. row'[s] = r /\ real'[s] = l /\ settled'[s] = k /\ wiped'[s] = wiped[s]
    BY <1>1, <1>6 DEF Typed
  <2>2. /\ r.today = row[s].today + 1 /\ r.h5 = row[s].h5 + five /\ r.h1 = row[s].h1 + one
        /\ l.today = real[s].today + 1 /\ l.h5 = real[s].h5 + five /\ l.h1 = real[s].h1 + one
    BY <1>3
  <2>3. DayCounted(s)'
    BY <1>1, <1>2, <1>4, <1>8, <2>1, <2>2 DEF DayCounted, Kept, day
  <2>4. HourCounted(s)'
    BY <1>1, <1>2, <1>4, <1>8, <2>1, <2>2 DEF HourCounted, Kept, hour
  <2>5. QED
    BY <2>3, <2>4
<1>11. QED
  BY <1>7, <1>9, <1>10

\* A candle of the day, and hour, whose reset has been made asks for no other.
LEMMA CloseStep ==
  ASSUME CountInv, NEW st \in Streams, CandleCloses(st) PROVE CountInv'
<1> USE DEF CountInv
<1> DEFINE w == [at |-> "reset", time |-> now, due |-> Expired(st[1], now),
                 seen |-> [real[st[1]] EXCEPT !.today = TodayOf(real)]]
<1>1. /\ task' = [task EXCEPT ![st] = w] /\ UNCHANGED <<now, row, last, real, settled, wiped>>
  BY DEF CandleCloses, Goes
<1>2. w.at = "reset" /\ w.time = now /\ w.due = Expired(st[1], now)
  OBVIOUS
<1> HIDE DEF w
<1>3. task'[st] = w /\ \A x \in Streams \ {st} : task'[x] = task[x]
  BY <1>1 DEF Typed
<1>4. Typed'
  <2>1. task' = [x \in Streams |-> task'[x]]
    BY <1>1 DEF Typed
  <2>2. \A x \in Streams : task'[x].at = "reset" => task'[x].time \in Nat /\ task'[x].time <= now
    BY <1>2, <1>3 DEF Typed
  <2>3. QED
    BY <1>1, <2>1, <2>2 DEF Typed
<1>5. ASSUME NEW s \in Symbols PROVE DayCounted(s)' /\ HourCounted(s)'
  <2>1. /\ DayReset(s) => (Pending(s, "daily")' => Pending(s, "daily"))
        /\ HourReset(s) => (Pending(s, "hourly")' => Pending(s, "hourly"))
    BY <1>2, <1>3 DEF Pending, Expired, DayReset, HourReset
  <2>2. (DayReset(s)' <=> DayReset(s)) /\ (HourReset(s)' <=> HourReset(s))
    BY <1>1 DEF DayReset, HourReset
  <2>3. QED
    BY <1>1, <2>1, <2>2 DEF DayCounted, HourCounted, Kept
<1>6. QED
  BY <1>4, <1>5

\* Resets land, all of those due or some: where one zeroes a counter, no settled loss
\* was counted in it.
LEMMA LandStep ==
  ASSUME CountInv, NEW st \in Streams, ResetsLand(st) \/ ResetsFail(st) PROVE CountInv'
<1> USE DEF CountInv
<1> DEFINE s == st[1]
           w == task[st]
<1>1. s \in Symbols /\ w.at = "reset" /\ w.time \in Nat /\ w.time <= now
  BY StreamsTyped DEF ResetsLand, ResetsFail, Typed
<1>2. PICK done \in SUBSET w.due :
        /\ Landed(s, done) /\ UNCHANGED <<now, real, settled>>
        /\ \/ last' = last
           \/ /\ done = w.due
              /\ last' = [last EXCEPT ![s] = [daily |-> IF "daily" \in w.due THEN w.time ELSE last[s].daily,
                                              hourly |-> IF "hourly" \in w.due THEN w.time ELSE last[s].hourly]]
  <2>1. CASE ResetsLand(st)
    <3>1. /\ Landed(s, w.due) /\ UNCHANGED <<now, real, settled>>
          /\ last' = [last EXCEPT ![s] = [daily |-> IF "daily" \in w.due THEN w.time ELSE last[s].daily,
                                          hourly |-> IF "hourly" \in w.due THEN w.time ELSE last[s].hourly]]
      BY <2>1 DEF ResetsLand
    <3>2. QED
      BY <3>1
  <2>2. CASE ResetsFail(st)
    BY <2>2 DEF ResetsFail
  <2>3. QED
    BY <2>1, <2>2
<1> DEFINE r == Reset(row[s], done)
           f == Forgotten(real[s], wiped[s], done)
           d == last'[s].daily
           h == last'[s].hourly
<1>3. task' = [task EXCEPT ![st] = task'[st]] /\ task'[st].at # "reset"
  <2>1. \/ task' = [task EXCEPT ![st] = Idle]
        \/ task' = [task EXCEPT ![st] = [at |-> "block", time |-> w.time, seen |-> w.seen]]
    BY DEF ResetsLand, ResetsFail, Goes
  <2>2. QED
    BY <2>1 DEF Typed, Idle
<1>4. /\ row' = [row EXCEPT ![s] = r] /\ wiped' = [wiped EXCEPT ![s] = f]
      /\ \A x \in Symbols : x # s => last'[x] = last[x]
      /\ last' \in [Symbols -> [daily : Nat, hourly : Nat]]
  BY <1>1, <1>2 DEF Landed, Typed
<1>5. /\ d = last[s].daily \/ (d = w.time /\ "daily" \in done)
      /\ h = last[s].hourly \/ (h = w.time /\ "hourly" \in done)
  BY <1>1, <1>2 DEF Typed
<1>6. /\ row[s].today \in Nat /\ row[s].session \in Nat /\ row[s].h5 \in Nat /\ row[s].h1 \in Nat
      /\ real[s].today \in Nat /\ real[s].h5 \in Nat /\ real[s].h1 \in Nat
      /\ settled[s].today \in Nat /\ settled[s].h5 \in Nat /\ settled[s].h1 \in Nat
      /\ wiped[s].today \in Nat /\ wiped[s].h5 \in Nat /\ wiped[s].h1 \in Nat
      /\ last[s].daily <= now /\ last[s].hourly <= now
  BY <1>1 DEF Typed, Counts, Columns
<1>7. /\ r \in Columns
      /\ r.today = IF "daily" \in done THEN 0 ELSE row[s].today
      /\ r.h5 = IF "hourly" \in done THEN 0 ELSE row[s].h5
      /\ r.h1 = IF "hourly" \in done THEN 0 ELSE row[s].h1
  BY <1>6 DEF Reset, Columns
<1>8. /\ f \in Counts
      /\ f.today = IF "daily" \in done THEN real[s].today ELSE wiped[s].today
      /\ f.h5 = IF "hourly" \in done THEN real[s].h5 ELSE wiped[s].h5
      /\ f.h1 = IF "hourly" \in done THEN real[s].h1 ELSE wiped[s].h1
  BY <1>6 DEF Forgotten, Counts
<1>9. \A name \in done : Pending(s, name)
  BY <1>1, <1>2 DEF Pending
<1> HIDE DEF r, f, s
<1>10. \A x \in Streams : x = st \/ task'[x] = task[x]
  BY <1>3 DEF Typed
<1>11. \A x \in Symbols : \A name : Pending(x, name)' => Pending(x, name)
  BY <1>3, <1>10 DEF Pending
<1>12. Typed'
  <2>1. task' = [x \in Streams |-> task'[x]]
    BY <1>3 DEF Typed
  <2>2. \A x \in Streams : task'[x].at = "reset" => task'[x].time \in Nat /\ task'[x].time <= now
    BY <1>3, <1>10 DEF Typed
  <2>3. row' \in [Symbols -> Columns] /\ wiped' \in [Symbols -> Counts]
    BY <1>1, <1>4, <1>7, <1>8 DEF Typed
  <2>4. \A x \in Symbols : last'[x].daily <= now /\ last'[x].hourly <= now
    BY <1>1, <1>4, <1>5, <1>6 DEF Typed
  <2>5. QED
    BY <1>2, <1>4, <2>1, <2>2, <2>3, <2>4 DEF Typed
<1>13. ASSUME NEW x \in Symbols, x # s PROVE DayCounted(x)' /\ HourCounted(x)'
  <2>1. row'[x] = row[x] /\ last'[x] = last[x] /\ wiped'[x] = wiped[x]
    BY <1>1, <1>4, <1>13 DEF Typed
  <2>2. (DayReset(x)' <=> DayReset(x)) /\ (HourReset(x)' <=> HourReset(x))
    BY <1>2, <2>1 DEF DayReset, HourReset
  <2>3. real'[x] = real[x] /\ settled'[x] = settled[x]
    BY <1>2
  <2>4. QED
    BY <1>11, <2>1, <2>2, <2>3 DEF DayCounted, HourCounted, Kept
<1>14. DayCounted(s)' /\ HourCounted(s)'
  <2>1. row'[s] = r /\ wiped'[s] = f /\ real'[s] = real[s] /\ settled'[s] = settled[s]
    BY <1>1, <1>2, <1>4 DEF Typed
  <2>2. /\ "daily" \notin done => (DayReset(s)' <=> DayReset(s))
        /\ "hourly" \notin done => (HourReset(s)' <=> HourReset(s))
    BY <1>2, <1>5 DEF DayReset, HourReset
  <2>3. DayCounted(s)'
    <3>1. CASE "daily" \in done
      <4>1. settled[s].today = 0
        BY <1>1, <1>6, <1>9, <3>1 DEF DayCounted, Kept
      <4>2. QED
        BY <1>6, <1>7, <1>8, <2>1, <3>1, <4>1 DEF DayCounted, Kept
    <3>2. CASE "daily" \notin done
      BY <1>1, <1>7, <1>8, <1>11, <2>1, <2>2, <3>2 DEF DayCounted, Kept
    <3>3. QED
      BY <3>1, <3>2
  <2>4. HourCounted(s)'
    <3>1. CASE "hourly" \in done
      <4>1. settled[s].h5 = 0 /\ settled[s].h1 = 0
        BY <1>1, <1>6, <1>9, <3>1 DEF HourCounted, Kept
      <4>2. QED
        BY <1>6, <1>7, <1>8, <2>1, <3>1, <4>1 DEF HourCounted, Kept
    <3>2. CASE "hourly" \notin done
      BY <1>1, <1>7, <1>8, <1>11, <2>1, <2>2, <3>2 DEF HourCounted, Kept
    <3>3. QED
      BY <3>1, <3>2
  <2>5. QED
    BY <2>3, <2>4
<1>15. QED
  BY <1>12, <1>13, <1>14

\* Every other step of a handler leaves the counters and the resets alone.
LEMMA OtherStep ==
  ASSUME CountInv, UNCHANGED <<now, row, last, real, settled, wiped>>,
         task' = [x \in Streams |-> task'[x]],
         \A x \in Streams : task'[x].at = "reset" => task'[x] = task[x]
  PROVE  CountInv'
<1>1. \A x \in Symbols : \A name : Pending(x, name)' => Pending(x, name)
  BY DEF Pending
<1>2. Typed'
  BY DEF CountInv, Typed
<1>3. \A x \in Symbols : (DayReset(x)' <=> DayReset(x)) /\ (HourReset(x)' <=> HourReset(x))
  BY DEF DayReset, HourReset
<1>4. QED
  BY <1>1, <1>2, <1>3 DEF CountInv, DayCounted, HourCounted, Kept

LEMMA CountStep == ASSUME CountInv, [LimitNext]_limitVars PROVE CountInv'
<1>0. task = [x \in Streams |-> task[x]]
  BY DEF CountInv, Typed
<1>1. ASSUME NEW st \in Streams, Quits(st) \/ Blocked(st) \/ PassLimits(st) PROVE CountInv'
  <2>1. task' = [task EXCEPT ![st] = Idle] /\ UNCHANGED <<now, row, last, real, settled, wiped>>
    BY <1>1 DEF Quits, Blocked, PassLimits, Goes
  <2>2. QED
    BY <1>0, <2>1, OtherStep DEF Idle
<1>2. ASSUME NEW st \in Streams, Unblocked(st) PROVE CountInv'
  <2>1. /\ task' = [task EXCEPT ![st] = [task[st] EXCEPT !.at = "state"]]
        /\ UNCHANGED <<now, row, last, real, settled, wiped>> /\ task[st].at = "block"
    BY <1>2 DEF Unblocked, Open, Goes
  <2>2. [task[st] EXCEPT !.at = "state"].at # "reset"
    BY <2>1
  <2>3. QED
    BY <1>0, <2>1, <2>2, OtherStep
<1>3. ASSUME NEW st \in Streams, GetSymbolState(st) PROVE CountInv'
  <2>1. /\ task' = [task EXCEPT ![st] =
             [at |-> "limits", time |-> task[st].time, seen |-> task[st].seen, state |-> row[st[1]]]]
        /\ UNCHANGED <<now, row, last, real, settled, wiped>>
    BY <1>3 DEF GetSymbolState, Goes
  <2>2. QED
    BY <1>0, <2>1, OtherStep
<1>4. CASE RunCalendar \/ UNCHANGED limitVars
  <2>1. UNCHANGED <<now, row, last, real, settled, wiped, task>>
    BY <1>4 DEF RunCalendar, limitVars
  <2>2. QED
    BY <1>0, <2>1, OtherStep
<1>5. QED
  BY <1>1, <1>2, <1>3, <1>4, TickStep, RecordStep, CloseStep, LandStep DEF LimitNext

LEMMA CountInvHolds == LimitSpec => []CountInv
<1>1. LimitInit => CountInv
  <2> SUFFICES ASSUME LimitInit PROVE CountInv
    OBVIOUS
  <2>1. \A st \in Streams : task[st].at = "idle"
    BY DEF LimitInit, Idle
  <2>2. Typed
    BY <2>1 DEF LimitInit, Typed, Counts, Columns, NoLoss
  <2>3. \A s \in Symbols : DayCounted(s) /\ HourCounted(s)
    BY DEF LimitInit, DayCounted, HourCounted, Kept, NoLoss
  <2>4. QED
    BY <2>2, <2>3 DEF CountInv
<1>2. CountInv /\ [LimitNext]_limitVars => CountInv'
  BY CountStep
<1> HIDE DEF CountInv, LimitInit, LimitNext, limitVars
<1>3. QED
  BY <1>1, <1>2, PTL DEF LimitSpec

\* What a reset may take back: only losses recorded while the reset of their day, or
\* hour, was not yet remembered or a handler still had it to make.  Every other loss
\* is in the counters, and once the reset is remembered they hold the losses of the
\* day, or hour, less what was taken back, for any interleaving (pipeline.ts
\* processSymbol, loss-limit.ts resetAllExpired).
THEOREM LimitsCountersTrue == LimitSpec => []CountersTrue
<1>1. CountInv => CountersTrue
  BY DEF CountInv, CountersTrue, DayCounted, HourCounted, Kept
<1> HIDE DEF CountInv, LimitInit, LimitNext, limitVars, CountersTrue
<1>2. QED
  BY <1>1, CountInvHolds, PTL

-----------------------------------------------------------------------------
(***************************************************************************)
(* The limits.  What had been lost when a handler's candle closed is, as   *)
(* long as the day and the hour last, still lost; the row read later       *)
(* counts at least what of it was not taken back.                          *)
(***************************************************************************)
Waits == [at : {"block", "state"}, time : Nat, seen : Counts]

Witnessed(st) ==
  LET w == task[st]  s == st[1] IN
  /\ w.at \in {"idle", "reset", "block", "state", "limits"}
  /\ w.at \in {"block", "state"} => w \in Waits
  /\ w.at # "idle" =>
       /\ w.time \in Nat /\ w.time <= now /\ w.seen \in Counts
       /\ w.time \div Day = now \div Day => w.seen.today <= TodayOf(real)
       /\ w.time \div Hour = now \div Hour =>
            w.seen.h5 <= real[s].h5 /\ w.seen.h1 <= real[s].h1
  /\ w.at = "limits" /\ w.time \div Hour = now \div Hour =>
       w.seen.h5 - wiped[s].h5 <= w.state.h5 /\ w.seen.h1 - wiped[s].h1 <= w.state.h1
  /\ w.at = "limits" => w.state \in Columns

SeenInv == \A st \in Streams : Witnessed(st)

LEMMA TodayNat ==
  ASSUME NEW f, f \in [Symbols -> Counts] \/ f \in [Symbols -> Columns]
  PROVE  TodayOf(f) \in Nat
<1> DEFINE F == [s \in Symbols |-> f[s].today]
<1>1. \A s \in Symbols : F[s] \in Nat
  BY DEF Counts, Columns
<1> HIDE DEF F
<1>2. SumFunctionOnSet(F, Symbols) \in Nat
  BY <1>1, SumNat, SymbolAssumption
<1>3. QED
  BY <1>2 DEF TodayOf, F

\* More on every symbol is more on all of them.
LEMMA TodayMonotone ==
  ASSUME NEW f, NEW g,
         \A s \in Symbols : f[s].today \in Nat /\ g[s].today \in Nat /\ f[s].today <= g[s].today
  PROVE  TodayOf(f) <= TodayOf(g)
<1> DEFINE F == [s \in Symbols |-> f[s].today]
           G == [s \in Symbols |-> g[s].today]
<1>1. \A s \in Symbols : F[s] \in Int /\ G[s] \in Int /\ F[s] <= G[s]
  OBVIOUS
<1> HIDE DEF F, G
<1>2. SumFunctionOnSet(F, Symbols) <= SumFunctionOnSet(G, Symbols)
  BY <1>1, SumMonotone, SymbolAssumption
<1>3. QED
  BY <1>2 DEF TodayOf, F, G

\* The columns of the day hold, on all symbols together, all but what was taken back.
LEMMA TodayCounted == CountInv => TodayOf(real) <= TodayOf(row) + TodayOf(wiped)
<1> SUFFICES ASSUME CountInv PROVE TodayOf(real) <= TodayOf(row) + TodayOf(wiped)
  OBVIOUS
<1> DEFINE R == [s \in Symbols |-> real[s].today]
           C == [s \in Symbols |-> row[s].today]
           B == [s \in Symbols |-> wiped[s].today]
           H == [s \in Symbols |-> C[s] + B[s]]
<1>1. ASSUME NEW s \in Symbols PROVE R[s] \in Nat /\ C[s] \in Nat /\ B[s] \in Nat /\ R[s] <= C[s] + B[s]
  <2>1. real[s].today \in Nat /\ row[s].today \in Nat /\ wiped[s].today \in Nat
    BY DEF CountInv, Typed, Counts, Columns
  <2>2. real[s].today - wiped[s].today <= row[s].today
    BY DEF CountInv, DayCounted, Kept
  <2>3. QED
    BY <2>1, <2>2
<1>2. TodayOf(real) = SumFunctionOnSet(R, Symbols) /\ TodayOf(row) = SumFunctionOnSet(C, Symbols)
      /\ TodayOf(wiped) = SumFunctionOnSet(B, Symbols)
  BY DEF TodayOf
<1> HIDE DEF R, C, B
<1>3. \A s \in Symbols : H[s] = C[s] + B[s]
  OBVIOUS
<1> HIDE DEF H
<1>4. SumFunctionOnSet(R, Symbols) <= SumFunctionOnSet(H, Symbols)
  BY <1>1, <1>3, SumMonotone, SymbolAssumption
<1>5. SumFunctionOnSet(H, Symbols) = SumFunctionOnSet(C, Symbols) + SumFunctionOnSet(B, Symbols)
  BY <1>1, <1>3, SumAdd, SymbolAssumption
<1>6. QED
  BY <1>2, <1>4, <1>5

\* A count of losses that only a new day, or hour, starts again.
Grows(before, after) ==
  /\ now' \div Day = now \div Day => before.today <= after.today
  /\ now' \div Hour = now \div Hour => before.h5 <= after.h5 /\ before.h1 <= after.h1

\* Within a day no loss is undone, nor that it was taken back, nor within an hour.
LEMMA HistoryGrows ==
  ASSUME CountInv, CountInv', [LimitNext]_limitVars
  PROVE  now <= now' /\ \A s \in Symbols : Grows(real[s], real'[s]) /\ Grows(wiped[s], wiped'[s])
<1> DEFINE Grow(s) == Grows(real[s], real'[s]) /\ Grows(wiped[s], wiped'[s])
<1>1. \A s \in Symbols : /\ real[s] \in Counts /\ real[s].today \in Nat
                         /\ real[s].h5 \in Nat /\ real[s].h1 \in Nat
                         /\ wiped[s] \in Counts /\ wiped[s].today \in Nat
                         /\ wiped[s].h5 \in Nat /\ wiped[s].h1 \in Nat
  BY DEF CountInv, Typed, Counts
<1>2. now \in Nat /\ real \in [Symbols -> Counts] /\ wiped \in [Symbols -> Counts]
  BY DEF CountInv, Typed
<1> SUFFICES now <= now' /\ \A s \in Symbols : Grow(s)
  OBVIOUS
<1>3. CASE Tick
  <2>1. /\ now <= now' /\ real' = [s \in Symbols |-> Aged(real[s], now')]
        /\ wiped' = [s \in Symbols |-> Aged(wiped[s], now')]
    BY <1>2, <1>3, ClockAssumption DEF Tick
  <2>2. \A s \in Symbols : Grow(s)
    BY <1>1, <2>1 DEF Aged, Grows
  <2>3. QED
    BY <2>1, <2>2
<1>4. ASSUME NEW st \in Losing, RecordLoss(st[1], st[2])
      PROVE  now <= now' /\ \A s \in Symbols : Grow(s)
  <2> DEFINE k == Counted(real[st[1]], st[2])
  <2>1. now' = now /\ st[1] \in Symbols /\ wiped' = wiped
    BY <1>4, StreamsTyped DEF RecordLoss
  <2>2. real' = [real EXCEPT ![st[1]] = k]
    BY <1>4 DEF RecordLoss
  <2>3. /\ real[st[1]].today <= k.today
        /\ real[st[1]].h5 <= k.h5 /\ real[st[1]].h1 <= k.h1
    BY <1>1, <2>1, CountedValue
  <2> HIDE DEF k
  <2>4. QED
    BY <1>1, <1>2, <2>1, <2>2, <2>3 DEF Grows
<1>5. ASSUME NEW st \in Streams, ResetsLand(st) \/ ResetsFail(st)
      PROVE  now <= now' /\ \A s \in Symbols : Grow(s)
  <2>1. now' = now /\ real' = real /\ st[1] \in Symbols /\ \E done : Landed(st[1], done)
    BY <1>5, StreamsTyped DEF ResetsLand, ResetsFail
  <2>2. PICK done : wiped' = [wiped EXCEPT ![st[1]] = Forgotten(real[st[1]], wiped[st[1]], done)]
    BY <2>1 DEF Landed
  <2> DEFINE k == Forgotten(real[st[1]], wiped[st[1]], done)
  <2>3. /\ wiped[st[1]].today <= real[st[1]].today
        /\ wiped[st[1]].h5 <= real[st[1]].h5 /\ wiped[st[1]].h1 <= real[st[1]].h1
    BY <2>1 DEF CountInv, DayCounted, HourCounted, Kept
  <2>4. wiped[st[1]].today <= k.today /\ wiped[st[1]].h5 <= k.h5 /\ wiped[st[1]].h1 <= k.h1
    BY <1>1, <2>1, <2>3 DEF Forgotten
  <2> HIDE DEF k
  <2>5. wiped' = [wiped EXCEPT ![st[1]] = k]
    BY <2>2 DEF k
  <2>6. QED
    BY <1>1, <1>2, <2>1, <2>4, <2>5 DEF Grows
<1>6. CASE /\ ~Tick /\ ~\E st \in Losing : RecordLoss(st[1], st[2])
           /\ ~\E st \in Streams : ResetsLand(st) \/ ResetsFail(st)
  <2>1. now' = now /\ real' = real /\ wiped' = wiped
    BY <1>6 DEF LimitNext, RunCalendar, CandleCloses, Blocked, Unblocked, GetSymbolState,
       PassLimits, Quits, limitVars
  <2>2. QED
    BY <1>1, <1>2, <2>1 DEF Grows
<1>7. QED
  BY <1>3, <1>4, <1>5, <1>6

\* What was seen stays good for a task that goes on with what it has seen.
LEMMA SeenKept ==
  ASSUME CountInv, CountInv', [LimitNext]_limitVars, NEW st \in Streams, Witnessed(st),
         task[st].at # "idle", task'[st].at # "idle",
         task'[st].time = task[st].time, task'[st].seen = task[st].seen
  PROVE  /\ task'[st].time \in Nat /\ task'[st].time <= now' /\ task'[st].seen \in Counts
         /\ task'[st].time \div Day = now' \div Day =>
              task'[st].time \div Day = now \div Day /\ task'[st].seen.today <= TodayOf(real')
         /\ task'[st].time \div Hour = now' \div Hour =>
              /\ task'[st].time \div Hour = now \div Hour
              /\ task'[st].seen.h5 <= real'[st[1]].h5 /\ task'[st].seen.h1 <= real'[st[1]].h1
              /\ wiped[st[1]].h5 <= wiped'[st[1]].h5 /\ wiped[st[1]].h1 <= wiped'[st[1]].h1
<1> DEFINE w == task[st]  t == w.time  a == w.seen
<1>1. /\ t \in Nat /\ t <= now /\ a \in Counts
      /\ t \div Day = now \div Day => a.today <= TodayOf(real)
      /\ t \div Hour = now \div Hour => a.h5 <= real[st[1]].h5 /\ a.h1 <= real[st[1]].h1
  BY DEF Witnessed
<1>2. /\ now \in Nat /\ now' \in Nat /\ now <= now'
  BY HistoryGrows DEF CountInv, Typed
<1>3. /\ t \div Day = now' \div Day => t \div Day = now \div Day /\ now' \div Day = now \div Day
      /\ t \div Hour = now' \div Hour => t \div Hour = now \div Hour /\ now' \div Hour = now \div Hour
  <2> DEFINE y == now
             z == now'
  <2>1. t \in Nat /\ y \in Nat /\ z \in Nat /\ t <= y /\ y <= z
    BY <1>1, <1>2
  <2> HIDE DEF t, y, z
  <2>2. CASE y = z
    BY <2>1, <2>2 DEF y, z
  <2>3. CASE y < z
    <3>1. /\ z \div 96 # y \div 96 => z \div 96 # t \div 96
          /\ z \div 4 # y \div 4 => z \div 4 # t \div 4
      BY <2>1, <2>3, KeysGrow
    <3>2. QED
      BY <3>1 DEF y, z, Day, Hour
  <2>4. QED
    BY <2>1, <2>2, <2>3
<1>4. st[1] \in Symbols
  BY StreamsTyped
<1>5. real \in [Symbols -> Counts] /\ real' \in [Symbols -> Counts]
  BY DEF CountInv, Typed
<1>6. \A s \in Symbols : real[s].today \in Nat /\ real'[s].today \in Nat
                         /\ real[s].h5 \in Nat /\ real'[s].h5 \in Nat
                         /\ real[s].h1 \in Nat /\ real'[s].h1 \in Nat
  BY <1>5 DEF Counts
<1>7. now' \div Day = now \div Day => TodayOf(real) <= TodayOf(real')
  BY <1>6, HistoryGrows, TodayMonotone DEF Grows
<1>8. TodayOf(real) \in Nat /\ TodayOf(real') \in Nat
  BY <1>5, TodayNat
<1>9. a.today \in Nat /\ a.h5 \in Nat /\ a.h1 \in Nat
  BY <1>1 DEF Counts
<1>10. t \div Day = now' \div Day => a.today <= TodayOf(real')
  <2> HIDE DEF t, a
  <2>1. QED
    BY <1>1, <1>3, <1>7, <1>8, <1>9
<1>11. t \div Hour = now' \div Hour =>
         /\ a.h5 <= real'[st[1]].h5 /\ a.h1 <= real'[st[1]].h1
         /\ wiped[st[1]].h5 <= wiped'[st[1]].h5 /\ wiped[st[1]].h1 <= wiped'[st[1]].h1
  <2> HIDE DEF t, a
  <2>1. QED
    BY <1>1, <1>3, <1>4, <1>6, <1>9, HistoryGrows DEF Grows
<1>12. t <= now'
  BY <1>1, <1>2
<1>13. QED
  BY <1>1, <1>3, <1>10, <1>11, <1>12

\* A handler that stays where it is, or goes on with what it has seen.
LEMMA WaitStep ==
  ASSUME CountInv, CountInv', [LimitNext]_limitVars, NEW st \in Streams, Witnessed(st),
         task[st].at # "idle", task'[st].at \in {"reset", "block", "state"},
         task'[st].at \in {"block", "state"} => task'[st] \in Waits,
         task'[st].time = task[st].time, task'[st].seen = task[st].seen
  PROVE  Witnessed(st)'
<1>1. task'[st].at # "idle"
  OBVIOUS
<1>2. QED
  BY <1>1, SeenKept DEF Witnessed

LEMMA SameStep ==
  ASSUME CountInv, CountInv', [LimitNext]_limitVars, NEW st \in Streams, Witnessed(st), task'[st] = task[st]
  PROVE  Witnessed(st)'
<1>1. CASE task[st].at = "idle"
  BY <1>1 DEF Witnessed
<1>2. CASE task[st].at # "idle"
  <2> DEFINE w == task[st]  s == st[1]
  <2>1. task'[st] = w /\ w.at # "idle"
    BY <1>2
  <2>2. /\ w.time \in Nat /\ w.time <= now' /\ w.seen \in Counts
        /\ w.time \div Day = now' \div Day => w.seen.today <= TodayOf(real')
        /\ w.time \div Hour = now' \div Hour =>
             /\ w.time \div Hour = now \div Hour
             /\ w.seen.h5 <= real'[s].h5 /\ w.seen.h1 <= real'[s].h1
             /\ wiped[s].h5 <= wiped'[s].h5 /\ wiped[s].h1 <= wiped'[s].h1
    BY <1>2, SeenKept
  <2>3. /\ w.at \in {"idle", "reset", "block", "state", "limits"}
        /\ w.at \in {"block", "state"} => w \in Waits
        /\ w.at = "limits" => w.state \in Columns
        /\ w.at = "limits" /\ w.time \div Hour = now \div Hour =>
             w.seen.h5 - wiped[s].h5 <= w.state.h5 /\ w.seen.h1 - wiped[s].h1 <= w.state.h1
    BY DEF Witnessed
  <2>4. /\ s \in Symbols /\ wiped[s] \in Counts /\ wiped'[s] \in Counts
    BY StreamsTyped DEF CountInv, Typed
  <2> HIDE DEF w, s
  <2>5. w.at = "limits" /\ w.time \div Hour = now' \div Hour =>
          w.seen.h5 - wiped'[s].h5 <= w.state.h5 /\ w.seen.h1 - wiped'[s].h1 <= w.state.h1
    BY <2>2, <2>3, <2>4 DEF Counts, Columns
  <2>6. QED
    BY <2>1, <2>2, <2>3, <2>5 DEF Witnessed, s
<1>3. QED
  BY <1>1, <1>2

\* The row a handler reads counts what it has seen, but for what was taken back.
LEMMA ReadStep ==
  ASSUME CountInv, CountInv', [LimitNext]_limitVars, NEW st \in Streams, Witnessed(st), GetSymbolState(st)
  PROVE  Witnessed(st)'
<1> DEFINE s == st[1]  w == task[st]
<1>1. /\ w.at = "state" /\ UNCHANGED <<now, real, wiped, row>>
      /\ task' = [task EXCEPT ![st] = [at |-> "limits", time |-> w.time, seen |-> w.seen, state |-> row[s]]]
  BY DEF GetSymbolState, Goes
<1>2. task'[st] = [at |-> "limits", time |-> w.time, seen |-> w.seen, state |-> row[s]]
  BY <1>1 DEF CountInv, Typed
<1>3. task'[st].at = "limits" /\ task'[st].state = row[s] /\ task'[st].time = w.time /\ task'[st].seen = w.seen
  BY <1>2
<1>4. s \in Symbols /\ row[s] \in Columns /\ real[s] \in Counts /\ wiped[s] \in Counts
  BY StreamsTyped DEF CountInv, Typed
<1>5. real[s].h5 - wiped[s].h5 <= row[s].h5 /\ real[s].h1 - wiped[s].h1 <= row[s].h1
  BY <1>4 DEF CountInv, HourCounted, Kept
<1>6. /\ w.seen \in Counts
      /\ w.time \div Hour = now \div Hour => w.seen.h5 <= real[s].h5 /\ w.seen.h1 <= real[s].h1
  BY <1>1 DEF Witnessed
<1>7. w.time \div Hour = now \div Hour =>
        w.seen.h5 - wiped[s].h5 <= row[s].h5 /\ w.seen.h1 - wiped[s].h1 <= row[s].h1
  <2> HIDE DEF w, s
  <2>1. QED
    BY <1>4, <1>5, <1>6 DEF Counts, Columns
<1>8. /\ task'[st].time \in Nat /\ task'[st].time <= now' /\ task'[st].seen \in Counts
      /\ task'[st].time \div Day = now' \div Day => task'[st].seen.today <= TodayOf(real')
      /\ task'[st].time \div Hour = now' \div Hour =>
           task'[st].seen.h5 <= real'[s].h5 /\ task'[st].seen.h1 <= real'[s].h1
  <2>1. w.at # "idle" /\ task'[st].at # "idle"
    BY <1>1, <1>3
  <2> HIDE DEF w, s
  <2>2. QED
    BY <1>3, <2>1, SeenKept DEF w, s
<1>9. QED
  BY <1>1, <1>3, <1>4, <1>7, <1>8 DEF Witnessed

LEMMA SeenStep == ASSUME CountInv, CountInv', SeenInv, [LimitNext]_limitVars PROVE SeenInv'
<1>0. task \in [Streams -> {task[x] : x \in Streams}]
  BY DEF CountInv, Typed
<1> SUFFICES ASSUME NEW st \in Streams PROVE Witnessed(st)'
  BY DEF SeenInv
<1>1. Witnessed(st)
  BY DEF SeenInv
<1>2. CASE task'[st] = task[st]
  BY <1>1, <1>2, SameStep
<1>3. CASE Quits(st) \/ Blocked(st) \/ PassLimits(st) \/ ResetsFail(st)
  <2>1. task'[st] = Idle
    BY <1>0, <1>3 DEF Quits, Blocked, PassLimits, ResetsFail, Goes
  <2>2. QED
    BY <2>1 DEF Witnessed, Idle
<1>4. CASE CandleCloses(st)
  <2> DEFINE a == [real[st[1]] EXCEPT !.today = TodayOf(real)]
             s == st[1]
  <2>1. task'[st] = [at |-> "reset", time |-> now, due |-> Expired(st[1], now), seen |-> a]
    BY <1>0, <1>4 DEF CandleCloses, Goes
  <2>2. s \in Symbols /\ real \in [Symbols -> Counts] /\ TodayOf(real) \in Nat /\ now \in Nat
    BY StreamsTyped, TodayNat DEF CountInv, Typed
  <2>3. /\ a \in Counts /\ a.today = TodayOf(real)
        /\ a.h5 = real[s].h5 /\ a.h1 = real[s].h1 /\ a.h5 \in Nat /\ a.h1 \in Nat
    BY <2>2 DEF Counts
  <2>4. task'[st].at = "reset" /\ task'[st].time = now /\ task'[st].seen = a
    BY <2>1
  <2>5. now' = now /\ real' = real
    BY <1>4 DEF CandleCloses
  <2> HIDE DEF a
  <2>6. QED
    BY <2>2, <2>3, <2>4, <2>5 DEF Witnessed
<1>5. CASE ResetsLand(st)
  <2>1. /\ task[st].at = "reset" /\ task[st].time \in Nat /\ task[st].seen \in Counts
        /\ \/ task'[st] = Idle
           \/ task'[st] = [at |-> "block", time |-> task[st].time, seen |-> task[st].seen]
    BY <1>0, <1>1, <1>5 DEF ResetsLand, Goes, Witnessed
  <2>2. CASE task'[st] = Idle
    BY <2>2 DEF Witnessed, Idle
  <2>3. CASE task'[st] = [at |-> "block", time |-> task[st].time, seen |-> task[st].seen]
    <3>1. /\ task'[st].at = "block" /\ task'[st].time = task[st].time /\ task'[st].seen = task[st].seen
          /\ task'[st] \in Waits
      BY <2>1, <2>3 DEF Waits
    <3>2. QED
      BY <1>1, <2>1, <3>1, WaitStep
  <2>4. QED
    BY <2>1, <2>2, <2>3
<1>6. CASE Unblocked(st)
  <2>1. task[st].at = "block" /\ task[st] \in Waits /\ task'[st] = [task[st] EXCEPT !.at = "state"]
    BY <1>0, <1>1, <1>6 DEF Unblocked, Open, Goes, Witnessed
  <2>2. /\ task'[st].at = "state" /\ task'[st].time = task[st].time /\ task'[st].seen = task[st].seen
        /\ task'[st] \in Waits
    BY <2>1 DEF Waits
  <2>3. QED
    BY <1>1, <2>1, <2>2, WaitStep
<1>7. CASE GetSymbolState(st)
  BY <1>1, <1>7, ReadStep
<1>8. CASE /\ task'[st] # task[st]
           /\ ~(Quits(st) \/ Blocked(st) \/ PassLimits(st) \/ ResetsFail(st) \/ CandleCloses(st)
                \/ ResetsLand(st) \/ Unblocked(st) \/ GetSymbolState(st))
  <2>1. PICK x \in Streams : \/ CandleCloses(x) \/ ResetsLand(x) \/ ResetsFail(x) \/ Blocked(x)
                             \/ Unblocked(x) \/ GetSymbolState(x) \/ PassLimits(x) \/ Quits(x)
    BY <1>8 DEF LimitNext, Tick, RunCalendar, RecordLoss, limitVars
  <2>2. x # st /\ \E to : task' = [task EXCEPT ![x] = to]
    BY <1>8, <2>1 DEF CandleCloses, ResetsLand, ResetsFail, Blocked, Unblocked, GetSymbolState, PassLimits,
       Quits, Goes
  <2>3. QED
    BY <1>0, <1>8, <2>2
<1>9. QED
  BY <1>2, <1>3, <1>4, <1>5, <1>6, <1>7, <1>8

\* A handler gets past a limit only by what resets took back: of the losses recorded
\* when its candle closed, those of the day on all symbols and those of the hour on its
\* own are below the limits once the losses taken back are left out, whatever the other
\* handlers did between its reads (loss-limit.ts checkAccountDailyLimit and
\* checkLossLimit, pipeline.ts processEntry).
THEOREM LimitsLimitsHold == LimitSpec => []LimitsHold
<1>1. LimitInit => SeenInv
  BY DEF LimitInit, SeenInv, Witnessed, Idle
<1>2. CountInv /\ CountInv' /\ SeenInv /\ [LimitNext]_limitVars => SeenInv'
  BY SeenStep
<1>3. CountInv /\ SeenInv => LimitsHold
  <2> SUFFICES ASSUME CountInv, SeenInv, NEW st \in Streams, Passes(st)
               PROVE  /\ task[st].time \div Day = now \div Day =>
                           task[st].seen.today - TodayOf(wiped) < DayLimit
                      /\ task[st].time \div Hour = now \div Hour =>
                           /\ task[st].seen.h5 - wiped[st[1]].h5 < MaxHourly5m
                           /\ task[st].seen.h1 - wiped[st[1]].h1 < MaxHourly1m
    BY DEF LimitsHold
  <2>1. task[st].at = "limits" /\ TodayOf(row) < DayLimit /\ CheckLossLimit(task[st].state)
    BY DEF Passes, CheckAccountDailyLimit
  <2>2. /\ task[st].seen \in Counts /\ task[st].state \in Columns
        /\ task[st].time \div Day = now \div Day => task[st].seen.today <= TodayOf(real)
        /\ task[st].time \div Hour = now \div Hour =>
             /\ task[st].seen.h5 - wiped[st[1]].h5 <= task[st].state.h5
             /\ task[st].seen.h1 - wiped[st[1]].h1 <= task[st].state.h1
    BY <2>1 DEF SeenInv, Witnessed
  <2>3. /\ TodayOf(real) \in Nat /\ TodayOf(row) \in Nat /\ TodayOf(wiped) \in Nat
        /\ wiped[st[1]] \in Counts
    BY TodayNat, StreamsTyped DEF CountInv, Typed
  <2>4. DayLimit \in Nat /\ MaxHourly5m \in Nat /\ MaxHourly1m \in Nat
    BY LimitAssumption
  <2>5. QED
    BY <2>1, <2>2, <2>3, <2>4, TodayCounted DEF CheckLossLimit, Counts, Columns
<1> HIDE DEF CountInv, SeenInv, LimitInit, LimitNext, limitVars, LimitsHold
<1>4. QED
  BY <1>1, <1>2, <1>3, CountInvHolds, PTL DEF LimitSpec

-----------------------------------------------------------------------------
(***************************************************************************)
(* OrderExecutor, for every number of retries. The invariant relates the   *)
(* position and the stops on the exchange to the statement executeEntry is *)
(* at and to whether the request in flight was processed.                  *)
(***************************************************************************)
Types ==
  /\ oneStep \in BOOLEAN
  /\ pc \in PCs
  /\ tries \in 0..(MaxTries - 1)
  /\ position \in Nat /\ stops \in Nat
  /\ attempt \in 0..SlMaxRetries
  /\ pc \notin {"close", "done"} => attempt < SlMaxRetries
  /\ result \in Results
  /\ pc # "done" => result = "none"

\* What was opened: one unit per entry order placed, a second one only where
\* the bracket order was lost.
Opened ==
  /\ pc = "start" => ~taken
  /\ pc \in {"start", "leverage"} => position = 0 /\ ~lost
  /\ pc = "bracket" => oneStep /\ ~lost
  /\ pc = "bracket" /\ ~taken => position = 0
  /\ pc = "bracket" /\ taken => position = 1
  /\ pc = "bracketSlippage" => oneStep /\ position = 1
  /\ pc = "plain" /\ ~lost /\ ~taken => position = 0
  /\ pc = "plain" /\ taken => position > 0
  /\ pc = "plain" /\ (~lost \/ ~taken) => position <= 1
  /\ pc \in {"slippage", "sl"} => position > 0
  /\ pc \in {"slippage", "sl"} /\ ~lost => position = 1
  /\ pc = "close" /\ ~lost /\ ~taken => position = 1
  /\ pc = "close" /\ ~lost /\ taken => position = 0
  /\ lost => oneStep \/ pc = "done"
  /\ position <= 2
  /\ ~oneStep => position <= 1

\* How far the stops on the exchange cover it.
Covered ==
  /\ pc \in {"start", "leverage", "bracket"} => stops = position
  /\ pc = "bracketSlippage" => stops >= position
  /\ pc = "plain" /\ ~taken => stops >= position
  /\ pc \in {"plain", "slippage", "sl"} => stops + 1 >= position

IInv == Types /\ Opened /\ AbortedIsFlat
-----------------------------------------------------------------------------
LEMMA InitIInv == Init => IInv
BY FlagsAssumption, RetryAssumption
DEF Init, IInv, Types, Opened, AbortedIsFlat, PCs, Calls, Results

LEMMA NextIInv == IInv /\ [Next]_vars => IInv'
<1> SUFFICES ASSUME IInv, [Next]_vars PROVE IInv'
  OBVIOUS
<1>0. oneStep' = oneStep
  BY DEF Next, vars
<1> USE <1>0, FlagsAssumption, RetryAssumption
    DEF IInv, Types, Opened, AbortedIsFlat, PCs, Calls, Results
<1>1. CASE RefuseMode
  BY <1>1 DEF RefuseMode, Return, exchange, flags
<1>2. CASE RefuseSpread
  BY <1>2 DEF RefuseSpread, Return, exchange, flags
<1>3. CASE Start
  BY <1>3 DEF Start, Goto, exchange, flags
<1>4. CASE Answered
  BY <1>4 DEF Answered, Process, Goto, Return, flags
<1>5. CASE AnswerLost
  <2>1. CASE tries + 1 < MaxTries
    BY <1>5, <2>1 DEF AnswerLost, Process, Fail, flags
  <2>2. CASE ~(tries + 1 < MaxTries)
    <3>1. Throw(TRUE) /\ Process
      BY <1>5, <2>2 DEF AnswerLost, Fail
    <3>2. Types'
      BY <3>1 DEF Process, Throw, SlFailed, Goto, Return
    <3>3. CASE pc = "leverage"
      BY <3>1, <3>2, <3>3 DEF Process, Throw, Return
    <3>4. CASE pc = "bracket"
      <4>1. lost' /\ ~closeFailed' /\ pc' = "plain" /\ ~taken' /\ result' = result
        BY <3>1, <3>4 DEF Throw, Goto
      <4> QED BY <3>1, <3>2, <3>4, <4>1 DEF Process
    <3>5. CASE pc \in {"plain", "close"}
      <4>1. (lost' \/ closeFailed') /\ pc' = "done" /\ result' = "aborted"
        BY <3>1, <3>5 DEF Throw, Return
      <4>2. position' <= 2 /\ (~oneStep => position' <= 1)
        BY <3>1, <3>5 DEF Process
      <4> QED BY <3>2, <4>1, <4>2
    <3>6. CASE pc = "sl"
      BY <3>1, <3>2, <3>6 DEF Process, Throw, SlFailed, Goto
    <3> QED BY <3>1, <3>2, <3>3, <3>4, <3>5, <3>6 DEF Throw
  <2> QED BY <2>1, <2>2
<1>6. CASE Refused
  <2>1. CASE tries + 1 < MaxTries
    BY <1>6, <2>1 DEF Refused, Fail, flags, exchange
  <2>2. CASE ~(tries + 1 < MaxTries)
    <3>1. Throw(taken) /\ UNCHANGED exchange
      BY <1>6, <2>2 DEF Refused, Fail
    <3>2. Types'
      BY <3>1 DEF exchange, Throw, SlFailed, Goto, Return
    <3>3. CASE pc = "leverage"
      BY <3>1, <3>2, <3>3 DEF exchange, Throw, Return
    <3>4. CASE pc = "bracket"
      <4>1. /\ lost' <=> taken
            /\ ~closeFailed' /\ pc' = "plain" /\ ~taken' /\ result' = result
        BY <3>1, <3>4 DEF Throw, Goto
      <4> QED BY <3>1, <3>2, <3>4, <4>1 DEF exchange
    <3>5. CASE pc \in {"plain", "close"}
      BY <3>1, <3>2, <3>5 DEF exchange, Throw, Return
    <3>6. CASE pc = "sl"
      BY <3>1, <3>2, <3>6 DEF exchange, Throw, SlFailed, Goto
    <3> QED BY <3>1, <3>2, <3>3, <3>4, <3>5, <3>6 DEF Throw
  <2> QED BY <2>1, <2>2
<1>7. CASE SlippageOk
  BY <1>7 DEF SlippageOk, Goto, Return, exchange, flags
<1>8. CASE SlippageExceeded
  BY <1>8 DEF SlippageExceeded, Goto, exchange, flags
<1>9. CASE UNCHANGED vars
  BY <1>9 DEF vars, exchange, flags
<1>10. QED
  BY <1>1, <1>2, <1>3, <1>4, <1>5, <1>6, <1>7, <1>8, <1>9 DEF Next

LEMMA NextCovered ==
  ASSUME BracketCarriesSl,
         IInv, Covered, SuccessIsProtected, [Next]_vars
  PROVE  (Covered /\ SuccessIsProtected)'
<1>0. oneStep' = oneStep
  BY DEF Next, vars
<1> USE <1>0, FlagsAssumption, RetryAssumption
    DEF IInv, Types, Covered, SuccessIsProtected, PCs, Calls, Results
<1>1. CASE RefuseMode
  BY <1>1 DEF RefuseMode, Return, exchange, flags
<1>2. CASE RefuseSpread
  BY <1>2 DEF RefuseSpread, Return, exchange, flags
<1>3. CASE Start
  BY <1>3 DEF Start, Goto, exchange, flags
<1>4. CASE Answered
  BY <1>4 DEF Opened, Answered, Process, Goto, Return, flags
<1>5. CASE AnswerLost
  <2>1. CASE tries + 1 < MaxTries
    BY <1>5, <2>1 DEF Opened, AnswerLost, Process, Fail, flags
  <2>2. CASE ~(tries + 1 < MaxTries)
    <3>1. Throw(TRUE) /\ Process
      BY <1>5, <2>2 DEF AnswerLost, Fail
    <3> QED BY <3>1 DEF Opened, Process, Throw, SlFailed, Goto, Return
  <2> QED BY <2>1, <2>2
<1>6. CASE Refused
  <2>1. CASE tries + 1 < MaxTries
    BY <1>6, <2>1 DEF Refused, Fail, flags, exchange
  <2>2. CASE ~(tries + 1 < MaxTries)
    <3>1. Throw(taken) /\ UNCHANGED exchange
      BY <1>6, <2>2 DEF Refused, Fail
    <3> QED BY <3>1 DEF Opened, exchange, Throw, SlFailed, Goto, Return
  <2> QED BY <2>1, <2>2
<1>7. CASE SlippageOk
  BY <1>7 DEF Opened, SlippageOk, Goto, Return, exchange, flags
<1>8. CASE SlippageExceeded
  BY <1>8 DEF SlippageExceeded, Goto, exchange, flags
<1>9. CASE UNCHANGED vars
  BY <1>9 DEF vars, exchange, flags
<1>10. QED
  BY <1>1, <1>2, <1>3, <1>4, <1>5, <1>6, <1>7, <1>8, <1>9 DEF Next
-----------------------------------------------------------------------------
LEMMA ExecutorIInv == Spec => []IInv
BY InitIInv, NextIInv, PTL DEF Spec

\* An entry given up is flat unless its close failed or its order was lost,
\* for every number of retries, one-step or two-step.
THEOREM ExecutorAbortedIsFlat == Spec => []AbortedIsFlat
<1>1. IInv => AbortedIsFlat
  BY DEF IInv
<1> QED BY <1>1, ExecutorIInv, PTL

\* A two-step entry is placed at most once, however often it is sent.
THEOREM ExecutorPlacedOnce == Spec => []PlacedOnce
<1>1. IInv => PlacedOnce
  BY DEF IInv, Opened, PlacedOnce
<1> QED BY <1>1, ExecutorIInv, PTL

\* A successful entry has its stop losses on the exchange, provided one-step
\* entries are only used with an adapter whose createOrder sends the stop loss.
THEOREM ExecutorSuccessIsProtected ==
  BracketCarriesSl => (Spec => []SuccessIsProtected)
<1> SUFFICES ASSUME BracketCarriesSl PROVE Spec => []SuccessIsProtected
  OBVIOUS
<1> DEFINE Inv == IInv /\ Covered /\ SuccessIsProtected
<1>1. Init => Inv
  <2>1. Init => Covered /\ SuccessIsProtected
    BY DEF Init, Covered, SuccessIsProtected
  <2> QED BY <2>1, InitIInv
<1>2. Inv /\ [Next]_vars => Inv'
  BY NextIInv, NextCovered
<1>3. Inv => SuccessIsProtected
  OBVIOUS
<1> HIDE DEF Inv
<1> QED BY <1>1, <1>2, <1>3, PTL DEF Spec

-----------------------------------------------------------------------------
(* How long executeEntry can go on.  The prover cannot show that it ends   *)
(* (Terminates), but that what is left of it shrinks with every step.      *)

\* The statements still to come at most, the present one included.
StatementsLeft ==
  LET registrations == SlMaxRetries - attempt IN
  CASE pc = "done" -> 0
    [] pc = "close" -> 1
    [] pc = "bracketSlippage" -> 2
    [] pc = "sl" -> registrations + 1
    [] pc = "slippage" -> registrations + 2
    [] pc = "plain" -> registrations + 3
    [] pc = "bracket" -> registrations + 4
    [] pc = "leverage" -> registrations + 5
    [] pc = "start" -> registrations + 6

\* Each of them is a request sent MaxTries times at most.
Work == StatementsLeft * MaxTries - tries

LEMMA LeftIsNat ==
  ASSUME Types
  PROVE  StatementsLeft \in 0..(SlMaxRetries + 6) /\ (pc # "done" => StatementsLeft >= 1)
<1> DEFINE r == SlMaxRetries - attempt
<1>1. r \in 0..SlMaxRetries /\ SlMaxRetries \in Nat
  BY RetryAssumption DEF Types
<1>2. \/ pc = "done" /\ StatementsLeft = 0
      \/ pc = "close" /\ StatementsLeft = 1
      \/ pc = "bracketSlippage" /\ StatementsLeft = 2
      \/ pc = "sl" /\ StatementsLeft = r + 1
      \/ pc = "slippage" /\ StatementsLeft = r + 2
      \/ pc = "plain" /\ StatementsLeft = r + 3
      \/ pc = "bracket" /\ StatementsLeft = r + 4
      \/ pc = "leverage" /\ StatementsLeft = r + 5
      \/ pc = "start" /\ StatementsLeft = r + 6
  BY DEF Types, StatementsLeft, PCs, Calls
<1> DEFINE l == StatementsLeft
<1>3. l \in {0, 1, 2, r + 1, r + 2, r + 3, r + 4, r + 5, r + 6} /\ (pc # "done" => l # 0 \/ l = r + 1)
  BY <1>1, <1>2
<1> HIDE DEF l, r
<1>4. l \in 0..(SlMaxRetries + 6)
  <2>1. SlMaxRetries >= 1
    BY RetryAssumption
  <2>2. QED
    BY <1>1, <1>3, <2>1
<1>5. pc # "done" => l >= 1
  BY <1>1, <1>3
<1>6. QED
  BY <1>4, <1>5 DEF l

\* A statement fewer is a whole request fewer.
LEMMA WholeRequests ==
  ASSUME NEW l \in Nat, NEW k \in Nat, k < l, NEW t \in 0..(MaxTries - 1)
  PROVE  k * MaxTries \in Nat /\ k * MaxTries < l * MaxTries - t
<1> DEFINE x == k * MaxTries  y == l * MaxTries  z == (l - k) * MaxTries
<1>1. MaxTries \in Nat \ {0} /\ l - k \in Nat \ {0}
  BY RetryAssumption
<1>2. y = x + z /\ x \in Nat /\ z \in Nat /\ z >= MaxTries
  <2>1. y = x + z /\ x \in Nat /\ z \in Nat
    BY <1>1
  <2>2. z = (l - k - 1) * MaxTries + MaxTries /\ (l - k - 1) * MaxTries \in Nat
    BY <1>1
  <2> HIDE DEF x, y, z
  <2>3. z >= MaxTries
    BY <1>1, <2>2
  <2>4. QED
    BY <2>1, <2>3
<1> HIDE DEF x, y, z
<1>3. x < y - t
  BY <1>1, <1>2
<1>4. QED
  BY <1>2, <1>3 DEF x, y

\* A step sends the same request once more, or goes on to a later statement.
LEMMA StepGoesOn ==
  ASSUME IInv, Next
  PROVE  /\ pc # "done"
         /\ \/ tries' = tries + 1 /\ StatementsLeft' = StatementsLeft
            \/ tries' = 0 /\ StatementsLeft' < StatementsLeft
<1> USE RetryAssumption DEF IInv, Types, PCs, Calls
<1>1. CASE RefuseMode \/ RefuseSpread
  BY <1>1 DEF RefuseMode, RefuseSpread, Return, StatementsLeft
<1>2. CASE Start
  BY <1>2 DEF Start, Goto, StatementsLeft
<1>3. CASE Answered
  BY <1>3 DEF Answered, Goto, Return, StatementsLeft
<1> DEFINE Again == tries' = tries + 1 /\ UNCHANGED <<pc, attempt>>
           GivenUp == \/ pc = "leverage" /\ Return("thrown") /\ UNCHANGED attempt
                      \/ pc = "bracket"  /\ Goto("plain") /\ UNCHANGED attempt
                      \/ pc \in {"plain", "close"} /\ Return("aborted") /\ UNCHANGED attempt
                      \/ pc = "sl"       /\ SlFailed
<1>4. ASSUME pc \in Calls, Again \/ GivenUp
      PROVE  /\ pc # "done"
             /\ \/ tries' = tries + 1 /\ StatementsLeft' = StatementsLeft
                \/ tries' = 0 /\ StatementsLeft' < StatementsLeft
  <2>1. CASE Again
    BY <1>4, <2>1 DEF StatementsLeft
  <2>2. CASE GivenUp
    <3>2. CASE pc \in {"leverage", "bracket", "plain", "close"}
      BY <2>2, <3>2 DEF Goto, Return, StatementsLeft
    <3>3. CASE pc = "sl"
      <4>1. attempt' = attempt + 1 /\ pc' \in {"sl", "close"} /\ tries' = 0
            /\ attempt < SlMaxRetries /\ attempt \in Nat /\ SlMaxRetries \in Nat
        BY <2>2, <3>3 DEF SlFailed, Goto
      <4>2. StatementsLeft = SlMaxRetries - attempt + 1
        BY <3>3 DEF StatementsLeft
      <4>3. pc' = "sl" => StatementsLeft' = SlMaxRetries - (attempt + 1) + 1
        BY <4>1 DEF StatementsLeft
      <4>4. pc' = "close" => StatementsLeft' = 1
        BY DEF StatementsLeft
      <4>5. StatementsLeft' < StatementsLeft
        BY <4>1, <4>2, <4>3, <4>4
      <4>6. QED
        BY <3>3, <4>1, <4>5
    <3>4. QED
      BY <1>4, <3>2, <3>3
  <2>3. QED
    BY <1>4, <2>1, <2>2
<1>5. CASE AnswerLost \/ Refused
  <2>1. pc \in Calls /\ (Again \/ GivenUp)
    BY <1>5 DEF AnswerLost, Refused, Fail, Throw
  <2> HIDE DEF Again, GivenUp
  <2>2. QED
    BY <1>4, <2>1
<1>6. CASE SlippageOk \/ SlippageExceeded
  BY <1>6 DEF SlippageOk, SlippageExceeded, Goto, Return, StatementsLeft
<1>7. QED
  BY <1>1, <1>2, <1>3, <1>5, <1>6 DEF Next

LEMMA WorkBounded == ASSUME Types PROVE Work \in Int /\ Work <= (SlMaxRetries + 6) * MaxTries
<1> DEFINE l == StatementsLeft  n == SlMaxRetries + 6
<1>1. l \in Nat /\ n \in Nat /\ n - l \in Nat /\ MaxTries \in Nat /\ tries \in Nat
  BY LeftIsNat, RetryAssumption DEF Types
<1>2. Work = l * MaxTries - tries
  BY DEF Work
<1> HIDE DEF l, n
<1>3. n * MaxTries = l * MaxTries + (n - l) * MaxTries /\ (n - l) * MaxTries \in Nat
      /\ l * MaxTries \in Nat /\ n * MaxTries \in Nat
  BY <1>1
<1> DEFINE x == l * MaxTries  y == n * MaxTries  z == (n - l) * MaxTries
<1>4. Work = x - tries /\ y = x + z /\ x \in Nat /\ y \in Nat /\ z \in Nat
  BY <1>2, <1>3
<1> HIDE DEF x, y, z
<1>5. Work \in Int /\ Work <= y
  BY <1>1, <1>4
<1>6. QED
  BY <1>5 DEF y, n

LEMMA WorkShrinks == ASSUME IInv, Next, IInv' PROVE Work' < Work /\ Work > 0
<1> DEFINE l == StatementsLeft  k == StatementsLeft'
<1>1. l \in Nat /\ k \in Nat /\ l >= 1 /\ tries \in 0..(MaxTries - 1) /\ tries' \in 0..(MaxTries - 1)
  <2>1. l \in Nat /\ (pc # "done" => l >= 1) /\ tries \in 0..(MaxTries - 1)
    BY LeftIsNat DEF IInv, Types
  <2>2. k \in Nat
    BY RetryAssumption DEF IInv, Types, StatementsLeft, PCs, Calls
  <2>3. QED
    BY <2>1, <2>2, StepGoesOn DEF IInv, Types
<1>2. \/ tries' = tries + 1 /\ k = l
      \/ tries' = 0 /\ k < l
  BY StepGoesOn
<1>3. Work = l * MaxTries - tries /\ Work' = k * MaxTries - tries'
  BY DEF Work
<1>4. MaxTries \in Nat
  BY RetryAssumption
<1> HIDE DEF l, k
<1>5. Work > 0
  <2>1. 0 * MaxTries \in Nat /\ 0 * MaxTries < l * MaxTries - tries
    BY <1>1, WholeRequests
  <2>2. l * MaxTries \in Int
    BY <1>1, <1>4
  <2> DEFINE x == l * MaxTries
  <2>3. 0 < x - tries
    BY <1>1, <1>4, <2>1, <2>2
  <2> HIDE DEF x
  <2>4. QED
    BY <1>3, <2>3 DEF x
<1>6. Work' < Work
  <2>1. CASE tries' = tries + 1 /\ k = l
    <3> DEFINE x == l * MaxTries
    <3>1. x \in Int /\ Work = x - tries /\ Work' = x - (tries + 1)
      BY <1>1, <1>3, <1>4, <2>1
    <3> HIDE DEF x
    <3>2. QED
      BY <1>1, <3>1
  <2>2. CASE tries' = 0 /\ k < l
    <3> DEFINE x == k * MaxTries  y == l * MaxTries
    <3>1. x \in Nat /\ x < y - tries
      BY <1>1, <2>2, WholeRequests
    <3>2. Work = y - tries /\ Work' = x - 0
      BY <1>3, <2>2
    <3> HIDE DEF x, y
    <3>3. QED
      BY <3>1, <3>2
  <2>3. QED
    BY <1>2, <2>1, <2>2
<1>7. QED
  BY <1>5, <1>6

\* Whatever the exchange answers, executeEntry takes no more than
\* (SlMaxRetries + 6) * MaxTries steps, and with them sends no more requests: every step
\* shortens what is left, from a positive number, through the retries of withRetry inside
\* those of attemptSlRegistration.
THEOREM ExecutorWorkShrinks ==
  Spec => /\ [](Work <= (SlMaxRetries + 6) * MaxTries)
          /\ [][Work' < Work /\ Work > 0]_vars
<1>1. IInv => Work <= (SlMaxRetries + 6) * MaxTries
  BY WorkBounded DEF IInv
<1>2. IInv /\ IInv' /\ [Next]_vars => [Work' < Work /\ Work > 0]_vars
  BY WorkShrinks
<1>3. QED
  BY <1>1, <1>2, ExecutorIInv, PTL DEF Spec
=============================================================================
