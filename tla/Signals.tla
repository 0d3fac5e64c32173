------------------------------ MODULE Signals ------------------------------
(***************************************************************************)
(* The way of one symbol from a 1H candle to a sized entry order: process1H *)
(* (signals/watching.ts), then processEntry's gates: evidence, safety, daily *)
(* bias, KNN decision over time-decayed neighbours, position size.         *)
(*                                                                         *)
(* The handlers of the 1D, the 1H and the 5M or 1M candle are not awaited: *)
(* between a handler's awaits the others write what it has read.  They     *)
(* share daily_bias and the watch session; several entry handlers of one   *)
(* symbol only read them, so that one is enough.                           *)
(*                                                                         *)
(* Each works on fresh candles and indicators, taken from small sets.      *)
(* Prices are whole, 1..MaxPrice above Base; a stop is kept in twentieths  *)
(* because its buffer is 0.15 of a wick.  Ratios are compared by cross     *)
(* multiplication.                                                         *)
(***************************************************************************)
EXTENDS Integers, FiniteSets, Functions

CONSTANTS
  MaxPrice, Base,                         \* the price grid
  SRLevels, Atrs, RangeSums, Widths1h,    \* indicator values explored
  MinSamples, AGradeMinSamples,           \* KNN.min_samples, KNN.a_grade_min_samples
  WinratePct, AGradeWinratePct,           \* the two win rate thresholds, in percent
  MaxNeighbours,                          \* KNN.top_k
  LowBalance, HighBalance,                \* the risk tiers of sizer.ts: 3 % and 1 %
  HardCap,                                \* HARD_CAP_LEVERAGE
  Balances, LevCaps,                      \* account balances and exchange maxLeverage explored
  Lots, MinLots,                          \* ticks per unit, minOrderSize in ticks
  None                                    \* null

ASSUME PriceAssumption == MaxPrice \in Nat /\ Base \in Nat
ASSUME IndicatorAssumption == SRLevels \subseteq 1..MaxPrice /\ Atrs \cup RangeSums \cup Widths1h \subseteq Nat
ASSUME TierAssumption ==
  LowBalance \in Nat \ {0} /\ HighBalance \in Nat /\ LowBalance < HighBalance
ASSUME GradeAssumption ==
  /\ {MinSamples, AGradeMinSamples, WinratePct, AGradeWinratePct} \subseteq Nat
  /\ AGradeMinSamples <= MinSamples /\ AGradeWinratePct <= WinratePct
ASSUME SizeAssumption ==              \* calculateSize answers null where the balance is not positive
  Balances \cup LevCaps \cup {HardCap, Lots, MinLots} \subseteq Nat \ {0}
ASSUME NoneAssumption ==
  None \notin {"LONG", "SHORT", "LONG_ONLY", "SHORT_ONLY", "NEUTRAL", "up", "flat", "down"} \cup Int

Directions == {"LONG", "SHORT"}
Biases == {"LONG_ONLY", "SHORT_ONLY", "NEUTRAL", None}
Timeframes == {"5M", "1M"}
Prices == 1..MaxPrice
Candles == {c \in [open : Prices, high : Prices, low : Prices, close : Prices] :
              {c.open, c.close} \subseteq c.low..c.high}
Bands == {b \in [lower : Prices, upper : Prices] : b.lower < b.upper}
EvenBands == {b \in Bands : (b.lower + b.upper) % 2 = 0}   \* their SMA20 is on the grid
ASSUME NoBandAssumption == None \notin Bands

VARIABLES
  bias,      \* symbol_state.daily_bias
  session,   \* direction of the active watch session, or None
  watching,  \* the 1H handler: {}, or the bias it has read
  stage,     \* where the handler of the entry candle is
  read,      \* the bias in its symbolState
  active,    \* the direction of its activeSession
  signal,    \* the evidence result
  order,     \* what executeEntry is called with
  rewritten  \* history, read by no guard: the bias has been written since it was read

signalVars == <<bias, session, watching, stage, read, active, signal, order, rewritten>>

Opposite(d) == IF d = "LONG" THEN "SHORT" ELSE "LONG"
Follows(d, b) == <<d, b>> \in {<<"LONG", "LONG_ONLY">>, <<"SHORT", "SHORT_ONLY">>}
IsDirectionAllowed(d, b) == Follows(d, b) \/ b = "NEUTRAL"
Lesser(x, y) == IF x < y THEN x ELSE y
Greater(x, y) == IF x < y THEN y ELSE x
Abs(x) == IF x < 0 THEN -x ELSE x
Touches(c, d, b) == IF d = "LONG" THEN c.low <= b.lower ELSE c.high >= b.upper
Beyond(p, d, b) == IF d = "LONG" THEN p < b.lower ELSE p > b.upper
FarWick(c, d) == IF d = "LONG" THEN c.high - c.close ELSE c.close - c.low
Tail(c, d) == IF d = "LONG" THEN Lesser(c.open, c.close) - c.low
                            ELSE c.high - Greater(c.open, c.close)

DetermineDailyBias(close, open, slope) ==
  IF slope >= 0 /\ close > open THEN "LONG_ONLY"
  ELSE IF slope <= 0 /\ close < open THEN "SHORT_ONLY" ELSE "NEUTRAL"

-----------------------------------------------------------------------------
(***************************************************************************)
(* detectWatching.  The 1H indicators: BB20 and its SMA20 (or none yet),   *)
(* BB4, the squeeze state, the other S/R levels, and ATR14.                *)
(***************************************************************************)
HourInputs ==
  [candle : {c \in Candles : c.open = c.close}, bb20 : EvenBands \cup {None}, bb4 : Bands,
   expansion : BOOLEAN, levels : SUBSET SRLevels, atr : {None} \cup Atrs]

\* The wick test answers null, and the S/R levels and BB4 are looked at next.
SqueezeBreakout(i, b) ==
  {d \in Directions :
     /\ i.expansion /\ i.bb20 # None
     /\ Beyond(i.candle.close, Opposite(d), i.bb20) /\ IsDirectionAllowed(d, b)
     /\ 2 * FarWick(i.candle, d) < i.candle.high - i.candle.low
        \/ i.candle.high = i.candle.low}

Sma20(i) == (i.bb20.lower + i.bb20.upper) \div 2
NearLevels(i) ==                        \* |close - level| < 0.3 ATR
  {l \in i.levels : 10 * Abs(i.candle.close - l) < 3 * i.atr}
Surplus(i) ==                           \* sum of the near levels' distances, SMA20 with them
  LET near == {Sma20(i)} \cap {p \in Prices : 10 * Abs(i.candle.close - p) < 3 * i.atr}
      count(S) == Cardinality(S)
      above(S) == SumFunctionOnSet([p \in Prices |-> p - i.candle.close], S)
  IN  [count |-> count(near) + count(NearLevels(i)), sum |-> above(near) + above(NearLevels(i))]

SRConfluence(i, b) ==
  {d \in Directions :
     /\ i.atr # None /\ i.bb20 # None
     /\ Surplus(i).count >= 2
     /\ d = (IF Surplus(i).sum > 0 THEN "SHORT" ELSE "LONG")
     /\ IsDirectionAllowed(d, b)}

BB4Touch(i, b) ==
  {d \in Directions :
     /\ i.bb20 # None /\ IsDirectionAllowed(d, b)
     /\ IF d = "LONG" THEN i.candle.close <= i.bb4.lower ELSE i.candle.close >= i.bb4.upper}

\* The first that answers; where a band test allows both, LONG is asked first.
First(S) == IF "LONG" \in S THEN "LONG" ELSE IF S = {} THEN None ELSE "SHORT"
DetectWatching(i, b) ==
  LET found == <<SqueezeBreakout(i, b), SRConfluence(i, b), BB4Touch(i, b)>>
  IN  IF found[1] # {} THEN First(found[1])
      ELSE IF found[2] # {} THEN First(found[2]) ELSE First(found[3])

CheckInvalidation(i, d, b) ==
  \/ b = "NEUTRAL"
  \/ b # None /\ ~IsDirectionAllowed(d, b)
  \/ i.bb20 # None /\ Beyond(i.candle.close, d, i.bb20)

\* The session after a 1H candle i, d before it.
Watch(i, d, b) ==
  IF d # None THEN IF CheckInvalidation(i, d, b) THEN None ELSE d
  ELSE IF b # None THEN DetectWatching(i, b) ELSE None

-----------------------------------------------------------------------------
(***************************************************************************)
(* checkEvidence and calcSlPrice, on the 5M or 1M candle.  bb4_1h is the   *)
(* 1H band where four 1H candles are known; slope is that of SMA20.        *)
(***************************************************************************)
EntryInputs ==
  [candle : Candles, bb4 : Bands, bb20 : EvenBands \cup {None},
   bb4_1h : {None} \cup {b \in Bands : b.upper - b.lower \in Widths1h},
   slope : {None, "up", "flat", "down"}]

\* SL = the extreme minus or plus 0.15 of the wick, of the range where there is no wick
SlBuffer(c, d) == 3 * (IF Tail(c, d) = 0 THEN c.high - c.low ELSE Tail(c, d))
CalcSlPriceInside(c, d) ==                 \* variant: the buffer on the wrong side
  IF d = "LONG" THEN 20 * c.low + SlBuffer(c, d) ELSE 20 * c.high - SlBuffer(c, d)

CalcSlPrice(c, d) ==
  IF SlBuffer(c, d) = 0 THEN 20 * c.close
  ELSE IF d = "LONG" THEN 20 * c.low - SlBuffer(c, d) ELSE 20 * c.high + SlBuffer(c, d)

TouchDirection(i) ==
  IF Touches(i.candle, "LONG", i.bb4) THEN "LONG"
  ELSE IF Touches(i.candle, "SHORT", i.bb4) THEN "SHORT" ELSE None

DoubleB(i, d) == i.bb20 # None /\ Touches(i.candle, d, i.bb20)
SlopeFitsLoosely(s, d) ==                  \* variant: a flat slope fits LONG
  s = None \/ IF d = "LONG" THEN s \in {"up", "flat"} ELSE s = "down"
SlopeFits(s, d) == s = None \/ s = (IF d = "LONG" THEN "up" ELSE "down")
NoSignal == [dir |-> None, entry |-> 0, sl |-> 0, aGrade |-> FALSE]

CheckEvidence(i, watched) ==
  LET d == TouchDirection(i) IN
  IF d # None /\ d = watched /\ (DoubleB(i, d) \/ SlopeFits(i.slope, d))
  THEN [dir |-> d, entry |-> 20 * i.candle.close, sl |-> CalcSlPrice(i.candle, d),
        aGrade |-> i.bb4_1h # None /\ Touches(i.candle, d, i.bb4_1h)]
  ELSE NoSignal

(***************************************************************************)
(* checkSafety: wick, box centre, abnormal candle, 1M noise.  more holds   *)
(* the timeframe, the sum of the last five ranges (or none) and sma20_5m.  *)
(***************************************************************************)
SafetyInputs == [timeframe : Timeframes, ranges5 : {None} \cup RangeSums, sma20_5m : {None} \cup Prices]

Extent(c) == c.high - c.low
WickOk(c, d, tf, b) ==
  \/ Follows(d, b) \/ Extent(c) = 0
  \/ Tail(c, d) * 10 >= Extent(c) * (IF tf = "5M" THEN 1 ELSE 10)
BoxOk(i) == i.bb20 # None => 20 * Abs(2 * i.candle.close - (i.bb20.lower + i.bb20.upper))
                               >= 6 * (i.bb20.upper - i.bb20.lower)
CalmOk(c, d, more, b) ==
  ~Follows(d, b) /\ more.ranges5 # None => 5 * Extent(c) <= 2 * more.ranges5
NoiseOk(c, more, b) ==
  more.timeframe = "1M" /\ more.sma20_5m # None /\ b \notin {None, "NEUTRAL"} =>
    (c.close > more.sma20_5m) = (b = "LONG_ONLY")

CheckSafety(i, d, more, b) ==
  /\ WickOk(i.candle, d, more.timeframe, b) /\ BoxOk(i)
  /\ CalmOk(i.candle, d, more, b) /\ NoiseOk(i.candle, more, b)

BiasUnchecked(d, b) == d \in Directions /\ b \in Biases   \* variant: no cross-validation
BiasMatches(d, b) == b \in {None, "NEUTRAL"} \/ Follows(d, b)

\* An entry candle passes evidence, safety and the bias.
LetsThrough(i, d, b) ==
  /\ CheckEvidence(i, d) # NoSignal /\ BiasMatches(d, b)
  /\ \E more \in SafetyInputs : CheckSafety(i, d, more, b)

-----------------------------------------------------------------------------
(***************************************************************************)
(* searchKnn, applyTimeDecay and makeDecision.  A neighbourhood counts the *)
(* labelled neighbours by label and age; weights are in tenths.            *)
(***************************************************************************)
Ages == {"recent", "medium", "old"}
CalcTimeDecay(age) == IF age = "recent" THEN 10 ELSE IF age = "medium" THEN 7 ELSE 2
Labels == {"WIN", "LOSS", "TIME_EXIT"}
Cells == Labels \X Ages
Neighbourhoods == {n \in [Cells -> 0..2] : SumFunction(n) <= MaxNeighbours}

WeightOf(n, ls) == SumFunction([c \in Cells |-> IF c[1] \in ls THEN n[c] * CalcTimeDecay(c[2]) ELSE 0])
Weight(n) == WeightOf(n, Labels)
WinrateReached(n, pct) == 100 * WeightOf(n, {"WIN"}) >= pct * Weight(n)
\* Expectancy: +1, -1, -0.5, less the commission of 0.0008
TwiceExpectancy(n) ==
  2 * WeightOf(n, {"WIN"}) - WeightOf(n, {"TIME_EXIT"}) - 2 * WeightOf(n, {"LOSS"})

FloorSwapped(aGrade) == IF aGrade THEN MinSamples ELSE AGradeMinSamples   \* variant: grades exchanged
Floor(aGrade) == IF aGrade THEN AGradeMinSamples ELSE MinSamples

MakeDecision(n, aGrade) ==
  IF SumFunction(n) < Floor(aGrade) THEN "SKIP"
  ELSE IF WinrateReached(n, IF aGrade THEN AGradeWinratePct ELSE WinratePct)
          /\ 1250 * TwiceExpectancy(n) > 2 * Weight(n)
  THEN "PASS" ELSE "FAIL"

-----------------------------------------------------------------------------
(***************************************************************************)
(* getRiskPct and calculateSize.  Risk is RiskNum(b) / RiskDen; the size   *)
(* is counted in ticks, Lots of them to a unit.                            *)
(***************************************************************************)
RiskDen == 100 * (HighBalance - LowBalance)
RiskNum(b) ==
  IF b <= LowBalance THEN 3 * (HighBalance - LowBalance)
  ELSE IF b >= HighBalance THEN HighBalance - LowBalance
  ELSE (HighBalance - LowBalance) + 2 * (HighBalance - b)

SlDistance(s) == Abs(s.entry - s.sl)
EntryPrice(s) == 20 * Base + s.entry
RawSize(s, b) == <<20 * Lots * b * RiskNum(b), RiskDen * SlDistance(s)>>
TooLevered(s, cap) == RiskNum(cap[1]) * EntryPrice(s) > cap[2] * RiskDen * SlDistance(s)
CappedSize(s, cap) == <<20 * Lots * cap[1] * cap[2], EntryPrice(s)>>
RoundUpToTick(q) == (q[1] + q[2] - 1) \div q[2]           \* variant: rounds up
RoundDownToTick(q) == q[1] \div q[2]

\* cap is <<balance, exchange maxLeverage>>; no size where it is below the minimum
CalculateSize(s, cap) ==
  LET most == <<cap[1], Lesser(HardCap, cap[2])>>
      size == RoundDownToTick(IF TooLevered(s, most) THEN CappedSize(s, most) ELSE RawSize(s, cap[1]))
      unit == 20 * Lots * cap[1]
  IN  [size |-> size, leverage |-> (size * EntryPrice(s) + unit - 1) \div unit,
       balance |-> cap[1], cap |-> cap[2]]

NoOrder == [size |-> 0, leverage |-> 0, balance |-> 0, cap |-> 0]

-----------------------------------------------------------------------------
SignalInit ==
  /\ bias \in Biases /\ session = None /\ watching = {}
  /\ stage = "idle" /\ read = None /\ active = None
  /\ signal = NoSignal /\ order = NoOrder /\ rewritten = FALSE

\* process1D, at any time.
UpdateDailyBias ==
  /\ \E open, close \in Prices, slope \in -1..1 : bias' = DetermineDailyBias(close, open, slope)
  /\ rewritten' = (stage # "idle")
  /\ UNCHANGED <<session, watching, stage, read, active, signal, order>>

\* process1H reads the symbol's state; then the session, which it alone writes.
HourCloses ==
  /\ watching = {} /\ watching' = {bias}
  /\ UNCHANGED <<bias, session, stage, read, active, signal, order, rewritten>>

Watchings ==
  {<<d, b, Watch(i, d, b)>> : d \in Directions \cup {None}, b \in Biases, i \in HourInputs}
Process1H ==
  /\ \E b \in watching, w \in Watchings : w[1] = session /\ w[2] = b /\ session' = w[3]
  /\ watching' = {}
  /\ UNCHANGED <<bias, stage, read, active, signal, order, rewritten>>

\* Any await of a handler may fail and end it.
HourFails ==
  /\ watching # {} /\ watching' = {}
  /\ UNCHANGED <<bias, session, stage, read, active, signal, order, rewritten>>

\* processEntry reads the symbol's state once, for the limits, safety and the bias;
ReadSymbolState ==
  /\ stage = "idle" /\ stage' = "state" /\ read' = bias
  /\ UNCHANGED <<bias, session, watching, active, signal, order, rewritten>>

\* after the limits (module Limits), the session;
ReadWatchSession ==
  /\ stage = "state" /\ session # None
  /\ stage' = "evidence" /\ active' = session
  /\ UNCHANGED <<bias, session, watching, read, signal, order, rewritten>>

\* after more candles are loaded, the gates, on what was read.
Passing ==
  {<<t[2], t[3], CheckEvidence(t[1], t[2])>> :
     t \in {x \in EntryInputs \X Directions \X Biases : LetsThrough(x[1], x[2], x[3])}}
PassGates ==
  /\ stage = "evidence" /\ stage' = "knn"
  /\ \E p \in Passing : p[1] = active /\ p[2] = read /\ signal' = p[3]
  /\ read' = None /\ active' = None
  /\ UNCHANGED <<bias, session, watching, order, rewritten>>

Decisions == {<<g, MakeDecision(n, g)>> : g \in BOOLEAN, n \in Neighbourhoods}
SearchKnn ==
  /\ stage = "knn" /\ stage' = "size"
  /\ <<signal.aGrade, "PASS">> \in Decisions
  /\ UNCHANGED <<bias, session, watching, read, active, signal, order, rewritten>>

ComputeEntrySize ==
  /\ stage = "size" /\ stage' = "sized" /\ SlDistance(signal) # 0
  /\ \E cap \in Balances \X LevCaps :
       order' = CalculateSize(signal, cap) /\ order'.size >= MinLots
  /\ UNCHANGED <<bias, session, watching, read, active, signal, rewritten>>

\* The entry handler ends: there is no session, a gate refuses, KNN does not pass, the
\* symbol is in analysis or alert mode, calculateSize throws on entry = stop or answers
\* null, an await fails; or executeEntry has the order.
EntryEnds ==
  /\ stage # "idle" /\ stage' = "idle" /\ read' = None /\ active' = None
  /\ signal' = NoSignal /\ order' = NoOrder /\ rewritten' = FALSE
  /\ UNCHANGED <<bias, session, watching>>

SignalNext ==
  \/ UpdateDailyBias \/ HourCloses \/ Process1H \/ HourFails
  \/ ReadSymbolState \/ ReadWatchSession \/ PassGates \/ SearchKnn \/ ComputeEntrySize \/ EntryEnds

SignalSpec == SignalInit /\ [][SignalNext]_signalVars
-----------------------------------------------------------------------------
\* The market upside down: prices reflected, LONG and SHORT exchanged.
Flip(p) == MaxPrice + 1 - p
FlipDir(d) == IF d \in Directions THEN Opposite(d) ELSE d
FlipBias(b) == IF b = "LONG_ONLY" THEN "SHORT_ONLY" ELSE IF b = "SHORT_ONLY" THEN "LONG_ONLY" ELSE b
FlipBand(b) == IF b = None THEN None ELSE [lower |-> Flip(b.upper), upper |-> Flip(b.lower)]
FlipSlope(s) == IF s = "up" THEN "down" ELSE IF s = "down" THEN "up" ELSE s
FlipCandle(c) ==
  [open |-> Flip(c.open), high |-> Flip(c.low), low |-> Flip(c.high), close |-> Flip(c.close)]
FlipHour(i) ==
  [i EXCEPT !.candle = FlipCandle(@), !.bb20 = FlipBand(@), !.bb4 = FlipBand(@),
            !.levels = {Flip(l) : l \in @}]
FlipEntry(i) ==
  [i EXCEPT !.candle = FlipCandle(@), !.bb20 = FlipBand(@), !.bb4 = FlipBand(@),
            !.bb4_1h = FlipBand(@), !.slope = FlipSlope(@)]
FlipMore(m) == IF m.sma20_5m = None THEN m ELSE [m EXCEPT !.sma20_5m = Flip(@)]
FlipSignal(s) ==
  IF s = NoSignal THEN s
  ELSE [dir |-> Opposite(s.dir), entry |-> 20 * (MaxPrice + 1) - s.entry,
        sl |-> 20 * (MaxPrice + 1) - s.sl, aGrade |-> s.aGrade]

\* No handler is running: what the gates compute is looked at here, for every input.
Resting == stage = "idle" /\ watching = {}

\* The daily bias, detectWatching, checkEvidence and checkSafety treat LONG and SHORT alike: on the
\* market turned upside down they answer the opposite, but where a tie must fall
\* to one side (S/R levels that balance, both BB4 bands touched, a close on the SMA).
MirrorFair ==
  Resting =>
    /\ \A open, close \in Prices, slope \in -1..1 :
         DetermineDailyBias(Flip(close), Flip(open), -slope)
           = FlipBias(DetermineDailyBias(close, open, slope))
    /\ \A i \in HourInputs : (i.atr = None \/ i.bb20 = None \/ Surplus(i).sum # 0) =>
         DetectWatching(FlipHour(i), FlipBias(bias)) = FlipDir(DetectWatching(i, bias))
    /\ session # None => \A i \in EntryInputs :
         /\ (\E d \in Directions : ~Touches(i.candle, d, i.bb4)) =>
              CheckEvidence(FlipEntry(i), Opposite(session)) = FlipSignal(CheckEvidence(i, session))
         /\ CheckEvidence(i, session) # NoSignal =>
              \A more \in SafetyInputs : more.sma20_5m # i.candle.close =>
                CheckSafety(i, session, more, bias)
                  = CheckSafety(FlipEntry(i), Opposite(session), FlipMore(more), FlipBias(bias))

\* What evidence lets through can be traded: the stop lies beyond every price of the
\* signal's candle, so calculateSize does not throw but for a flat candle.  And an entry
\* goes against the daily bias of the moment it is sized or ordered only where a 1D
\* candle wrote the bias while the entry was handled: never because its session was
\* opened, or read, under another bias, or the 1H handler decided on an older one.
SignalSound ==
  /\ Resting /\ session # None =>
       \A i \in EntryInputs : LET s == CheckEvidence(i, session) IN
         s # NoSignal /\ Extent(i.candle) # 0 =>
           IF s.dir = "LONG" THEN s.sl < 20 * i.candle.low ELSE s.sl > 20 * i.candle.high
  /\ stage \in {"knn", "size", "sized"} /\ bias \in {"LONG_ONLY", "SHORT_ONLY"} =>
       Follows(signal.dir, bias) \/ rewritten

\* A better past never turns an entry down: what passes still passes as A grade, with
\* a loss or time exit turned into a win, with a win grown younger or a loss older.
Younger(a, b) == <<a, b>> \in {<<"recent", "medium">>, <<"recent", "old">>, <<"medium", "old">>}
Moved(n, from, to) ==
  [c \in Cells |-> n[c] - (IF c = from THEN 1 ELSE 0) + (IF c = to THEN 1 ELSE 0)]
KnnMonotone ==
  Resting => \A n \in Neighbourhoods : MakeDecision(n, FALSE) = "PASS" =>
    /\ MakeDecision(n, TRUE) = "PASS"
    /\ \A from, to \in Cells :
         /\ n[from] > 0
         /\ \/ from[2] = to[2] /\ to[1] = "WIN"
            \/ from[1] = "WIN" /\ to[1] = "WIN" /\ Younger(to[2], from[2])
            \/ from[1] = "LOSS" /\ to[1] = "LOSS" /\ Younger(from[2], to[2])
         => MakeDecision(Moved(n, from, to), FALSE) = "PASS"

\* An order loses no more than the tier's risk at its stop, after rounding and the
\* leverage cap, and the leverage set on the exchange carries it, within the exchange's
\* cap and the program's own.
SizeBounded ==
  stage = "sized" =>
    /\ order.size * SlDistance(signal) * RiskDen <= 20 * Lots * order.balance * RiskNum(order.balance)
    /\ order.leverage <= order.cap /\ order.leverage <= HardCap
    /\ order.size * EntryPrice(signal) <= order.leverage * 20 * Lots * order.balance
=============================================================================
