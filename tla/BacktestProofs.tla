--------------------------- MODULE BacktestProofs ---------------------------
(***************************************************************************)
(* Proofs about a backtest and a walk-forward optimisation, for any path   *)
(* of prices, any grid and samples, and any answers of the runs.           *)
(*                                                                         *)
(* BtInv: while the strategy holds a position one stop of its size waits,  *)
(* so that the first fill closes all of it, at what the trade records; the *)
(* account's total is then the initial balance and what the trades earned. *)
(* The report is read off that sum: expectancy by splitting it into wins   *)
(* and losses, the drawdown by following the loop over the trades.         *)
(*                                                                         *)
(* WfoInv: the walk's results were measured; the gate follows because, if  *)
(* no window kept more than half, the efficiencies would not add up.  The  *)
(* windows are compared by Lands, where a day runs over into the next      *)
(* month at most once, although adding months twice is not adding them     *)
(* once.                                                                   *)
(*                                                                         *)
(* What would be an induction over trades, windows or sums is an argument  *)
(* about the least counterexample.                                         *)
(***************************************************************************)
EXTENDS BacktestCli, SumTheorems, SequenceTheorems

-----------------------------------------------------------------------------
(* Least and greatest elements. *)

LEMMA LeastNat ==
  ASSUME NEW T \in SUBSET Nat, T # {}
  PROVE  \E n \in T : \A m \in T : n <= m
<1>1. PICK k \in T : TRUE
  OBVIOUS
<1> DEFINE F == {0..m : m \in T \cap (0..k)}
<1>2. F \in SUBSET (SUBSET (0..k))
  OBVIOUS
<1>2a. F # {}
  <2>1. k \in T \cap (0..k)
    OBVIOUS
  <2>2. QED
    BY <2>1
<1>2b. IsFiniteSet(0..k)
  BY FS_Interval
<1> DEFINE S == 0..k
<1> HIDE DEF F
<1>3. PICK U \in F : \A V \in F : V \subseteq U => V = U
  <2>1. F \in SUBSET (SUBSET S) /\ IsFiniteSet(S)
    BY <1>2, <1>2b
  <2> HIDE DEF S
  <2>2. QED
    BY <2>1, <1>2a, SmallestSubset
<1>4. PICK n \in T \cap (0..k) : U = 0..n
  BY <1>3 DEF F
<1>5. ASSUME NEW m \in T, ~(n <= m) PROVE FALSE
  <2>1. m \in T \cap (0..k)
    BY <1>4, <1>5
  <2>2. 0..m \in F
    BY <2>1 DEF F
  <2>3. 0..m \subseteq 0..n /\ n \notin 0..m /\ n \in 0..n
    BY <1>4, <1>5
  <2>4. QED
    BY <1>3, <1>4, <2>2, <2>3
<1>6. QED
  BY <1>4, <1>5

\* The indices of a sequence have a greatest one.
LEMMA GreatestIndex ==
  ASSUME NEW n \in Nat, NEW T \in SUBSET (1..n), T # {}
  PROVE  Max(T) \in T /\ \A i \in T : Max(T) >= i
<1> DEFINE D == {n - i : i \in T}
<1>1. D \in SUBSET Nat /\ D # {}
  OBVIOUS
<1> HIDE DEF D
<1>2. PICK d \in D : \A e \in D : d <= e
  BY <1>1, LeastNat
<1>3. PICK i \in T : d = n - i
  BY <1>2 DEF D
<1>4. ASSUME NEW j \in T PROVE i >= j
  <2>1. n - j \in D
    BY DEF D
  <2>2. n - i <= n - j
    BY <1>2, <1>3, <2>1
  <2>3. QED
    BY <2>2
<1>5. QED
  BY <1>3, <1>4 DEF Max

\* Of the values of a sequence one is the highest, and one of those the first.
LEMMA FirstBestHolds ==
  ASSUME NEW n \in Nat, n # 0, NEW f, DOMAIN f = 1..n, \A i \in 1..n : f[i] \in Int
  PROVE  FirstBest(f) \in 1..n
<1> DEFINE High(i, k) == \A j \in 1..k : f[j] <= f[i]
           T == {k \in 1..n : ~\E i \in 1..k : High(i, k)}
<1>1. \E i \in 1..n : High(i, n)
  <2>0. n \in 1..n
    OBVIOUS
  <2> HIDE DEF High
  <2> SUFFICES ASSUME T # {} PROVE FALSE
    BY <2>0
  <2>1. T \in SUBSET Nat
    OBVIOUS
  <2> HIDE DEF T
  <2>2. PICK k \in T : \A m \in T : k <= m
    BY <2>1, LeastNat
  <2>3. k \in 1..n /\ ~\E i \in 1..k : High(i, k)
    BY <2>2 DEF T
  <2>4. k # 1
    <3>1. f[1] \in Int /\ f[1] <= f[1] /\ 1..1 = {1}
      OBVIOUS
    <3>2. High(1, 1)
      BY <3>1 DEF High
    <3>3. \E i \in 1..1 : High(i, 1)
      BY <3>1, <3>2
    <3>4. QED
      BY <2>3, <3>3
  <2>5. k - 1 \notin T /\ k - 1 \in 1..n
    BY <2>2, <2>3, <2>4
  <2>6. PICK i \in 1..(k - 1) : High(i, k - 1)
    BY <2>5 DEF T
  <2>7. CASE f[k] <= f[i]
    <3>1. High(i, k)
      BY <2>3, <2>6, <2>7 DEF High
    <3>2. QED
      BY <2>3, <2>6, <3>1
  <2>8. CASE ~(f[k] <= f[i])
    <3>1. \A j \in 1..k : j = k \/ j \in 1..(k - 1)
      BY <2>3
    <3>2. \A j \in 1..(k - 1) : f[j] <= f[i] /\ f[j] \in Int
      BY <2>3, <2>6 DEF High
    <3>3. f[k] \in Int /\ f[i] \in Int
      BY <2>3, <2>6
    <3>4. High(k, k)
      BY <2>8, <3>1, <3>2, <3>3 DEF High
    <3>5. k \in 1..k
      BY <2>3
    <3>6. QED
      BY <2>3, <3>4, <3>5
  <2>9. QED
    BY <2>7, <2>8
<1> DEFINE B == {i \in 1..n : High(i, n)}
<1>2. B \in SUBSET Nat /\ B # {}
  BY <1>1
<1> HIDE DEF B
<1>3. PICK b \in B : \A i \in B : b <= i
  BY <1>2, LeastNat
<1>4. b \in 1..n /\ High(b, n)
  BY <1>3 DEF B
<1>5. ASSUME NEW j \in 1..(b - 1), ~(f[j] < f[b]) PROVE FALSE
  <2>1. j \in 1..n /\ j \notin B
    BY <1>3, <1>4, <1>5
  <2>2. PICK i \in 1..n : ~(f[i] <= f[j])
    BY <2>1 DEF B
  <2>3. f[i] <= f[b] /\ f[i] \in Int /\ f[b] \in Int /\ f[j] \in Int
    BY <1>4, <2>1, <2>2
  <2>4. QED
    BY <1>5, <2>2, <2>3
<1>6. \E i \in DOMAIN f : (\A j \in DOMAIN f : f[j] <= f[i]) /\ \A j \in 1..(i - 1) : f[j] < f[i]
  BY <1>4, <1>5
<1>7. QED
  BY <1>6 DEF FirstBest

-----------------------------------------------------------------------------
(* Sums over the indices of a sequence. *)

LEMMA SumExtend ==
  ASSUME NEW k \in Nat, k # 0, NEW f, \A i \in 1..k : f[i] \in Int
  PROVE  /\ SumFunctionOnSet(f, 1..(k - 1)) \in Int
         /\ SumFunctionOnSet(f, 1..k) = SumFunctionOnSet(f, 1..(k - 1)) + f[k]
<1> DEFINE S == 1..k  R == 1..(k - 1)
<1>1. IsFiniteSet(S) /\ IsFiniteSet(R)
  BY FS_Interval
<1>2. k \in S /\ S \ {k} = R /\ f[k] \in Int
  OBVIOUS
<1>3. \A i \in S : f[i] \in Int
  OBVIOUS
<1>4. \A i \in R : f[i] \in Int
  OBVIOUS
<1> HIDE DEF S, R
<1>5. SumFunctionOnSet(f, R) \in Int
  BY <1>1, <1>4, SumInt
<1>6. SumFunctionOnSet(f, S) = f[k] + SumFunctionOnSet(f, S \ {k})
  BY <1>1, <1>2, <1>3, SumRemove
<1>7. SumFunctionOnSet(f, S) = SumFunctionOnSet(f, R) + f[k]
  <2> DEFINE x == SumFunctionOnSet(f, S)  y == SumFunctionOnSet(f, R)  z == f[k]
  <2>1. x = z + y
    BY <1>2, <1>6
  <2>2. y \in Int /\ z \in Int
    BY <1>2, <1>5
  <2> HIDE DEF x, y, z
  <2>3. x = y + z
    BY <2>1, <2>2
  <2>4. QED
    BY <2>3 DEF x, y, z
<1>8. QED
  BY <1>5, <1>7 DEF S, R

\* If no term is more than half of c, the sum of n terms is no more than n halves.
LEMMA SumBound ==
  ASSUME NEW n \in Nat, NEW c \in Int, NEW f, \A i \in 1..n : f[i] \in Int /\ 2 * f[i] <= c
  PROVE  SumFunctionOnSet(f, 1..n) \in Int /\ 2 * SumFunctionOnSet(f, 1..n) <= c * n
<1> DEFINE Sum(k) == SumFunctionOnSet(f, 1..k)
           T == {k \in 0..n : ~(Sum(k) \in Int /\ 2 * Sum(k) <= c * k)}
<1> SUFFICES ASSUME T # {} PROVE FALSE
  <2>1. n \in 0..n
    OBVIOUS
  <2> HIDE DEF Sum
  <2>2. n \notin T => Sum(n) \in Int /\ 2 * Sum(n) <= c * n
    BY <2>1
  <2> HIDE DEF T
  <2>3. QED
    BY <2>2 DEF Sum
<1>1. T \in SUBSET Nat
  OBVIOUS
<1> HIDE DEF T
<1>2. PICK k \in T : \A m \in T : k <= m
  BY <1>1, LeastNat
<1>3. k \in 0..n /\ ~(Sum(k) \in Int /\ 2 * Sum(k) <= c * k)
  BY <1>2 DEF T
<1>4. k # 0
  <2>1. 1..0 = {}
    OBVIOUS
  <2>2. Sum(0) = 0
    BY <2>1, SumEmpty
  <2> HIDE DEF Sum
  <2>3. c * 0 = 0
    OBVIOUS
  <2>4. QED
    BY <1>3, <2>2, <2>3
<1>5. k - 1 \in 0..n /\ k - 1 \notin T
  BY <1>2, <1>3, <1>4
<1>6. Sum(k - 1) \in Int /\ 2 * Sum(k - 1) <= c * (k - 1)
  BY <1>5 DEF T
<1>7. Sum(k) = Sum(k - 1) + f[k] /\ f[k] \in Int /\ 2 * f[k] <= c
  <2>1. k \in Nat /\ k # 0 /\ k \in 1..n /\ \A i \in 1..k : f[i] \in Int
    BY <1>3, <1>4
  <2>2. QED
    BY <2>1, SumExtend
<1>8. c * k = c * (k - 1) + c /\ c * (k - 1) \in Int
  BY <1>3
<1> DEFINE x == Sum(k)  y == Sum(k - 1)  z == c * (k - 1)  w == c * k  v == f[k]
<1>9. /\ y \in Int /\ z \in Int /\ v \in Int /\ 2 * y <= z /\ x = y + v /\ 2 * v <= c /\ w = z + c
      /\ ~(x \in Int /\ 2 * x <= w)
  BY <1>3, <1>6, <1>7, <1>8
<1> HIDE DEF x, y, z, w, v, Sum
<1>10. QED
  BY <1>9

-----------------------------------------------------------------------------
(* Sequences whose elements have no named type. *)

IsSequence(s) == s \in Seq({s[i] : i \in DOMAIN s})

LEMMA EmptyIsSequence == IsSequence(<<>>)
BY DEF IsSequence

\* t is s and x after it.
Extended(t, s, x) ==
  /\ IsSequence(t) /\ Len(s) \in Nat /\ DOMAIN s = 1..Len(s)
  /\ Len(t) = Len(s) + 1 /\ DOMAIN t = 1..Len(t)
  /\ \A i \in 1..Len(s) : t[i] = s[i]
  /\ t[Len(t)] = x

LEMMA AppendIsSequence ==
  ASSUME NEW s, IsSequence(s), NEW x PROVE Extended(Append(s, x), s, x)
<1> DEFINE t == Append(s, x)
<1> DEFINE S == {s[i] : i \in DOMAIN s}
           U == S \cup {x}
<1>1. s \in Seq(S)
  BY DEF IsSequence
<1>2. s \in Seq(U) /\ x \in U /\ Len(s) \in Nat /\ DOMAIN s = 1..Len(s)
  <2>1. S \subseteq U /\ x \in U
    OBVIOUS
  <2> HIDE DEF S, U
  <2>2. Len(s) \in Nat /\ DOMAIN s = 1..Len(s) /\ \A i \in 1..Len(s) : s[i] \in S
    BY <1>1
  <2>3. s \in Seq(U)
    BY <1>1, <2>1
  <2>4. QED
    BY <2>1, <2>2, <2>3
<1> HIDE DEF S, U
<1> HIDE DEF t
<1>3. /\ t \in Seq(U) /\ Len(t) = Len(s) + 1 /\ DOMAIN t = 1..Len(t)
      /\ \A i \in 1..Len(s) : t[i] = s[i]
      /\ t[Len(t)] = x
  BY <1>2 DEF t
<1>4. t \in Seq({t[i] : i \in DOMAIN t})
  <2> DEFINE V == {t[i] : i \in DOMAIN t}  m == Len(t)
  <2>1. t \in [1..m -> U] /\ m \in Nat
    BY <1>3, LenProperties
  <2>2. \A i \in 1..m : t[i] \in V
    BY <1>3
  <2> HIDE DEF V, m
  <2>3. t \in [1..m -> V]
    BY <2>1, <2>2
  <2>4. t \in Seq(V)
    BY <2>1, <2>3, SeqDef
  <2>5. QED
    BY <2>4 DEF V
<1>5. QED
  BY <1>2, <1>3, <1>4 DEF IsSequence, Extended, t

-----------------------------------------------------------------------------
(* The walk-forward gate. *)

\* A window is recorded only if it earned in-sample.
Earned(r) == r.is \in Expectancies /\ r.is > 0 /\ r.oos \in Expectancies

WfoInv ==
  /\ IsSequence(searched) /\ \A i \in DOMAIN searched : searched[i].expectancy \in Expectancies
  /\ IsSequence(results) /\ \A i \in DOMAIN results : Earned(results[i])
  /\ stage = "random" => searched # <<>>
  /\ stage = "parent" => range \in Ranges
  /\ stored # Unset => stage = "done"
  /\ GateHonest

LEMMA WfoInvInit == WfoInit => WfoInv
<1> SUFFICES ASSUME WfoInit PROVE WfoInv
  OBVIOUS
<1>1. DOMAIN searched = {} /\ DOMAIN results = {}
  BY DEF WfoInit
<1>2. QED
  BY <1>1, EmptyIsSequence DEF WfoInit, WfoInv, GateHonest

\* Of what a search has found, the best is an element.
LEMMA BestIsOne ==
  ASSUME NEW s, IsSequence(s), s # <<>>, \A i \in DOMAIN s : s[i].expectancy \in Expectancies
  PROVE  \E i \in DOMAIN s : Best(s) = s[i]
<1> DEFINE f == [i \in DOMAIN s |-> s[i].expectancy]
<1>1. Len(s) \in Nat /\ Len(s) # 0 /\ DOMAIN s = 1..Len(s)
  <2>1. s \in Seq({s[i] : i \in DOMAIN s})
    BY DEF IsSequence
  <2> DEFINE S == {s[i] : i \in DOMAIN s}
  <2> HIDE DEF S
  <2>2. QED
    BY <2>1, EmptySeq, LenProperties
<1>2. \A i \in DOMAIN s : s[i].expectancy \in Int
  BY ExpectancyAssumption
<1>2a. DOMAIN f = 1..Len(s) /\ \A i \in 1..Len(s) : f[i] \in Int
  BY <1>1, <1>2
<1> HIDE DEF f
<1>3. FirstBest(f) \in 1..Len(s)
  <2> DEFINE n == Len(s)
  <2>1. n \in Nat /\ n # 0 /\ DOMAIN f = 1..n /\ \A i \in 1..n : f[i] \in Int
    BY <1>1, <1>2a
  <2> HIDE DEF n
  <2>2. FirstBest(f) \in 1..n
    BY <2>1, FirstBestHolds
  <2>3. QED
    BY <2>2 DEF n
<1>4. QED
  BY <1>1, <1>3 DEF Best, f

\* A window that keeps half of what it earned at most has an efficiency of half at most.
LEMMA EfficiencyBound ==
  ASSUME NEW r, Earned(r), ~(2 * r.oos > r.is)
  PROVE  Efficiency(r) \in Int /\ 2 * Efficiency(r) <= Scale
<1>1. PICK q \in 1..Scale : Scale = q * r.is
  BY ExpectancyAssumption DEF Earned
<1> DEFINE a == r.is  b == r.oos
<1>2. a \in Int /\ b \in Int /\ a > 0 /\ 2 * b <= a /\ q \in Nat /\ q > 0
  <2>1. a \in Int /\ b \in Int /\ a > 0 /\ Scale \in Nat
    BY ExpectancyAssumption DEF Earned
  <2>2. ~(2 * b > a)
    OBVIOUS
  <2> HIDE DEF a, b
  <2>3. QED
    BY <2>1, <2>2
<1> HIDE DEF a, b
<1>3. (q * a) \div a = q
  BY <1>2
<1>4. 2 * (q * b) <= q * a /\ q * b \in Int
  <2>1. q * (a - 2 * b) \in Nat
    BY <1>2
  <2>2. q * (a - 2 * b) = q * a - 2 * (q * b)
    BY <1>2
  <2>3. q * a \in Int /\ q * b \in Int
    BY <1>2
  <2> DEFINE x == q * a  y == q * b  z == q * (a - 2 * b)
  <2> HIDE DEF x, y, z
  <2>4. z \in Nat /\ z = x - 2 * y /\ x \in Int /\ y \in Int
    BY <2>1, <2>2, <2>3 DEF x, y, z
  <2>5. 2 * y <= x
    BY <2>4
  <2>6. QED
    BY <2>4, <2>5 DEF x, y
<1>5. Efficiency(r) = q * b
  BY <1>1, <1>3 DEF Efficiency, a, b
<1>6. 2 * Efficiency(r) <= q * a /\ Efficiency(r) \in Int
  BY <1>4, <1>5
<1>7. Scale = q * a
  BY <1>1 DEF a
<1>8. QED
  BY <1>6, <1>7

\* What passes has a window that kept more than half.
LEMMA PassedKept ==
  ASSUME WfoInv, Passed
  PROVE  \E i \in DOMAIN results : 2 * results[i].oos > results[i].is
<1> SUFFICES ASSUME \A i \in DOMAIN results : ~(2 * results[i].oos > results[i].is) PROVE FALSE
  OBVIOUS
<1> DEFINE n == Len(results)
           f == [i \in DOMAIN results |-> Efficiency(results[i])]
           D == DOMAIN results
<1>1. n \in Nat /\ D = 1..n
  <2> DEFINE S == {results[i] : i \in DOMAIN results}
  <2>1. results \in Seq(S)
    BY DEF WfoInv, IsSequence
  <2> HIDE DEF S
  <2>2. QED
    BY <2>1, LenProperties
<1>2. ASSUME NEW i \in D PROVE f[i] \in Int /\ 2 * f[i] <= Scale
  <2>1. Earned(results[i]) /\ ~(2 * results[i].oos > results[i].is)
    BY DEF WfoInv
  <2>2. Efficiency(results[i]) \in Int /\ 2 * Efficiency(results[i]) <= Scale
    BY <2>1, EfficiencyBound
  <2>3. QED
    BY <2>2
<1>3. 2 * EfficiencyTotal > Scale * n /\ EfficiencyTotal = SumFunctionOnSet(f, D)
  BY DEF Passed, EfficiencyTotal
<1> HIDE DEF f, D, n
<1>4. SumFunctionOnSet(f, 1..n) \in Int /\ 2 * SumFunctionOnSet(f, 1..n) <= Scale * n
  <2>1. \A i \in 1..n : f[i] \in Int /\ 2 * f[i] <= Scale
    BY <1>1, <1>2
  <2>2. n \in Nat /\ Scale \in Int
    BY <1>1, ExpectancyAssumption
  <2>3. QED
    BY <2>1, <2>2, SumBound
<1>5. Scale * n \in Int
  BY <1>1, ExpectancyAssumption
<1>6. QED
  BY <1>1, <1>3, <1>4, <1>5

\* A result for one more combination.
LEMMA RanStep ==
  ASSUME IsSequence(searched), \A i \in DOMAIN searched : searched[i].expectancy \in Expectancies,
         NEW params, NEW e \in Expectancies, Ran(params, e)
  PROVE  /\ IsSequence(searched') /\ searched' # <<>>
         /\ \A i \in DOMAIN searched' : searched'[i].expectancy \in Expectancies
<1> DEFINE r == [params |-> params, expectancy |-> e]  s == searched  t == searched'
<1>1. t = Append(s, r) /\ IsSequence(s) /\ r.expectancy = e
  BY DEF Ran
<1> HIDE DEF r, s, t
<1>2. /\ IsSequence(t) /\ Len(s) \in Nat /\ DOMAIN s = 1..Len(s)
      /\ Len(t) = Len(s) + 1 /\ DOMAIN t = 1..Len(t)
      /\ \A i \in 1..Len(s) : t[i] = s[i]
      /\ t[Len(t)] = r
  BY <1>1, AppendIsSequence DEF Extended
<1>3. ASSUME NEW i \in DOMAIN t PROVE t[i].expectancy \in Expectancies
  <2>1. i \in DOMAIN s \/ i = Len(t)
    BY <1>2
  <2>2. i \in DOMAIN s => t[i] = s[i] /\ s[i].expectancy \in Expectancies
    BY <1>2 DEF s
  <2>3. QED
    BY <1>1, <1>2, <2>1, <2>2
<1>4. t # <<>>
  BY <1>2
<1>5. QED
  BY <1>2, <1>3, <1>4 DEF t

LEMMA OutOfSampleStep ==
  ASSUME WfoInv, OutOfSample
  PROVE  IsSequence(results') /\ \A i \in DOMAIN results' : Earned(results'[i])
<1> DEFINE b == Best(searched)  s == results  t == results'
<1>1. PICK e \in Expectancies :
        t = Append(s, [window |-> window, params |-> b.params, is |-> b.expectancy, oos |-> e])
  BY DEF OutOfSample
<1> DEFINE r == [window |-> window, params |-> b.params, is |-> b.expectancy, oos |-> e]
<1>2. IsSequence(searched) /\ searched # <<>> /\ \A i \in DOMAIN searched : searched[i].expectancy \in Expectancies
  BY DEF WfoInv, OutOfSample, SearchOver
<1>3. \E i \in DOMAIN searched : b = searched[i]
  BY <1>2, BestIsOne
<1>4. b.expectancy \in Expectancies /\ ~(b.expectancy <= 0)
  BY <1>2, <1>3 DEF OutOfSample, Skips
<1>5. b.expectancy > 0
  <2>1. b.expectancy \in Int
    BY <1>4, ExpectancyAssumption
  <2> HIDE DEF b
  <2>2. QED
    BY <1>4, <2>1
<1> HIDE DEF b
<1>6. Earned(r)
  BY <1>4, <1>5 DEF Earned
<1>7. IsSequence(s) /\ \A i \in DOMAIN s : Earned(s[i])
  BY DEF WfoInv
<1>8. t = Append(s, r)
  BY <1>1
<1> HIDE DEF r, s, t
<1>9. /\ IsSequence(t) /\ Len(s) \in Nat /\ DOMAIN s = 1..Len(s)
      /\ Len(t) = Len(s) + 1 /\ DOMAIN t = 1..Len(t)
      /\ \A i \in 1..Len(s) : t[i] = s[i]
      /\ t[Len(t)] = r
  BY <1>7, <1>8, AppendIsSequence DEF Extended
<1>10. ASSUME NEW i \in DOMAIN t PROVE Earned(t[i])
  <2>1. i \in DOMAIN s \/ i = Len(t)
    BY <1>9
  <2>2. i \in DOMAIN s => t[i] = s[i]
    BY <1>9
  <2>3. QED
    BY <1>6, <1>7, <1>9, <2>1, <2>2
<1>11. QED
  BY <1>9, <1>10 DEF t

\* The gate writes what one of the windows has chosen.
LEMMA BestParamsMeasured ==
  ASSUME WfoInv, results # <<>>
  PROVE  \E i \in DOMAIN results : results[i].params = BestParams /\ results[i].is > 0
<1> DEFINE f == [i \in DOMAIN results |-> results[i].is]  n == Len(results)
<1>1. n \in Nat /\ n # 0 /\ DOMAIN results = 1..n
  <2> DEFINE S == {results[i] : i \in DOMAIN results}
  <2>1. results \in Seq(S)
    BY DEF WfoInv, IsSequence
  <2> HIDE DEF S
  <2>2. QED
    BY <2>1, LenProperties, EmptySeq
<1>2. \A i \in DOMAIN results : results[i].is \in Int /\ results[i].is > 0
  BY ExpectancyAssumption DEF WfoInv, Earned
<1>3. DOMAIN f = 1..n /\ \A i \in 1..n : f[i] \in Int
  BY <1>1, <1>2
<1> HIDE DEF f, n
<1>4. FirstBest(f) \in 1..n
  BY <1>1, <1>3, FirstBestHolds
<1>5. BestParams = results[FirstBest(f)].params
  BY DEF BestParams, f
<1>6. QED
  BY <1>1, <1>2, <1>4, <1>5

LEMMA WfoInvStep ==
  ASSUME WfoInv, [WfoNext]_wfoVars PROVE WfoInv'
<1>1. CASE UNCHANGED wfoVars
  BY <1>1 DEF WfoInv, wfoVars, IsSequence, GateHonest, Earned
<1>2. CASE GenerateWfoWindows
  <2>1. stored' = Unset
    BY <1>2 DEF GenerateWfoWindows, WfoInv
  <2>2. QED
    BY <1>2, <2>1 DEF GenerateWfoWindows, GoTo, WfoInv, IsSequence, GateHonest, Earned
<1>3. ASSUME NEW n, NextWindow(n), UNCHANGED <<results, stored>>, stored = Unset PROVE WfoInv'
  <2>1. searched' = <<>> /\ DOMAIN searched' = {} /\ stage' \in {"grid", "gate"}
    BY <1>3 DEF NextWindow, GoTo
  <2>2. IsSequence(searched')
    BY <2>1, EmptyIsSequence
  <2>3. QED
    BY <1>3, <2>1, <2>2 DEF WfoInv, IsSequence, GateHonest, Earned
<1>4. CASE SaveParent
  BY <1>3, <1>4 DEF SaveParent, WfoInv
<1>5. CASE GridSearch
  <2>1. PICK e \in Expectancies : Ran(Grid[Len(searched) + 1], e)
    BY <1>5 DEF GridSearch
  <2>2. /\ IsSequence(searched') /\ searched' # <<>>
        /\ \A i \in DOMAIN searched' : searched'[i].expectancy \in Expectancies
    BY <2>1, RanStep DEF WfoInv
  <2>3. stored' = Unset /\ results' = results /\ stage' \in {"random", "grid"}
    BY <1>5 DEF GridSearch, WfoInv, GoTo
  <2>4. QED
    BY <2>2, <2>3 DEF WfoInv, IsSequence, GateHonest, Earned
<1>6. CASE RandomSearch
  <2>1. PICK p \in RandomParams, e \in Expectancies : Ran(seeds[1].params \o p, e)
    BY <1>6 DEF RandomSearch
  <2>2. /\ IsSequence(searched') /\ searched' # <<>>
        /\ \A i \in DOMAIN searched' : searched'[i].expectancy \in Expectancies
    BY <2>1, RanStep DEF WfoInv
  <2>3. stored' = Unset /\ results' = results /\ stage' = "random"
    BY <1>6 DEF RandomSearch, WfoInv, GoTo
  <2>4. QED
    BY <2>2, <2>3 DEF WfoInv, IsSequence, GateHonest, Earned
<1>7. CASE SkipWindow
  BY <1>3, <1>7 DEF SkipWindow, SearchOver, WfoInv
<1>8. CASE OutOfSample
  <2>1. IsSequence(results') /\ \A i \in DOMAIN results' : Earned(results'[i])
    BY <1>8, OutOfSampleStep
  <2>2. stored' = Unset /\ searched' = searched /\ stage' = "child"
    BY <1>8 DEF OutOfSample, SearchOver, WfoInv, GoTo
  <2>3. QED
    BY <2>1, <2>2 DEF WfoInv, IsSequence, GateHonest
<1>9. CASE SaveChild
  BY <1>3, <1>9 DEF SaveChild, WfoInv
<1>10. CASE Throws
  <2>1. stored' = Unset /\ searched' = searched /\ results' = results /\ stage' = "thrown"
    BY <1>10 DEF Throws, WfoInv, GoTo
  <2>2. QED
    BY <2>1 DEF WfoInv, IsSequence, GateHonest, Earned
<1>11. CASE Gate
  <2>1. searched' = searched /\ results' = results /\ stage' = "done" /\ stored = Unset
    BY <1>11 DEF Gate, WfoInv, GoTo
  <2>2. stored' # Unset => Passed /\ stored' = BestParams
    BY <1>11, <2>1 DEF Gate
  <2>3. GateHonest'
    <3> SUFFICES ASSUME stored' # Unset
                 PROVE  /\ \E i \in DOMAIN results : results[i].params = stored' /\ results[i].is > 0
                        /\ \E i \in DOMAIN results : results[i].is > 0 /\ 2 * results[i].oos > results[i].is
      BY <2>1 DEF GateHonest
    <3>1. \E i \in DOMAIN results : results[i].params = BestParams /\ results[i].is > 0
      BY <2>2, BestParamsMeasured DEF Passed
    <3>2. \E i \in DOMAIN results : 2 * results[i].oos > results[i].is
      BY <2>2, PassedKept
    <3>3. \A i \in DOMAIN results : results[i].is > 0
      BY DEF WfoInv, Earned
    <3>4. QED
      BY <2>2, <3>1, <3>2, <3>3
  <2>4. QED
    BY <2>1, <2>3 DEF WfoInv, IsSequence, Earned
<1>12. QED
  BY <1>1, <1>2, <1>4, <1>5, <1>6, <1>7, <1>8, <1>9, <1>10, <1>11 DEF WfoNext

-----------------------------------------------------------------------------
(* The windows.  A date k months after the start has the start's day, or   *)
(* it has run over into the first days of the month after, which happens   *)
(* only to the last days of a month; and then it stays where it is.        *)

Lands(x, start, k) ==
  \/ x = [m |-> start.m + k, d |-> start.d]
  \/ start.d >= 29 /\ x = [m |-> start.m + k + 1, d |-> x.d] /\ x.d \in 1..3

LEMMA DaysBound == \A m : DaysIn(m) \in 28..31
BY DEF DaysIn

LEMMA AddMonthsLands ==
  ASSUME NEW start \in Dates, NEW k \in Nat, NEW n \in Nat, NEW x, Lands(x, start, k)
  PROVE  Lands(AddMonths(x, n), start, k + n)
<1>1. start.m \in Nat /\ start.d \in 1..31
  BY DEF Dates
<1>2. CASE x = [m |-> start.m + k, d |-> start.d]
  <2> DEFINE m == start.m + k + n
  <2>1. x.m + n = m /\ x.d = start.d /\ m \in Nat /\ DaysIn(m) \in 28..31 /\ start.m + (k + n) = m
    BY <1>1, <1>2, DaysBound
  <2>2. AddMonths(x, n) = IF start.d <= DaysIn(m) THEN [m |-> m, d |-> start.d]
                                                 ELSE [m |-> m + 1, d |-> start.d - DaysIn(m)]
    BY <2>1 DEF AddMonths
  <2> HIDE DEF m
  <2>3. CASE start.d <= DaysIn(m)
    BY <2>1, <2>2, <2>3 DEF Lands
  <2>4. CASE ~(start.d <= DaysIn(m))
    <3>1. start.d >= 29 /\ start.d - DaysIn(m) \in 1..3
      BY <1>1, <2>1, <2>4
    <3>2. AddMonths(x, n) = [m |-> m + 1, d |-> start.d - DaysIn(m)]
      BY <2>2, <2>4
    <3>3. QED
      BY <2>1, <3>1, <3>2 DEF Lands
  <2>5. QED
    BY <2>3, <2>4
<1>3. CASE start.d >= 29 /\ x = [m |-> start.m + k + 1, d |-> x.d] /\ x.d \in 1..3
  <2> DEFINE m == start.m + k + 1 + n
  <2>1. x.m + n = m /\ m \in Nat /\ DaysIn(m) \in 28..31 /\ start.m + (k + n) + 1 = m
    <3>1. x.m = start.m + k + 1
      BY <1>3
    <3>2. QED
      BY <1>1, <3>1, DaysBound
  <2>2. x.d <= DaysIn(m)
    BY <1>3, <2>1
  <2>3. AddMonths(x, n) = [m |-> m, d |-> x.d]
    BY <2>1, <2>2 DEF AddMonths
  <2> HIDE DEF m
  <2>4. QED
    BY <1>3, <2>1, <2>3 DEF Lands
<1>4. QED
  BY <1>2, <1>3 DEF Lands

\* Fewer months lead to an earlier date.
LEMMA LandsBefore ==
  ASSUME NEW start \in Dates, NEW j \in Nat, NEW k \in Nat, j < k,
         NEW x, NEW y, Lands(x, start, j), Lands(y, start, k)
  PROVE  Before(x, y) /\ ~Before(y, x)
<1>1. start.m \in Nat /\ start.d \in 1..31
  BY DEF Dates
<1>2. /\ x.m \in Nat /\ x.d \in 1..31
      /\ (x.m = start.m + j /\ x.d = start.d) \/ (start.d >= 29 /\ x.m = start.m + j + 1 /\ x.d <= 3)
  BY <1>1 DEF Lands
<1>3. /\ y.m \in Nat /\ y.d \in 1..31
      /\ (y.m = start.m + k /\ y.d = start.d) \/ (start.d >= 29 /\ y.m = start.m + k + 1 /\ y.d <= 3)
  BY <1>1 DEF Lands
<1>4. QED
  BY <1>1, <1>2, <1>3 DEF Before

LEMMA WindowLands ==
  ASSUME NEW start \in Dates, NEW i \in Nat
  PROVE  /\ i * RollMonths \in Nat
         /\ Lands(WindowAt(start, i).isStart, start, i * RollMonths)
         /\ Lands(WindowAt(start, i).isEnd, start, i * RollMonths + IsMonths)
         /\ Lands(WindowAt(start, i).oosEnd, start, i * RollMonths + IsMonths + OosMonths)
<1> DEFINE k == i * RollMonths
           a == AddMonths(start, k)
           b == AddMonths(a, IsMonths)
           c == AddMonths(b, OosMonths)
<1>1. k \in Nat /\ IsMonths \in Nat /\ OosMonths \in Nat /\ k + IsMonths \in Nat
  BY MonthsAssumption
<1>2. WindowAt(start, i).isStart = a /\ WindowAt(start, i).isEnd = b /\ WindowAt(start, i).oosEnd = c
  BY DEF WindowAt
<1>3. Lands(start, start, 0)
  BY DEF Lands, Dates
<1> HIDE DEF k
<1>4. Lands(a, start, 0 + k)
  BY <1>1, <1>3, AddMonthsLands
<1>5. Lands(a, start, k)
  BY <1>1, <1>4
<1> HIDE DEF a
<1>6. Lands(b, start, k + IsMonths)
  BY <1>1, <1>5, AddMonthsLands
<1> HIDE DEF b
<1>7. Lands(c, start, k + IsMonths + OosMonths)
  BY <1>1, <1>6, AddMonthsLands
<1> HIDE DEF c
<1>8. QED
  BY <1>1, <1>2, <1>5, <1>6, <1>7 DEF k

LEMMA BeforeTransitive ==
  ASSUME NEW x, NEW y, NEW z, x.m \in Int, x.d \in Int, y.m \in Int, y.d \in Int, z.m \in Int, z.d \in Int,
         Before(x, y), Before(y, z)
  PROVE  Before(x, z)
BY DEF Before

\* Later windows end later, and a window's in-sample months end before the window
\* before has tested its last month.
LEMMA WindowsInOrder ==
  ASSUME NEW start \in Dates, NEW i \in Nat, NEW j \in Nat, i < j
  PROVE  /\ Before(WindowAt(start, i).isStart, WindowAt(start, j).isStart)
         /\ Before(WindowAt(start, i).oosEnd, WindowAt(start, j).oosEnd)
         /\ j = i + 1 => ~Before(WindowAt(start, i).oosEnd, WindowAt(start, j).isEnd)
<1> DEFINE p == i * RollMonths  q == j * RollMonths
<1>1. p \in Nat /\ q \in Nat /\ p < q /\ (j = i + 1 => q = p + RollMonths)
  <2>1. RollMonths \in Nat \ {0} /\ j - i \in Nat \ {0}
    BY MonthsAssumption
  <2>2. q - p = (j - i) * RollMonths /\ p \in Nat /\ q \in Nat
    BY <2>1
  <2>3. (j - i) * RollMonths >= 1
    BY <2>1
  <2>4. p < q
    <3> DEFINE w == (j - i) * RollMonths
    <3>1. w \in Int
      BY <2>1
    <3> HIDE DEF p, q, w
    <3>2. q - p = w /\ w >= 1 /\ p \in Nat /\ q \in Nat
      BY <2>2, <2>3 DEF w
    <3>3. QED
      BY <3>1, <3>2
  <2>5. j = i + 1 => q = p + RollMonths
    BY <2>1
  <2>6. QED
    BY <2>2, <2>4, <2>5
<1>2. /\ Lands(WindowAt(start, i).isStart, start, p)
      /\ Lands(WindowAt(start, i).oosEnd, start, p + IsMonths + OosMonths)
  BY WindowLands
<1>3. /\ Lands(WindowAt(start, j).isStart, start, q)
      /\ Lands(WindowAt(start, j).isEnd, start, q + IsMonths)
      /\ Lands(WindowAt(start, j).oosEnd, start, q + IsMonths + OosMonths)
  BY WindowLands
<1> HIDE DEF p, q
<1>4. IsMonths \in Nat /\ OosMonths \in Nat /\ RollMonths \in Nat /\ RollMonths < OosMonths
  BY MonthsAssumption
<1>5. Before(WindowAt(start, i).isStart, WindowAt(start, j).isStart)
  BY <1>1, <1>2, <1>3, LandsBefore
<1> DEFINE a == p + IsMonths + OosMonths  b == q + IsMonths + OosMonths  c == q + IsMonths
<1>6. a \in Nat /\ b \in Nat /\ c \in Nat /\ a < b /\ (j = i + 1 => c < a)
  BY <1>1, <1>4
<1>7. Lands(WindowAt(start, i).oosEnd, start, a) /\ Lands(WindowAt(start, j).oosEnd, start, b)
      /\ Lands(WindowAt(start, j).isEnd, start, c)
  BY <1>2, <1>3
<1> HIDE DEF a, b, c
<1>8. Before(WindowAt(start, i).oosEnd, WindowAt(start, j).oosEnd)
  <2> DEFINE x == WindowAt(start, i).oosEnd  y == WindowAt(start, j).oosEnd
  <2>1. a \in Nat /\ b \in Nat /\ a < b
    BY <1>6
  <2>2. Lands(x, start, a)
    BY <1>7
  <2>3. Lands(y, start, b)
    BY <1>7
  <2> HIDE DEF x, y
  <2>4. Before(x, y)
    BY <2>1, <2>2, <2>3, LandsBefore
  <2>5. QED
    BY <2>4 DEF x, y
<1>9. ASSUME j = i + 1 PROVE ~Before(WindowAt(start, i).oosEnd, WindowAt(start, j).isEnd)
  BY <1>6, <1>7, <1>9, LandsBefore
<1>10. QED
  BY <1>5, <1>8, <1>9

\* The loop's first window that does not fit.
LEMMA WindowCountHolds ==
  ASSUME NEW r, r.start \in Dates, r.end \in Dates
  PROVE  /\ WindowCount(r) \in 0..(r.end.m + 1) /\ ~Fits(r, WindowCount(r))
         /\ \A i \in 0..(WindowCount(r) - 1) : Fits(r, i)
<1> DEFINE N == r.end.m + 1
           T == {n \in 0..N : ~Fits(r, n)}
<1>1. N \in Nat /\ r.end.m \in Nat
  BY DEF Dates
<1>2. ~Fits(r, N)
  <2> DEFINE x == WindowAt(r.start, N).oosEnd  k == N * RollMonths + IsMonths + OosMonths
  <2>1. Lands(x, r.start, k) /\ N * RollMonths \in Nat
    BY <1>1, WindowLands
  <2>2. k > r.end.m /\ k \in Nat
    <3>1. RollMonths \in Nat \ {0} /\ IsMonths \in Nat /\ OosMonths \in Nat
      BY MonthsAssumption
    <3>2. N * RollMonths >= N
      BY <1>1, <3>1
    <3> DEFINE w == N * RollMonths
    <3> HIDE DEF w
    <3>3. k = w + IsMonths + OosMonths /\ w >= N /\ w \in Nat
      BY <2>1, <3>2 DEF w
    <3>4. QED
      BY <1>1, <3>1, <3>3
  <2> HIDE DEF x, k, N
  <2>3. x.m > r.end.m
    <3>1. x.m = r.start.m + k \/ x.m = r.start.m + k + 1
      BY <2>1 DEF Lands
    <3>2. r.start.m \in Nat
      BY DEF Dates
    <3>3. QED
      BY <1>1, <2>2, <3>1, <3>2
  <2>4. Before(r.end, x)
    BY <1>1, <2>3 DEF Before
  <2>5. QED
    BY <2>4 DEF Fits, x
<1>3. T \in SUBSET Nat /\ T # {}
  <2>1. N \in 0..N
    BY <1>1
  <2> HIDE DEF N
  <2>2. QED
    BY <1>2, <2>1
<1> HIDE DEF T
<1>4. PICK n \in T : \A m \in T : n <= m
  BY <1>3, LeastNat
<1>5. n \in 0..N /\ ~Fits(r, n)
  BY <1>4 DEF T
<1>6. ASSUME NEW i \in 0..(n - 1) PROVE Fits(r, i)
  <2>1. i \in 0..N /\ i \notin T
    BY <1>1, <1>4, <1>5
  <2>2. QED
    BY <2>1 DEF T
<1>7. QED
  BY <1>5, <1>6 DEF WindowCount

LEMMA WindowsAreComplete ==
  ASSUME NEW r, r.start \in Dates, r.end \in Dates PROVE Complete(r)
<1> DEFINE n == WindowCount(r)
<1>1. n \in Nat /\ ~Fits(r, n) /\ (\A i \in 0..(n - 1) : Fits(r, i)) /\ r.end.m \in Nat
  BY WindowCountHolds DEF Dates
<1> HIDE DEF n
<1>2. ASSUME NEW i \in 0..(r.end.m + 2)
      PROVE  i < n <=> ~Before(r.end, WindowAt(r.start, i).oosEnd)
  <2>1. CASE i < n
    BY <1>1, <2>1 DEF Fits
  <2>2. CASE i = n
    BY <1>1, <2>2 DEF Fits
  <2>3. CASE i > n
    <3> DEFINE x == WindowAt(r.start, n).oosEnd  y == WindowAt(r.start, i).oosEnd
    <3>1. Before(r.end, x)
      BY <1>1 DEF Fits
    <3>2. Before(x, y)
      BY <1>1, <2>3, WindowsInOrder
    <3>3. x.m \in Int /\ x.d \in Int /\ y.m \in Int /\ y.d \in Int
      <4>1. ASSUME NEW j \in Nat
            PROVE  WindowAt(r.start, j).oosEnd.m \in Int /\ WindowAt(r.start, j).oosEnd.d \in Int
        <5> DEFINE k == j * RollMonths + IsMonths + OosMonths  z == WindowAt(r.start, j).oosEnd
        <5>1. j * RollMonths \in Nat /\ Lands(z, r.start, k)
          BY WindowLands
        <5>1a. k \in Int
          BY <5>1, MonthsAssumption
        <5> HIDE DEF k, z
        <5>2. z.m \in Int /\ z.d \in Int
          BY <5>1, <5>1a DEF Lands, Dates
        <5>3. QED
          BY <5>2 DEF z
      <4>2. i \in Nat
        BY <1>1
      <4>3. QED
        BY <1>1, <4>1, <4>2
    <3> HIDE DEF x, y
    <3>4. Before(r.end, y)
      <4>1. r.end.m \in Int /\ r.end.d \in Int
        BY DEF Dates
      <4>2. QED
        BY <3>1, <3>2, <3>3, <4>1, BeforeTransitive
    <3>5. QED
      BY <1>1, <2>3, <3>4 DEF y
  <2>4. QED
    BY <1>1, <2>1, <2>2, <2>3
<1>3. ASSUME NEW i \in 1..(n - 1)
      PROVE  /\ Before(WindowAt(r.start, i - 1).isStart, WindowAt(r.start, i).isStart)
             /\ ~Before(WindowAt(r.start, i - 1).oosEnd, WindowAt(r.start, i).isEnd)
  <2> DEFINE h == i - 1
  <2>1. h \in Nat /\ i \in Nat /\ h < i /\ i = h + 1
    BY <1>1
  <2> HIDE DEF h
  <2>2. /\ Before(WindowAt(r.start, h).isStart, WindowAt(r.start, i).isStart)
        /\ ~Before(WindowAt(r.start, h).oosEnd, WindowAt(r.start, i).isEnd)
    BY <2>1, WindowsInOrder
  <2>3. QED
    BY <2>2 DEF h
<1>4. QED
  BY <1>2, <1>3 DEF Complete, n

LEMMA InvWindowsComplete == WfoInv => WindowsComplete
<1> SUFFICES ASSUME WfoInv, stage = "parent",
                    NEW day \in 1..DaysIn(range.start.m), NEW last \in 1..28
             PROVE  Complete([start |-> [range.start EXCEPT !.d = day], end |-> [m |-> range.end.m + 12, d |-> last]])
  BY DEF WindowsComplete
<1> DEFINE r == [start |-> [range.start EXCEPT !.d = day], end |-> [m |-> range.end.m + 12, d |-> last]]
<1>1. range.start \in Dates /\ range.end \in Dates
  BY RangesAssumption DEF WfoInv
<1>2. day \in 1..31
  BY DaysBound
<1>3. r.start \in Dates /\ r.end \in Dates
  BY <1>1, <1>2 DEF Dates
<1> HIDE DEF r
<1>4. Complete(r)
  BY <1>3, WindowsAreComplete
<1>5. QED
  BY <1>4 DEF r

-----------------------------------------------------------------------------
(* The simulated account. *)

Orders == [side : {"BUY", "SELL"}, size : Nat \ {0}, trigger : Int, status : {"PENDING", "FILLED"}]
Accounts ==
  [total : Int, available : Int, position : Positions \cup {None}, orders : Seq(Orders)]

\* BooksBalance of any account and any position.
PendingOf(a) == {i \in DOMAIN a.orders : a.orders[i].status = "PENDING"}
Books(a, p) ==
  /\ a.total = a.available + (IF a.position = None THEN 0 ELSE a.position.locked)
  /\ (a.position = None) = (p = None)
  /\ p = None => PendingOf(a) = {}
  /\ p # None =>
       /\ a.position = [side |-> p.direction, size |-> p.size, locked |-> p.entry * p.size]
       /\ \E i \in PendingOf(a) : PendingOf(a) = {i} /\ a.orders[i].size = a.position.size
                                   /\ a.orders[i].side = Opposite(Side(p.direction))

LEMMA BooksBalanceIsBooks == BooksBalance <=> Books(account, position)
BY DEF BooksBalance, Books, Pending, PendingOf

LEMMA SlippageInt ==
  ASSUME NEW price \in Int, NEW side PROVE ApplySlippage(price, side) \in Int
<1> DEFINE k == IF side = "BUY" THEN 100 + SlippagePct ELSE 100 - SlippagePct
<1>1. k \in Int
  BY ExchangeAssumption
<1> HIDE DEF k
<1>2. price * k \in Int
  BY <1>1
<1>3. (price * k) \div 100 \in Int
  BY <1>2
<1>4. QED
  BY <1>3 DEF ApplySlippage, k

LEMMA StopFillInt == ASSUME NEW o \in Orders PROVE StopFill(o) \in Int
BY SlippageInt DEF StopFill, Orders

\* No stop triggered closes nothing; one closes once.
LEMMA CloseAllNone == ASSUME NEW a PROVE CloseAll(a, {}) = a
<1> DEFINE g == [s \in SUBSET {} |-> a]
           P(it) == it = [s \in SUBSET {} |-> IF s = {} THEN a
                           ELSE ClosePosition(it[s \ {Max(s)}], StopFill(a.orders[Max(s)]), a.orders[Max(s)].size)]
<1>1. CloseAll(a, {}) = (CHOOSE it : P(it))[{}]
  BY DEF CloseAll, MapThenFoldSet
<1>2. P(g)
  OBVIOUS
<1>3. P(CHOOSE it : P(it))
  <2> HIDE DEF P, g
  <2>1. QED
    BY <1>2
<1>4. \A it : P(it) => it[{}] = a
  OBVIOUS
<1> HIDE DEF P
<1>5. QED
  BY <1>1, <1>3, <1>4

LEMMA CloseAllOne ==
  ASSUME NEW a, NEW i \in Nat
  PROVE  CloseAll(a, {i}) = ClosePosition(a, StopFill(a.orders[i]), a.orders[i].size)
<1> DEFINE V(it, s) == IF s = {} THEN a
                       ELSE ClosePosition(it[s \ {Max(s)}], StopFill(a.orders[Max(s)]), a.orders[Max(s)].size)
           P(it) == it = [s \in SUBSET {i} |-> V(it, s)]
           r == ClosePosition(a, StopFill(a.orders[i]), a.orders[i].size)
           g == [s \in SUBSET {i} |-> IF s = {} THEN a ELSE r]
<1>1. CloseAll(a, {i}) = (CHOOSE it : P(it))[{i}]
  BY DEF CloseAll, MapThenFoldSet
<1>2. Max({i}) = i
  BY DEF Max
<1>3. {i} \ {Max({i})} = {}
  BY <1>2
<1>4. \A it : it[{}] = a => V(it, {i}) = r
  BY <1>2, <1>3
<1>5. \A it : V(it, {}) = a
  OBVIOUS
<1> HIDE DEF V, r
<1>6. \A s \in SUBSET {i} : s = {} \/ s = {i}
  OBVIOUS
<1>7. \A s \in SUBSET {i} : g[s] = V(g, s)
  <2>1. g[{}] = a /\ g[{i}] = r
    OBVIOUS
  <2> HIDE DEF g
  <2>2. QED
    BY <1>4, <1>5, <1>6, <2>1
<1>8. P(g)
  <2>1. g = [s \in SUBSET {i} |-> g[s]]
    OBVIOUS
  <2> HIDE DEF g
  <2>2. QED
    BY <1>7, <2>1
<1>9. P(CHOOSE it : P(it))
  <2> HIDE DEF P, g
  <2>1. QED
    BY <1>8
<1>10. \A it : P(it) => it[{i}] = r
  <2> TAKE it
  <2> HAVE P(it)
  <2>1. it[{}] = V(it, {}) /\ it[{i}] = V(it, {i})
    OBVIOUS
  <2>2. QED
    BY <1>4, <1>5, <2>1
<1> HIDE DEF P
<1>11. QED
  BY <1>1, <1>9, <1>10 DEF r

LEMMA FillsArePending == ASSUME NEW a, NEW c PROVE Fills(a, c) \subseteq PendingOf(a)
BY DEF Fills, PendingOf, Triggered

\* Where no stop is triggered, nothing changes.
LEMMA NoFillNoChange ==
  ASSUME NEW a \in Accounts, NEW c, Fills(a, c) = {} PROVE CheckPendingOrders(a, c) = a
<1>1. MarkFilled(a.orders, {}) = a.orders
  <2> DEFINE o == a.orders
  <2>1. o \in Seq(Orders)
    BY DEF Accounts
  <2> HIDE DEF o
  <2>2. o = [i \in DOMAIN o |-> o[i]]
    BY <2>1, LenProperties
  <2>3. QED
    BY <2>2 DEF MarkFilled, o
<1>2. CheckPendingOrders(a, c) = [a EXCEPT !.orders = a.orders]
  BY <1>1, CloseAllNone DEF CheckPendingOrders
<1>3. QED
  BY <1>2 DEF Accounts

\* The stop closes the whole position, at what the trade says.
LEMMA StopCloses ==
  ASSUME NEW a \in Accounts, NEW p \in Held, Books(a, p), NEW c, Fills(a, c) # {}, NEW at,
         NEW b, b = CheckPendingOrders(a, c)
  PROVE  \E i \in Nat :
           /\ Fills(a, c) = {i} /\ StopFill(a.orders[i]) \in Int
           /\ b \in Accounts /\ Books(b, None)
           /\ b.total = a.total + TradeOf(p, StopFill(a.orders[i]), at).pnl
           /\ TradeOf(p, StopFill(a.orders[i]), at).pnl \in Int
<1>1. p # None /\ p.size \in Nat \ {0} /\ p.entry \in Int /\ p.direction \in {"LONG", "SHORT"}
  BY BacktestAssumption DEF Held
<1>2. PICK i \in PendingOf(a) : PendingOf(a) = {i} /\ a.orders[i].size = a.position.size
  BY <1>1 DEF Books
<1>3. Fills(a, c) = {i}
  BY <1>2, FillsArePending
<1>4. a.orders \in Seq(Orders) /\ i \in 1..Len(a.orders) /\ DOMAIN a.orders = 1..Len(a.orders) /\ i \in Nat
  BY <1>2 DEF PendingOf, Accounts
<1> DEFINE o == a.orders[i]  f == StopFill(o)  q == a.position
           l == p.entry * p.size
<1>5. o \in Orders
  BY <1>4
<1>6. f \in Int
  BY <1>5, StopFillInt
<1>7. q = [side |-> p.direction, size |-> p.size, locked |-> l] /\ q # None
  BY <1>1 DEF Books
<1>8. l \in Int /\ f * p.size \in Int
  BY <1>1, <1>6
<1>9. (l * p.size) \div p.size = l
  <2> DEFINE z == p.size
  <2>1. z \in Nat \ {0}
    BY <1>1
  <2> HIDE DEF l, z
  <2>2. (l * z) \div z = l
    BY <1>8, <2>1
  <2>3. QED
    BY <2>2 DEF z
<1> HIDE DEF l
<1> DEFINE pnl == TradeOf(p, f, at).pnl
<1>10. pnl = IF p.direction = "LONG" THEN f * p.size - l ELSE l - f * p.size
  <2> HIDE DEF f
  <2>1. (f - p.entry) * p.size = f * p.size - p.entry * p.size
        /\ (p.entry - f) * p.size = p.entry * p.size - f * p.size
    BY <1>1, <1>6
  <2>2. pnl = IF p.direction = "LONG" THEN (f - p.entry) * p.size ELSE (p.entry - f) * p.size
    BY DEF TradeOf
  <2>3. QED
    BY <2>1, <2>2 DEF l
<1>11. Profit(q, f, p.size) = pnl
  <2> HIDE DEF f, pnl
  <2>1. q.locked = l /\ q.size = p.size /\ q.side = p.direction
    BY <1>7
  <2>2. Profit(q, f, p.size) = IF p.direction = "LONG" THEN f * p.size - l ELSE l - f * p.size
    BY <1>9, <2>1 DEF Profit
  <2>3. QED
    BY <1>10, <2>2
<1> DEFINE free == a.available + l + pnl
           d == [a EXCEPT !.available = free, !.total = free, !.position = None]
<1>12. ClosePosition(a, f, o.size) = d
  <2> HIDE DEF f, pnl
  <2>1. o.size = p.size /\ q.size = p.size /\ q.locked = l
    BY <1>2, <1>7
  <2>2. ~(p.size > p.size)
    BY <1>1
  <2> HIDE DEF o
  <2>3. QED
    BY <1>7, <1>9, <1>11, <2>1, <2>2 DEF ClosePosition
<1>13. CloseAll(a, {i}) = d
  <2> HIDE DEF d
  <2>1. QED
    BY <1>4, <1>12, CloseAllOne
<1> DEFINE m == MarkFilled(a.orders, {i})
<1>14. b = [d EXCEPT !.orders = m]
  <2> HIDE DEF d, m
  <2>1. QED
    BY <1>3, <1>13 DEF CheckPendingOrders, m
<1>15. m \in Seq(Orders) /\ \A j \in DOMAIN m : m[j].status # "PENDING"
  <2> DEFINE n == Len(a.orders)
  <2>1. n \in Nat /\ a.orders \in [1..n -> Orders]
    BY <1>4, LenProperties
  <2>2. \A j \in 1..n : (j = i \/ a.orders[j].status # "PENDING")
    BY <1>2, <1>4 DEF PendingOf
  <2>3. \A x \in Orders : [x EXCEPT !.status = "FILLED"] \in Orders /\ [x EXCEPT !.status = "FILLED"].status = "FILLED"
    BY DEF Orders
  <2>4. m = [j \in 1..n |-> IF j \in {i} THEN [a.orders[j] EXCEPT !.status = "FILLED"] ELSE a.orders[j]]
    BY <1>4 DEF MarkFilled
  <2> HIDE DEF n
  <2>5. m \in [1..n -> Orders] /\ \A j \in 1..n : m[j].status # "PENDING"
    BY <2>1, <2>2, <2>3, <2>4
  <2> HIDE DEF m
  <2>6. QED
    BY <2>1, <2>5, SeqDef
<1>16. pnl \in Int /\ free \in Int /\ a.available \in Int
  <2> HIDE DEF f, pnl
  <2>1. pnl \in Int
    BY <1>8, <1>10
  <2>2. QED
    BY <1>8, <2>1 DEF Accounts
<1>17. a.total = a.available + l
  BY <1>7 DEF Books
<1> HIDE DEF m, pnl, f, o
<1>18. /\ b = [total |-> free, available |-> free, position |-> None, orders |-> m]
  BY <1>14 DEF Accounts
<1>19. b \in Accounts
  BY <1>15, <1>16, <1>18 DEF Accounts
<1>20. Books(b, None)
  BY <1>15, <1>16, <1>18 DEF Books, PendingOf
<1>21. b.total = a.total + pnl
  <2>1. b.total = free
    BY <1>18
  <2>2. QED
    BY <1>8, <1>16, <1>17, <2>1
<1>22. QED
  BY <1>3, <1>4, <1>6, <1>16, <1>19, <1>20, <1>21 DEF pnl, f, o

\* An entry from flat.
LEMMA EntryBooks ==
  ASSUME NEW a \in Accounts, Books(a, None), NEW direction \in {"LONG", "SHORT"},
         NEW size \in Nat \ {0}, NEW fill \in Int, NEW stop \in Int, NEW at \in Nat, NEW b, NEW p,
         b = RegisterPendingOrder(FillMarketEntry(a, Side(direction), size, fill),
                                  Opposite(Side(direction)), size, stop),
         p = [direction |-> direction, entry |-> fill, size |-> size, opened |-> at]
  PROVE  b \in Accounts /\ p \in Held /\ Books(b, p) /\ b.total = a.total
<1> DEFINE cost == fill * size
           order == [side |-> Opposite(Side(direction)), size |-> size, trigger |-> stop, status |-> "PENDING"]
           q == [side |-> direction, size |-> size, locked |-> cost]
           os == Append(a.orders, order)
<1>1. cost \in Int
  OBVIOUS
<1>2. a.position = None /\ a.total = a.available /\ PendingOf(a) = {} /\ a.total \in Int
  BY DEF Books, Accounts
<1>3. order \in Orders
  BY DEF Orders, Opposite, Side
<1>4. q \in Positions /\ p \in Held /\ q # None /\ p # None
  <2>1. q \in Positions /\ p \in Held
    BY <1>1 DEF Positions, Held
  <2>2. QED
    BY <2>1, ExchangeAssumption, BacktestAssumption
<1>5. (IF Side(direction) = "BUY" THEN "LONG" ELSE "SHORT") = direction
  BY DEF Side
<1> HIDE DEF cost
<1>6. FillMarketEntry(a, Side(direction), size, fill) = [a EXCEPT !.available = a.available - cost, !.position = q]
  <2>1. FillMarketEntry(a, Side(direction), size, fill)
          = [a EXCEPT !.available = a.available - cost + 0,
                      !.position = [side |-> direction, size |-> size, locked |-> cost]]
    BY <1>2, <1>5 DEF FillMarketEntry, cost
  <2>2. a.available - cost + 0 = a.available - cost
    BY <1>1 DEF Accounts
  <2>3. QED
    BY <2>1, <2>2
<1> HIDE DEF q, order
<1>7. b = [total |-> a.total, available |-> a.available - cost, position |-> q, orders |-> os]
  BY <1>6 DEF RegisterPendingOrder, Accounts, order
<1>8. /\ os \in Seq(Orders) /\ DOMAIN os = 1..(Len(a.orders) + 1) /\ Len(a.orders) \in Nat
      /\ DOMAIN a.orders = 1..Len(a.orders)
      /\ os[Len(a.orders) + 1] = order
      /\ \A i \in 1..Len(a.orders) : os[i] = a.orders[i]
  BY <1>3 DEF Accounts
<1> DEFINE n == Len(a.orders) + 1
<1>9. PendingOf(b) = {n}
  <2>1. \A i \in 1..Len(a.orders) : os[i].status # "PENDING"
    BY <1>2, <1>8 DEF PendingOf
  <2>2. os[n].status = "PENDING"
    BY <1>8 DEF order
  <2>3. b.orders = os
    BY <1>7
  <2> HIDE DEF os
  <2>4. QED
    BY <1>8, <2>1, <2>2, <2>3 DEF PendingOf
<1> HIDE DEF os
<1>10. b \in Accounts
  BY <1>1, <1>2, <1>4, <1>7, <1>8 DEF Accounts
<1>11. Books(b, p)
  <2>1. b.total = b.available + cost /\ q.locked = cost /\ b.position = q
    BY <1>1, <1>2, <1>7 DEF q
  <2>2. q = [side |-> p.direction, size |-> p.size, locked |-> p.entry * p.size]
    BY DEF q, cost
  <2>3. b.orders[n].size = q.size /\ b.orders[n].side = Opposite(Side(p.direction))
    BY <1>7, <1>8 DEF q, order
  <2>4. QED
    BY <1>4, <1>9, <2>1, <2>2, <2>3 DEF Books
<1>12. QED
  BY <1>4, <1>7, <1>10, <1>11

-----------------------------------------------------------------------------
(* The candles. *)

CandleOK(c) == c.at \in Nat /\ c.close \in Nat \ {0}

\* What the adapter was given holds all that is to be replayed.
CandlesHold(given, left) ==
  left # {} =>
    /\ \E n \in Nat : DOMAIN given = 1..n /\ \A i \in 1..n : CandleOK(given[i])
    /\ \A c \in left : \E i \in DOMAIN given : given[i] = c

CandlesOf(path, tf) ==
  {CandleAt(path, tf, at) : at \in {t \in 0..Horizon : t + Length(tf) <= Horizon}}

LEMMA MinOfTwo ==
  ASSUME NEW x \in Int, NEW y \in Int PROVE Min({x, y}) \in Int /\ Min({x, y}) <= x /\ Min({x, y}) <= y
<1>1. \E m \in {x, y} : \A z \in {x, y} : m <= z
  <2>1. CASE x <= y
    BY <2>1
  <2>2. CASE ~(x <= y)
    BY <2>2
  <2>3. QED
    BY <2>1, <2>2
<1>2. Min({x, y}) \in {x, y} /\ \A z \in {x, y} : Min({x, y}) <= z
  BY <1>1 DEF Min
<1>3. QED
  BY <1>2

LEMMA GetCandlesHold ==
  ASSUME NEW path, NEW tf \in {"1D", "1H", "5M", "1M"}
  PROVE  GetCandles(path, tf) \in Seq(CandlesOf(path, tf))
<1> DEFINE L == Length(tf)  m == Min({EndDate, Horizon - L})  n == m \div L + 1
           C == CandlesOf(path, tf)
<1>1. L \in {8, 4, 2, 1}
  BY DEF Length
<1>2. EndDate \in Int /\ Horizon \in Nat
  BY BacktestAssumption
<1> HIDE DEF L
<1>3. m \in Int /\ m <= Horizon - L
  BY <1>1, <1>2, MinOfTwo
<1> HIDE DEF m
<1>4. n \in Int /\ (n - 1) * L <= m
  BY <1>1, <1>3
<1> HIDE DEF n
<1>5. ASSUME NEW i \in 1..n PROVE CandleAt(path, tf, (n - i) * L) \in C
  <2> DEFINE t == (n - i) * L
  <2>1. t \in Nat /\ t <= (n - 1) * L
    BY <1>1, <1>4
  <2>2. t \in 0..Horizon /\ t + L <= Horizon
    BY <1>1, <1>2, <1>3, <1>4, <2>1
  <2> HIDE DEF t
  <2>3. CandleAt(path, tf, t) \in C
    BY <2>2 DEF CandlesOf, L
  <2>4. QED
    BY <2>3 DEF t
<1>6. GetCandles(path, tf) = [i \in 1..n |-> CandleAt(path, tf, (n - i) * L)]
  BY DEF GetCandles, L, m, n
<1>7. GetCandles(path, tf) \in [1..n -> C]
  <2> DEFINE F(i) == CandleAt(path, tf, (n - i) * L)
  <2>1. GetCandles(path, tf) = [i \in 1..n |-> F(i)] /\ \A i \in 1..n : F(i) \in C
    BY <1>5, <1>6
  <2> HIDE DEF F, C
  <2>2. QED
    BY <2>1
<1>8. \E k \in Nat : 1..n = 1..k
  <2>1. CASE n >= 0
    BY <1>4, <2>1
  <2>2. CASE ~(n >= 0)
    <3>1. 1..n = {} /\ 1..0 = {}
      BY <1>4, <2>2
    <3>2. QED
      BY <3>1
  <2>3. QED
    BY <2>1, <2>2
<1> HIDE DEF C
<1>9. GetCandles(path, tf) \in Seq(C)
  BY <1>7, <1>8, SeqDef
<1>10. QED
  BY <1>9 DEF C

LEMMA CandleAtOK ==
  ASSUME NEW path \in [0..(Horizon - 1) -> Prices], NEW tf \in {"1D", "1H", "5M", "1M"},
         NEW c \in CandlesOf(path, tf)
  PROVE  CandleOK(c)
<1>1. PICK at \in 0..Horizon : c = CandleAt(path, tf, at) /\ at + Length(tf) <= Horizon
  BY DEF CandlesOf
<1>2. Length(tf) \in {8, 4, 2, 1}
  BY DEF Length
<1>3. Horizon \in Nat
  BY BacktestAssumption
<1>4. at + Length(tf) - 1 \in 0..(Horizon - 1)
  BY <1>1, <1>2, <1>3
<1>5. path[at + Length(tf) - 1] \in Nat \ {0}
  BY <1>4, BacktestAssumption
<1>6. c.at = at /\ c.close = path[at + Length(tf) - 1]
  BY <1>1 DEF CandleAt
<1>7. QED
  BY <1>5, <1>6 DEF CandleOK

LEMMA LoadedHold ==
  ASSUME NEW path \in [0..(Horizon - 1) -> Prices], NEW given, given = LoadedCandles(path)
  PROVE  CandlesHold(given, Range(given))
<1> DEFINE C == UNION {CandlesOf(path, tf) : tf \in {"1D", "1H", "5M", "1M"}}
<1>1. \A tf \in {"1D", "1H", "5M", "1M"} : CandlesOf(path, tf) \subseteq C
  OBVIOUS
<1>2. \A c \in C : CandleOK(c)
  BY CandleAtOK
<1> HIDE DEF C
<1>3. ASSUME NEW tf \in {"1D", "1H", "5M", "1M"} PROVE GetCandles(path, tf) \in Seq(C)
  <2>1. GetCandles(path, tf) \in Seq(CandlesOf(path, tf)) /\ CandlesOf(path, tf) \subseteq C
    BY <1>1, GetCandlesHold
  <2>2. QED
    BY <2>1, SeqMonotonic
<1>4. given \in Seq(C)
  <2> DEFINE a == GetCandles(path, "1D")  b == GetCandles(path, "1H")
             c == GetCandles(path, "5M")  d == GetCandles(path, "1M")
  <2>1. a \in Seq(C) /\ b \in Seq(C) /\ c \in Seq(C) /\ d \in Seq(C)
    BY <1>3
  <2>2. given = a \o b \o c \o d
    BY DEF LoadedCandles
  <2> HIDE DEF a, b, c, d
  <2>3. a \o b \in Seq(C)
    BY <2>1, ConcatProperties
  <2>4. a \o b \o c \in Seq(C)
    BY <2>1, <2>3, ConcatProperties
  <2>5. QED
    BY <2>1, <2>2, <2>4, ConcatProperties
<1>5. Len(given) \in Nat /\ DOMAIN given = 1..Len(given) /\ \A i \in 1..Len(given) : given[i] \in C
  BY <1>4, LenProperties
<1>6. QED
  BY <1>2, <1>5 DEF CandlesHold, Range

\* There is a current candle while one is replayed.
LEMMA CurrentCandleOK ==
  ASSUME NEW given, NEW left, CandlesHold(given, left), NEW c \in left
  PROVE  CandleOK(GetCurrentCandle(given, c.at))
<1>1. PICK n \in Nat : DOMAIN given = 1..n /\ \A i \in 1..n : CandleOK(given[i])
  BY DEF CandlesHold
<1>2. PICK k \in 1..n : given[k] = c
  BY <1>1 DEF CandlesHold
<1> DEFINE T == {i \in DOMAIN given : given[i].at <= c.at}
<1>3. T \in SUBSET (1..n) /\ k \in T
  BY <1>1, <1>2 DEF CandleOK
<1> HIDE DEF T
<1>4. Max(T) \in T
  BY <1>3, GreatestIndex
<1>5. QED
  BY <1>1, <1>3, <1>4 DEF GetCurrentCandle, T

-----------------------------------------------------------------------------
(* The figures of the report. *)

Trades == [pnl : Int, result : {"WIN", "LOSS"}, opened : Nat, closed : Nat]
TradesOK ==
  /\ trades \in Seq(Trades)
  /\ \A i \in DOMAIN trades : trades[i].result = "WIN" <=> trades[i].pnl >= 0

LEMMA PnlsInt ==
  ASSUME TradesOK
  PROVE  /\ Len(trades) \in Nat /\ DOMAIN trades = 1..Len(trades)
         /\ \A i \in 1..Len(trades) : Pnls[i] = trades[i].pnl /\ Pnls[i] \in Int
<1>1. trades \in Seq(Trades)
  BY DEF TradesOK
<1>2. Len(trades) \in Nat /\ DOMAIN trades = 1..Len(trades) /\ \A i \in 1..Len(trades) : trades[i] \in Trades
  BY <1>1, LenProperties
<1>3. \A i \in 1..Len(trades) : Pnls[i] = trades[i].pnl
  BY <1>2 DEF Pnls
<1>4. QED
  BY <1>2, <1>3 DEF Trades

LEMMA EquitySteps ==
  ASSUME TradesOK
  PROVE  /\ Equity(0) = 0
         /\ \A n \in 0..Len(trades) : Equity(n) \in Int
         /\ \A n \in 1..Len(trades) : Equity(n) = Equity(n - 1) + Pnls[n]
<1>1. Equity(0) = 0
  <2>1. 1..0 = {}
    OBVIOUS
  <2>2. QED
    BY <2>1, SumEmpty DEF Equity
<1>2. Len(trades) \in Nat /\ \A i \in 1..Len(trades) : Pnls[i] \in Int
  BY PnlsInt
<1>3. ASSUME NEW n \in 1..Len(trades) PROVE Equity(n) \in Int /\ Equity(n) = Equity(n - 1) + Pnls[n]
  <2> DEFINE f == Pnls
  <2>1. n \in Nat /\ n # 0 /\ \A i \in 1..n : f[i] \in Int
    BY <1>2
  <2> HIDE DEF f
  <2>2. SumFunctionOnSet(f, 1..(n - 1)) \in Int
        /\ SumFunctionOnSet(f, 1..n) = SumFunctionOnSet(f, 1..(n - 1)) + f[n]
    BY <2>1, SumExtend
  <2>3. f[n] \in Int
    BY <2>1
  <2>4. QED
    BY <2>2, <2>3 DEF Equity, f
<1>4. QED
  BY <1>1, <1>2, <1>3

\* Expectancy times trades is the sum of what they earned.
LEMMA ExpectancyIsEquity ==
  ASSUME TradesOK PROVE TotalExpectancy = Equity(Len(trades))
<1> DEFINE f == Pnls  S == DOMAIN trades
           g == [i \in DOMAIN trades |-> Magnitude(Pnls[i])]
<1>1. S = 1..Len(trades) /\ IsFiniteSet(S) /\ \A i \in S : f[i] \in Int
  <2>1. Len(trades) \in Nat /\ S = 1..Len(trades) /\ \A i \in S : f[i] \in Int
    BY PnlsInt
  <2>2. IsFiniteSet(1..Len(trades))
    BY <2>1, FS_Interval
  <2>3. QED
    BY <2>1, <2>2
<1>2. Won \in SUBSET S /\ IsFiniteSet(S \ Won)
  BY <1>1, FS_Subset DEF Won
<1>3. \A i \in S \ Won : f[i] \in Int /\ g[i] = -f[i]
  BY PnlsInt, <1>1 DEF Won, TradesOK, Magnitude
<1>4. TotalExpectancy = SumFunctionOnSet(f, Won) - SumFunctionOnSet(g, S \ Won)
  BY DEF TotalExpectancy
<1>5. Equity(Len(trades)) = SumFunctionOnSet(f, S)
  BY <1>1 DEF Equity
<1> HIDE DEF f, g, S
<1>6. SumFunctionOnSet(g, S \ Won) = -SumFunctionOnSet(f, S \ Won)
  BY <1>2, <1>3, SumNegate
<1>7. SumFunctionOnSet(f, S) = SumFunctionOnSet(f, Won) + SumFunctionOnSet(f, S \ Won)
  <2> DEFINE W == Won
  <2>1. IsFiniteSet(S) /\ W \in SUBSET S
    BY <1>1, <1>2
  <2>2. \A i \in S : f[i] \in Int
    BY <1>1
  <2> HIDE DEF W
  <2>3. SumFunctionOnSet(f, S) = SumFunctionOnSet(f, W) + SumFunctionOnSet(f, S \ W)
    BY <2>1, <2>2, SumSplit
  <2>4. QED
    BY <2>3 DEF W
<1>8. SumFunctionOnSet(f, Won) \in Int /\ SumFunctionOnSet(f, S \ Won) \in Int
  <2>1. IsFiniteSet(Won)
    BY <1>1, <1>2, FS_Subset
  <2>2. \A i \in Won : f[i] \in Int
    BY <1>1, <1>2
  <2>3. \A i \in S \ Won : f[i] \in Int
    BY <1>1
  <2>4. QED
    BY <1>2, <2>1, <2>2, <2>3, SumInt
<1>9. QED
  BY <1>4, <1>5, <1>6, <1>7, <1>8

\* The loop over the trades is well defined.
LEMMA CurveSteps ==
  ASSUME NEW N \in Nat, N = Len(trades)
  PROVE  /\ Curve[0] = [equity |-> 0, peak |-> 0, worst |-> 0]
         /\ \A n \in 1..N : Curve[n] = CurveStep(Curve[n - 1], Pnls[n])
<1> DEFINE base == [equity |-> 0, peak |-> 0, worst |-> 0]
           V(g, n) == IF n = 0 THEN base ELSE CurveStep(g[n - 1], Pnls[n])
           P(k, g) == g = [n \in 0..k |-> V(g, n)]
           T == {k \in 0..N : ~\E g : P(k, g)}
<1>1. \E g : P(N, g)
  <2> SUFFICES ASSUME T # {} PROVE FALSE
    <3>1. N \in 0..N
      OBVIOUS
    <3> HIDE DEF P
    <3>2. QED
      BY <3>1
  <2>1. T \in SUBSET Nat
    OBVIOUS
  <2> HIDE DEF T
  <2>2. PICK k \in T : \A m \in T : k <= m
    BY <2>1, LeastNat
  <2>3. k \in 0..N /\ ~\E g : P(k, g)
    BY <2>2 DEF T
  <2>4. CASE k = 0
    <3> DEFINE g == [n \in 0..0 |-> base]
    <3>1. \A n \in 0..0 : V(g, n) = base
      OBVIOUS
    <3> HIDE DEF base, V
    <3>2. P(0, g)
      BY <3>1
    <3> HIDE DEF P
    <3>3. QED
      BY <2>3, <2>4, <3>2
  <2>5. CASE k # 0
    <3>1. k - 1 \in 0..N /\ k - 1 \notin T
      BY <2>2, <2>3, <2>5
    <3>2. PICK g : P(k - 1, g)
      BY <3>1 DEF T
    <3> DEFINE h == [n \in 0..k |-> IF n = k THEN V(g, k) ELSE g[n]]
    <3>3. ASSUME NEW n \in 0..k PROVE h[n] = V(h, n)
      <4> HIDE DEF base
      <4>1. CASE n = 0
        <5>1. n \in 0..(k - 1) /\ n # k
          BY <2>3, <2>5, <4>1
        <5>2. g[n] = V(g, n)
          BY <3>2, <5>1
        <5>3. QED
          BY <4>1, <5>1, <5>2
      <4>2. CASE n # 0
        <5>1. n - 1 \in 0..k /\ n - 1 # k /\ n - 1 \in 0..(k - 1)
          BY <2>3, <4>2
        <5>2. h[n - 1] = g[n - 1]
          BY <5>1
        <5> HIDE DEF h
        <5>3. V(h, n) = V(g, n)
          BY <5>2
        <5>4. CASE n = k
          BY <5>3, <5>4 DEF h
        <5>5. CASE n # k
          <6>1. n \in 0..(k - 1)
            BY <2>3, <5>5
          <6>2. g[n] = V(g, n)
            BY <3>2, <6>1
          <6>3. h[n] = g[n]
            BY <5>5 DEF h
          <6>4. QED
            BY <5>3, <6>2, <6>3
        <5>6. QED
          BY <5>4, <5>5
      <4>3. QED
        BY <4>1, <4>2
    <3>4. h = [n \in 0..k |-> h[n]]
      OBVIOUS
    <3> HIDE DEF h, V
    <3>5. P(k, h)
      BY <3>3, <3>4
    <3> HIDE DEF P
    <3>6. QED
      BY <2>3, <3>5
  <2>6. QED
    BY <2>4, <2>5
<1>2. Curve = CHOOSE g : P(N, g)
  BY DEF Curve
<1>3. P(N, Curve)
  <2> HIDE DEF P
  <2>1. QED
    BY <1>1, <1>2
<1> HIDE DEF T
<1>4. \A n \in 0..N : Curve[n] = V(Curve, n)
  <2> HIDE DEF V
  <2>1. QED
    BY <1>3
<1>5. 0 \in 0..N /\ \A n \in 1..N : n \in 0..N /\ n # 0
  OBVIOUS
<1>6. QED
  BY <1>4, <1>5

\* After n trades the loop holds what was gained, the highest it has been, and the
\* deepest fall so far.
CurveTrue(n) ==
  LET s == Curve[n] IN
  /\ s.equity = Equity(n)
  /\ \E i \in 0..n : s.peak = Equity(i)
  /\ \A i \in 0..n : Equity(i) <= s.peak
  /\ \E i, j \in 0..n : i <= j /\ s.worst = Equity(j) - Equity(i)
  /\ \A i, j \in 0..n : i <= j => s.worst <= Equity(j) - Equity(i)

LEMMA CurveTrueStep ==
  ASSUME TradesOK, NEW n \in 1..Len(trades), CurveTrue(n - 1) PROVE CurveTrue(n)
<1> DEFINE s == Curve[n - 1]  E(i) == Equity(i)  m == n - 1
           e == s.equity + Pnls[n]
           p == IF e > s.peak THEN e ELSE s.peak
           w == IF e - p < s.worst THEN e - p ELSE s.worst
<1>1. Len(trades) \in Nat /\ n \in Nat \ {0} /\ m \in Nat /\ (\A i \in 0..n : i \in 0..m \/ i = n)
      /\ (\A i \in 0..m : i \in 0..n) /\ n \in 0..n /\ n \notin 0..m
  BY PnlsInt
<1>2. \A i \in 0..n : E(i) \in Int
  BY <1>1, EquitySteps
<1>3. E(n) = E(m) + Pnls[n] /\ s.equity = E(m)
  BY EquitySteps DEF CurveTrue
<1>4. Curve[n] = [equity |-> e, peak |-> p, worst |-> w]
  BY PnlsInt, CurveSteps DEF CurveStep
<1>5. e = E(n)
  BY <1>3
<1>6. (\E i \in 0..m : s.peak = E(i)) /\ (\A i \in 0..m : E(i) <= s.peak)
  BY DEF CurveTrue
<1>7. (\E i, j \in 0..m : i <= j /\ s.worst = E(j) - E(i))
      /\ (\A i, j \in 0..m : i <= j => s.worst <= E(j) - E(i))
  BY DEF CurveTrue
<1> DEFINE P == s.peak  W == s.worst
<1>8. P \in Int /\ W \in Int /\ e \in Int
  <2> HIDE DEF E, e
  <2>1. PICK i \in 0..m : P = E(i)
    BY <1>6
  <2>2. PICK j, k \in 0..m : W = E(k) - E(j)
    BY <1>7
  <2> HIDE DEF P, W
  <2>3. E(i) \in Int /\ E(j) \in Int /\ E(k) \in Int /\ E(n) \in Int
    BY <1>1, <1>2
  <2>4. QED
    BY <1>5, <2>1, <2>2, <2>3
<1>9. p = (IF e > P THEN e ELSE P) /\ w = (IF e - p < W THEN e - p ELSE W)
  OBVIOUS
<1>10. (\E i \in 0..m : P = E(i)) /\ (\A i \in 0..m : E(i) <= P)
       /\ (\E i, j \in 0..m : i <= j /\ W = E(j) - E(i))
       /\ (\A i, j \in 0..m : i <= j => W <= E(j) - E(i))
  BY <1>6, <1>7
<1> HIDE DEF P, W, E, e, p, w, m
<1>11. p \in Int /\ w \in Int /\ p >= e /\ p >= P /\ w <= W /\ w <= e - p
  BY <1>8, <1>9
<1>12. \E i \in 0..n : p = E(i)
  <2>1. CASE p = e
    <3>1. n \in 0..n /\ p = E(n)
      BY <1>1, <1>5, <2>1
    <3>2. QED
      BY <3>1
  <2>2. CASE p = P
    <3>1. PICK i \in 0..m : P = E(i)
      BY <1>10
    <3>2. i \in 0..n /\ p = E(i)
      BY <1>1, <2>2, <3>1
    <3>3. QED
      BY <3>2
  <2>3. QED
    BY <1>9, <2>1, <2>2
<1>13. ASSUME NEW i \in 0..n PROVE E(i) <= p
  <2>1. E(i) \in Int
    BY <1>2
  <2>2. CASE i \in 0..m
    <3>1. E(i) <= P
      BY <1>10, <2>2
    <3>2. QED
      BY <1>8, <1>11, <2>1, <3>1
  <2>3. CASE i = n
    BY <1>5, <1>8, <1>11, <2>3
  <2>4. QED
    BY <1>1, <2>2, <2>3
<1>14. \E i, j \in 0..n : i <= j /\ w = E(j) - E(i)
  <2>1. CASE w = W
    BY <1>1, <1>10, <2>1
  <2>2. CASE w = e - p
    <3>1. PICK i \in 0..n : p = E(i)
      BY <1>12
    <3>2. i <= n /\ w = E(n) - E(i)
      BY <1>1, <1>5, <2>2, <3>1
    <3>3. QED
      BY <1>1, <3>2
  <2>3. QED
    BY <1>9, <2>1, <2>2
<1>15. ASSUME NEW i \in 0..n, NEW j \in 0..n, i <= j PROVE w <= E(j) - E(i)
  <2>1. E(i) \in Int /\ E(j) \in Int
    BY <1>2
  <2>2. CASE j = n
    <3>1. E(i) <= p /\ E(j) = e
      BY <1>5, <1>13, <2>2
    <3>2. QED
      BY <1>8, <1>11, <2>1, <3>1
  <2>3. CASE j # n
    <3>1. i \in 0..m /\ j \in 0..m
      BY <1>1, <1>15, <2>3 DEF m
    <3>2. W <= E(j) - E(i)
      BY <1>10, <1>15, <3>1
    <3>3. QED
      BY <1>8, <1>11, <2>1, <3>2
  <2>4. QED
    BY <2>2, <2>3
<1>16. Curve[n].equity = e /\ Curve[n].peak = p /\ Curve[n].worst = w
  BY <1>4
<1>17. QED
  BY <1>5, <1>12, <1>13, <1>14, <1>15, <1>16 DEF CurveTrue, E

LEMMA CurveAlwaysTrue ==
  ASSUME TradesOK PROVE CurveTrue(Len(trades))
<1> DEFINE N == Len(trades)
           T == {n \in 0..N : ~CurveTrue(n)}
<1>1. N \in Nat /\ N \in 0..N
  BY PnlsInt
<1> HIDE DEF N
<1> SUFFICES ASSUME T # {} PROVE FALSE
  BY <1>1 DEF N
<1>2. T \in SUBSET Nat
  BY <1>1
<1> HIDE DEF T
<1>3. PICK n \in T : \A m \in T : n <= m
  BY <1>2, LeastNat
<1>4. n \in 0..N /\ ~CurveTrue(n)
  BY <1>3 DEF T
<1>5. CASE n = 0
  <2>1. Curve[0] = [equity |-> 0, peak |-> 0, worst |-> 0]
    BY <1>1, CurveSteps DEF N
  <2>2. Equity(0) = 0 /\ \A i \in 0..0 : i = 0
    BY EquitySteps
  <2>3. \E i, j \in 0..0 : i <= j /\ 0 = Equity(j) - Equity(i)
    <3>1. 0 \in 0..0 /\ 0 <= 0 /\ 0 = Equity(0) - Equity(0)
      BY <2>2
    <3>2. QED
      BY <3>1
  <2>4. CurveTrue(0)
    BY <2>1, <2>2, <2>3 DEF CurveTrue
  <2>5. QED
    BY <1>4, <1>5, <2>4
<1>6. CASE n # 0
  <2>1. n - 1 \in 0..N /\ n - 1 \notin T /\ n \in 1..N
    BY <1>1, <1>3, <1>4, <1>6
  <2>2. CurveTrue(n - 1)
    BY <2>1 DEF T
  <2>3. QED
    BY <1>4, <2>1, <2>2, CurveTrueStep DEF N
<1>7. QED
  BY <1>5, <1>6

LEMMA DrawdownIsDeepestFall ==
  ASSUME TradesOK PROVE MaxDrawdown = Min(Falls)
<1> DEFINE n == Len(trades)  w == Curve[n].worst
<1>1. /\ \E i, j \in 0..n : i <= j /\ w = Equity(j) - Equity(i)
      /\ \A i, j \in 0..n : i <= j => w <= Equity(j) - Equity(i)
  BY CurveAlwaysTrue DEF CurveTrue
<1>2. MaxDrawdown = w
  BY DEF MaxDrawdown
<1>3. \A i \in 0..n : Equity(i) \in Int
  BY EquitySteps
<1> HIDE DEF w
<1>4. \A x \in Falls : w <= x /\ x \in Int
  BY <1>1, <1>3 DEF Falls
<1>5. w \in Falls
  <2>1. PICK i \in 0..n, j \in 0..n : i <= j /\ w = Equity(j) - Equity(i)
    BY <1>1
  <2> DEFINE x == <<i, j>>
  <2>2. x \in (0..n) \X (0..n) /\ x[1] = i /\ x[2] = j
    OBVIOUS
  <2> HIDE DEF x
  <2>3. x \in {y \in (0..n) \X (0..n) : y[1] <= y[2]} /\ w = Equity(x[2]) - Equity(x[1])
    BY <2>1, <2>2
  <2>4. QED
    BY <2>3 DEF Falls
<1>6. Min(Falls) \in Falls /\ \A x \in Falls : Min(Falls) <= x
  BY <1>4, <1>5 DEF Min
<1>7. QED
  BY <1>2, <1>4, <1>5, <1>6

-----------------------------------------------------------------------------
(* What the replay keeps. *)

\* What a sequence of trades earned.
Gain(s) == SumFunctionOnSet([i \in DOMAIN s |-> s[i].pnl], 1..Len(s))

LEMMA GainAppend ==
  ASSUME NEW s \in Seq(Trades), NEW t \in Trades
  PROVE  Gain(s) \in Int /\ Gain(Append(s, t)) = Gain(s) + t.pnl
<1> DEFINE u == Append(s, t)  k == Len(s) + 1
           f == [i \in DOMAIN u |-> u[i].pnl]
           g == [i \in DOMAIN s |-> s[i].pnl]
<1>1. /\ Len(s) \in Nat /\ DOMAIN s = 1..Len(s) /\ \A i \in 1..Len(s) : s[i] \in Trades
  BY LenProperties
<1>2. /\ Len(u) = k /\ DOMAIN u = 1..k /\ u[k] = t /\ \A i \in 1..Len(s) : u[i] = s[i]
  BY <1>1, AppendProperties
<1>3. \A i \in 1..Len(s) : i \in 1..k
  BY <1>1
<1> HIDE DEF u
<1>4. \A i \in 1..Len(s) : f[i] = g[i] /\ f[i] \in Int
  BY <1>1, <1>2, <1>3 DEF Trades
<1>5. f[k] = t.pnl /\ t.pnl \in Int /\ k \in 1..k /\ k \in Nat /\ k # 0 /\ k - 1 = Len(s)
      /\ (\A i \in 1..k : i \in 1..Len(s) \/ i = k)
  BY <1>1, <1>2 DEF Trades
<1> HIDE DEF f, g, k
<1>6. \A i \in 1..k : f[i] \in Int
  BY <1>4, <1>5
<1>7. /\ SumFunctionOnSet(f, 1..(k - 1)) \in Int
      /\ SumFunctionOnSet(f, 1..k) = SumFunctionOnSet(f, 1..(k - 1)) + f[k]
  BY <1>5, <1>6, SumExtend
<1>8. SumFunctionOnSet(f, 1..Len(s)) = SumFunctionOnSet(g, 1..Len(s))
  <2> DEFINE S == 1..Len(s)
  <2>1. IsFiniteSet(S)
    BY <1>1, FS_Interval
  <2>2. \A i \in S : f[i] = g[i] /\ f[i] \in Int
    BY <1>4
  <2> HIDE DEF S
  <2>3. SumFunctionOnSet(f, S) = SumFunctionOnSet(g, S)
    BY <2>1, <2>2, SumEqual
  <2>4. QED
    BY <2>3 DEF S
<1>9. Gain(s) = SumFunctionOnSet(g, 1..Len(s)) /\ Gain(u) = SumFunctionOnSet(f, 1..k)
  BY <1>2 DEF Gain, f, g
<1>10. QED
  BY <1>5, <1>7, <1>8, <1>9 DEF u

LEMMA GainIsEquity == ASSUME TradesOK PROVE Gain(trades) = Equity(Len(trades))
BY DEF Gain, Equity, Pnls

\* The strategy and the account agree, and the account has gained what the trades say.
BtInv ==
  /\ account \in Accounts /\ position \in Held \cup {None}
  /\ CandlesHold(candles, queue)
  /\ TradesOK
  /\ Books(account, position)
  /\ account.total = InitialBalance + Gain(trades)

LEMMA BtInvInit == ASSUME BacktestInit PROVE BtInv
<1>1. account = [total |-> InitialBalance, available |-> InitialBalance, position |-> None, orders |-> <<>>]
      /\ InitialBalance \in Int
  BY ExchangeAssumption DEF BacktestInit, NewAccount
<1>2. account \in Accounts
  BY <1>1 DEF Accounts
<1>3. position = None /\ queue = {} /\ trades = <<>>
  BY DEF BacktestInit
<1>4. TradesOK
  BY <1>3 DEF TradesOK
<1>5. Books(account, position)
  BY <1>1, <1>3 DEF Books, PendingOf
<1>6. Gain(trades) = 0
  <2>1. 1..Len(trades) = {}
    BY <1>3
  <2>2. QED
    BY <2>1, SumEmpty DEF Gain
<1>7. CandlesHold(candles, queue)
  BY <1>3 DEF CandlesHold
<1>8. QED
  BY <1>1, <1>2, <1>3, <1>4, <1>5, <1>6, <1>7 DEF BtInv

LEMMA BtInvLoad == ASSUME BtInv, LoadCandles PROVE BtInv'
<1>1. PICK path \in [0..(Horizon - 1) -> Prices] : candles' = LoadedCandles(path)
  BY DEF LoadCandles
<1>2. queue' = Range(candles')
  BY DEF LoadCandles
<1>3. CandlesHold(candles', queue')
  BY <1>1, <1>2, LoadedHold
<1>4. UNCHANGED <<account, position, trades>>
  BY DEF LoadCandles
<1>5. QED
  BY <1>3, <1>4 DEF BtInv, TradesOK, Books, PendingOf, Gain, CandlesHold

\* The account and the trades after the candle's stops are looked at.
Settled(a, p, ts) ==
  /\ a \in Accounts /\ p \in Held \cup {None} /\ Books(a, p)
  /\ ts \in Seq(Trades) /\ \A i \in DOMAIN ts : ts[i].result = "WIN" <=> ts[i].pnl >= 0
  /\ a.total = InitialBalance + Gain(ts)

LEMMA StopSettles ==
  ASSUME BtInv, NEW c, c.at \in Nat
  PROVE  Settled(Checked(c), IF Stopped(c) THEN None ELSE position, Recorded(c))
<1> USE DEF BtInv
<1>1. CASE position = None
  BY <1>1 DEF Settled, Checked, Stopped, Recorded, TradesOK
<1>2. CASE position # None /\ Fills(account, c) = {}
  <2>1. Checked(c) = account
    BY <1>2, NoFillNoChange DEF Checked
  <2>2. QED
    BY <1>2, <2>1 DEF Settled, Stopped, Recorded, TradesOK
<1>3. CASE position # None /\ Fills(account, c) # {}
  <2> DEFINE b == CheckPendingOrders(account, c)
  <2>1. position \in Held
    BY <1>3
  <2>2. PICK i \in Nat :
          /\ Fills(account, c) = {i} /\ StopFill(account.orders[i]) \in Int
          /\ b \in Accounts /\ Books(b, None)
          /\ b.total = account.total + TradeOf(position, StopFill(account.orders[i]), c.at).pnl
          /\ TradeOf(position, StopFill(account.orders[i]), c.at).pnl \in Int
    BY <1>3, <2>1, StopCloses
  <2> DEFINE t == TradeOf(position, StopFill(account.orders[i]), c.at)
  <2>3. Min(Fills(account, c)) = i
    BY <2>2 DEF Min
  <2>4. Stopped(c) /\ Checked(c) = b /\ Recorded(c) = Append(trades, t)
    BY <1>3, <2>3 DEF Stopped, Checked, Recorded
  <2>5. t.result = (IF t.pnl >= 0 THEN "WIN" ELSE "LOSS") /\ t.opened \in Nat /\ t.closed \in Nat
        /\ t = [pnl |-> t.pnl, result |-> t.result, opened |-> t.opened, closed |-> t.closed]
    BY <2>1 DEF TradeOf, Held
  <2>6. b \in Accounts /\ Books(b, None) /\ t.pnl \in Int /\ b.total = account.total + t.pnl
    BY <2>2
  <2> HIDE DEF t, b
  <2>7. t \in Trades /\ (t.result = "WIN" <=> t.pnl >= 0)
    BY <2>5, <2>6 DEF Trades
  <2>8. trades \in Seq(Trades) /\ Append(trades, t) \in Seq(Trades)
    BY <2>7 DEF TradesOK
  <2>9. Gain(trades) \in Int /\ Gain(Append(trades, t)) = Gain(trades) + t.pnl
    BY <2>7, <2>8, GainAppend
  <2>10. b.total = InitialBalance + Gain(Append(trades, t))
    <3>1. InitialBalance \in Int
      BY ExchangeAssumption
    <3>2. QED
      BY <2>6, <2>9, <3>1
  <2>11. \A j \in DOMAIN Append(trades, t) : Append(trades, t)[j].result = "WIN" <=> Append(trades, t)[j].pnl >= 0
    <3>1. Len(trades) \in Nat /\ DOMAIN trades = 1..Len(trades)
      BY <2>8, LenProperties
    <3>2. /\ DOMAIN Append(trades, t) = 1..(Len(trades) + 1) /\ Append(trades, t)[Len(trades) + 1] = t
          /\ \A j \in 1..Len(trades) : Append(trades, t)[j] = trades[j]
      BY <2>7, <2>8, <3>1, AppendProperties
    <3>3. \A j \in 1..(Len(trades) + 1) : j \in 1..Len(trades) \/ j = Len(trades) + 1
      BY <3>1
    <3>4. QED
      BY <2>7, <3>1, <3>2, <3>3 DEF TradesOK
  <2>12. QED
    BY <2>4, <2>6, <2>8, <2>10, <2>11 DEF Settled
<1>4. QED
  BY <1>1, <1>2, <1>3

LEMMA EnterSettles ==
  ASSUME NEW c, CandleOK(c), NEW a, NEW ts, Settled(a, None, ts), Enter(c, a),
         CandleOK(GetCurrentCandle(candles, c.at))
  PROVE  Settled(account', position', ts)
<1>1. PICK direction \in {"LONG", "SHORT"}, stop \in StopPrices, asked \in Sizes :
        LET size == CapSize(asked, a.available, c.close)
            fill == ApplySlippage(GetCurrentCandle(candles, c.at).close, Side(direction))
        IN  /\ size >= 1
            /\ account' = RegisterPendingOrder(FillMarketEntry(a, Side(direction), size, fill),
                                               Opposite(Side(direction)), size, stop)
            /\ position' = [direction |-> direction, entry |-> fill, size |-> size, opened |-> c.at]
  BY DEF Enter
<1> DEFINE size == CapSize(asked, a.available, c.close)
           fill == ApplySlippage(GetCurrentCandle(candles, c.at).close, Side(direction))
<1>2. a \in Accounts /\ Books(a, None)
  BY DEF Settled
<1>3. stop \in Int /\ asked \in Nat /\ c.at \in Nat
  BY BacktestAssumption DEF CandleOK
<1>4. fill \in Int
  <2> DEFINE price == GetCurrentCandle(candles, c.at).close
  <2>1. price \in Int
    BY DEF CandleOK
  <2> HIDE DEF price
  <2>2. ApplySlippage(price, Side(direction)) \in Int
    BY <2>1, SlippageInt
  <2>3. QED
    BY <2>2 DEF price
<1>5. size \in Nat \ {0}
  <2>1. a.available \in Int /\ c.close \in Nat \ {0}
    BY <1>2 DEF Accounts, CandleOK
  <2> DEFINE cap == (a.available * 95) \div (100 * c.close)
  <2>2. cap \in Int
    BY <2>1
  <2>3. size = IF asked > cap THEN cap ELSE asked
    BY DEF CapSize
  <2>4. size >= 1
    BY <1>1
  <2> HIDE DEF cap, size
  <2>5. QED
    BY <1>3, <2>2, <2>3, <2>4
<1>6. /\ account' = RegisterPendingOrder(FillMarketEntry(a, Side(direction), size, fill),
                                         Opposite(Side(direction)), size, stop)
      /\ position' = [direction |-> direction, entry |-> fill, size |-> size, opened |-> c.at]
  BY <1>1
<1> HIDE DEF size, fill
<1>7. account' \in Accounts /\ position' \in Held /\ Books(account', position') /\ account'.total = a.total
  BY <1>2, <1>3, <1>4, <1>5, <1>6, EntryBooks
<1>8. QED
  BY <1>7 DEF Settled

LEMMA BtInvReplay == ASSUME BtInv, Replay PROVE BtInv'
<1>1. PICK c \in queue : queue' = queue \ {c} /\ OnCandleClose(c) /\ candles' = candles
  BY DEF Replay
<1>2. CandleOK(c) /\ CandleOK(GetCurrentCandle(candles, c.at))
  <2>1. CandlesHold(candles, queue)
    BY DEF BtInv
  <2>2. CandleOK(GetCurrentCandle(candles, c.at))
    BY <1>1, <2>1, CurrentCandleOK
  <2>3. QED
    BY <1>1, <2>1, <2>2 DEF CandlesHold
<1>3. CandlesHold(candles', queue')
  BY <1>1 DEF BtInv, CandlesHold
<1> DEFINE held == IF Stopped(c) THEN None ELSE position
           ts == Recorded(c)
<1>4. Settled(Checked(c), held, ts)
  BY <1>2, StopSettles DEF CandleOK
<1>5. trades' = ts
      /\ \/ account' = Checked(c) /\ position' = held
         \/ held = None /\ Enter(c, Checked(c))
  BY <1>1 DEF OnCandleClose, Enters
<1> HIDE DEF held, ts
<1>6. Settled(account', position', ts)
  <2>1. CASE account' = Checked(c) /\ position' = held
    BY <1>4, <2>1
  <2>2. CASE held = None /\ Enter(c, Checked(c))
    BY <1>2, <1>4, <2>2, EnterSettles
  <2>3. QED
    BY <1>5, <2>1, <2>2
<1>7. QED
  BY <1>3, <1>5, <1>6 DEF Settled, BtInv, TradesOK, Books, PendingOf, Gain, CandlesHold

LEMMA InvBooksBalance == BtInv => BooksBalance
BY BooksBalanceIsBooks DEF BtInv

LEMMA InvReportTrue == ASSUME BtInv PROVE ReportTrue
<1>1. TradesOK /\ account.total = InitialBalance + Gain(trades) /\ account.total \in Int /\ InitialBalance \in Int
  BY ExchangeAssumption DEF BtInv, Accounts
<1>2. TotalExpectancy = Equity(Len(trades)) /\ Gain(trades) = Equity(Len(trades)) /\ Equity(Len(trades)) \in Int
  <2>1. Len(trades) \in 0..Len(trades)
    BY <1>1, PnlsInt
  <2>2. Equity(Len(trades)) \in Int
    BY <1>1, <2>1, EquitySteps
  <2>3. QED
    BY <1>1, <2>2, ExpectancyIsEquity, GainIsEquity
<1>3. TotalExpectancy = account.total - InitialBalance
  BY <1>1, <1>2
<1>4. QED
  BY <1>1, <1>3, DrawdownIsDeepestFall DEF ReportTrue

-----------------------------------------------------------------------------
(* The process. *)

Inv == BtInv /\ WfoInv

LEMMA InvInit == Init => Inv
BY BtInvInit, WfoInvInit DEF Init, Inv

LEMMA InvStep == Inv /\ [Next]_vars => Inv'
<1> SUFFICES ASSUME Inv, [Next]_vars PROVE Inv'
  OBVIOUS
<1>1. BtInv /\ WfoInv
  BY DEF Inv
<1>2. UNCHANGED btVars => BtInv'
  BY <1>1 DEF btVars, BtInv, TradesOK, Books, PendingOf, Gain, CandlesHold
<1>3. UNCHANGED wfoVars => WfoInv'
  BY <1>1, WfoInvStep
<1>4. CASE RunBacktest
  BY <1>1, <1>3, <1>4, BtInvLoad, BtInvReplay DEF RunBacktest, Inv
<1>5. CASE RunWfo
  BY <1>1, <1>2, <1>5, WfoInvStep DEF RunWfo, Inv
<1>6. CASE InitDb \/ Report \/ SaveBacktestResult \/ UNCHANGED vars
  BY <1>2, <1>3, <1>6 DEF InitDb, Report, SaveBacktestResult, vars, Inv
<1>7. QED
  BY <1>4, <1>5, <1>6 DEF Next

\* Every state the process reaches keeps what both of its parts keep.
THEOREM BacktestInv == Spec => []Inv
BY InvInit, InvStep, PTL DEF Spec

\* At every candle the simulated account's balances add up, account and strategy agree on
\* the position, and exactly one stop of its size waits while one is held
\* (mock-adapter.ts, strategy.ts).
THEOREM BacktestBooksBalance == Spec => []BooksBalance
<1>1. Inv => BooksBalance
  BY InvBooksBalance DEF Inv
<1>2. QED
  BY <1>1, BacktestInv, PTL

\* What calcBasicMetrics reports is the account's own history: the expectancy of all trades
\* is what the balance has gained, the drawdown its deepest fall (metrics.ts).
THEOREM BacktestReportTrue == Spec => []ReportTrue
<1>1. Inv => ReportTrue
  BY InvReportTrue DEF Inv
<1>2. QED
  BY <1>1, BacktestInv, PTL

\* generateWfoWindows gives every window that fits the data, none that reaches beyond it,
\* each later than the one before, and the days tested out of sample have no hole between
\* them, whichever day of a month the data starts on (wfo.ts).
THEOREM BacktestWindowsComplete == Spec => []WindowsComplete
<1>1. Inv => WindowsComplete
  BY InvWindowsComplete DEF Inv
<1>2. QED
  BY <1>1, BacktestInv, PTL

\* Parameters written to the configuration were chosen by a window in whose in-sample months
\* they earned, and some window kept out of sample more than half of what it had earned
\* in-sample (the gate of wfo.ts).
THEOREM BacktestGateHonest == Spec => []GateHonest
<1>1. Inv => GateHonest
  BY DEF Inv, WfoInv
<1>2. QED
  BY <1>1, BacktestInv, PTL
=============================================================================
