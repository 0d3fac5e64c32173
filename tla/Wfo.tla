-------------------------------- MODULE Wfo --------------------------------
(***************************************************************************)
(* Walk-forward optimisation (backtest/wfo.ts) with the parameter search   *)
(* (backtest/param-search.ts): rolling windows of months, per window the   *)
(* best parameters in-sample and one run out-of-sample with them, then a   *)
(* gate before anything is written to the configuration.                   *)
(*                                                                         *)
(* A backtest answers any expectancy of Expectancies, or throws.           *)
(***************************************************************************)
EXTENDS Integers, Sequences, SequencesExt, FiniteSetsExt, Functions

CONSTANTS
  IsMonths, OosMonths, RollMonths,   \* 6, 2 and 1
  Ranges,                      \* [start, end], dates [m, d], months counted from some January
  Grid,                        \* the grid's combinations, in order
  RandomParams, TopN,          \* what a random sample may draw; seeds of the second stage
  Expectancies, Scale,         \* each positive expectancy divides Scale
  Unset

ASSUME MonthsAssumption == {IsMonths, OosMonths, RollMonths} \subseteq Nat \ {0} /\ RollMonths < OosMonths
Dates == [m : Nat, d : 1..31]
ASSUME RangesAssumption == Ranges \subseteq [start : Dates, end : Dates]
ASSUME ExpectancyAssumption ==
  /\ Expectancies \subseteq Int /\ Scale \in Nat \ {0}
  /\ \A e \in Expectancies : e > 0 => \E q \in 1..Scale : Scale = q * e

VARIABLES
  range,        \* [start, end] of the data, Unset before the arguments are read
  window,       \* index of the window under way
  stage,        \* "start", "parent", "grid", "random", "oos", "child", "gate", "done" or "thrown"
  searched,     \* [params, expectancy] of the present window's search, in the order run
  seeds,        \* the grid results that seed the second stage
  results,      \* windowResults
  saved,        \* rows of backtests: [parent, children], whether and for which windows
  stored        \* the parameters updateConfig has written

wfoVars == <<range, window, stage, searched, seeds, results, saved, stored>>

-----------------------------------------------------------------------------
(***************************************************************************)
(* generateWfoWindows, in months that differ in length.                    *)
(***************************************************************************)
DaysIn(m) == CASE m % 12 = 1 -> 28 [] m % 12 \in {3, 5, 8, 10} -> 30 [] OTHER -> 31

\* setUTCMonth: a day the month does not have runs over into the next.
AddMonths(date, n) ==
  LET m == date.m + n IN
  IF date.d <= DaysIn(m) THEN [m |-> m, d |-> date.d] ELSE [m |-> m + 1, d |-> date.d - DaysIn(m)]

Before(x, y) == x.m < y.m \/ (x.m = y.m /\ x.d < y.d)

WindowAt(start, i) ==
  LET isStart == AddMonths(start, i * RollMonths)
      isEnd == AddMonths(isStart, IsMonths)
  IN  [isStart |-> isStart, isEnd |-> isEnd, oosEnd |-> AddMonths(isEnd, OosMonths)]

FitsInSample(r, i) == ~Before(r.end, WindowAt(r.start, i).isEnd)     \* variant
Fits(r, i) == ~Before(r.end, WindowAt(r.start, i).oosEnd)

\* The loop ends with the first window that does not fit.
WindowCount(r) == CHOOSE n \in 0..(r.end.m + 1) : ~Fits(r, n) /\ \A i \in 0..(n - 1) : Fits(r, i)

-----------------------------------------------------------------------------
WfoInit ==
  /\ range = Unset /\ window = 0 /\ stage = "start"
  /\ searched = <<>> /\ seeds = <<>> /\ results = <<>> /\ saved = [parent |-> FALSE, children |-> {}] /\ stored = Unset

GoTo(s) == stage' = s

\* The CLI's --start and --end.
GenerateWfoWindows ==
  /\ stage = "start" /\ GoTo("parent")
  /\ range' \in Ranges
  /\ UNCHANGED <<window, searched, seeds, results, saved, stored>>

\* The window's search is over, or all windows are.
NextWindow(n) ==
  /\ window' = n /\ searched' = <<>> /\ seeds' = <<>>
  /\ GoTo(IF n < WindowCount(range) THEN "grid" ELSE "gate")

\* saveResult catches what the insert throws and answers "", which no row's id is.
SaveParent ==
  /\ stage = "parent" /\ (saved' = saved \/ saved' = [saved EXCEPT !.parent = TRUE])
  /\ NextWindow(0) /\ UNCHANGED <<range, results, stored>>

ByExpectancy(s) == SortSeq(s, LAMBDA x, y : x.expectancy > y.expectancy)
Ran(params, e) == searched' = Append(searched, [params |-> params, expectancy |-> e])

\* runParameterSearch, first stage: all combinations, then the best TopN become seeds.
GridSearch ==
  /\ stage = "grid" /\ Len(searched) < Len(Grid)
  /\ \E e \in Expectancies : Ran(Grid[Len(searched) + 1], e)
  /\ IF Len(searched') = Len(Grid)
     THEN /\ seeds' = SubSeq(ByExpectancy(searched'), 1, IF RandomParams = {} THEN 0 ELSE Min({TopN, Len(Grid)}))
          /\ GoTo("random")
     ELSE UNCHANGED <<seeds, stage>>
  /\ UNCHANGED <<range, window, results, saved, stored>>

\* Second stage: one sample for each seed, merged over the seed's parameters.
RandomSearch ==
  /\ stage = "random" /\ seeds # <<>> /\ seeds' = Tail(seeds)
  /\ \E p \in RandomParams, e \in Expectancies : Ran(seeds[1].params \o p, e)
  /\ UNCHANGED <<range, window, stage, results, saved, stored>>

\* What a stable sort puts first: the first of the highest.
FirstBest(f) == CHOOSE i \in DOMAIN f : (\A j \in DOMAIN f : f[j] <= f[i]) /\ \A j \in 1..(i - 1) : f[j] < f[i]
Best(s) == s[FirstBest([i \in DOMAIN s |-> s[i].expectancy])]
SearchOver == stage = "random" /\ seeds = <<>>

SkipsUnset(best) == FALSE                                 \* variant: no window is skipped
Skips(best) == best.expectancy <= 0

SkipWindow ==
  /\ SearchOver /\ Skips(Best(searched))
  /\ NextWindow(window + 1) /\ UNCHANGED <<range, results, saved, stored>>

OutOfSample ==
  /\ SearchOver /\ ~Skips(Best(searched))
  /\ \E e \in Expectancies :
       results' = Append(results, [window |-> window, params |-> Best(searched).params,
                                   is |-> Best(searched).expectancy, oos |-> e])
  /\ GoTo("child") /\ UNCHANGED <<range, window, searched, seeds, saved, stored>>

\* A child's row refers to the parent's: without that it cannot be inserted.
SaveChild ==
  /\ stage = "child"
  /\ saved' = saved \/ (saved.parent /\ saved' = [saved EXCEPT !.children = @ \cup {window}])
  /\ NextWindow(window + 1) /\ UNCHANGED <<range, results, stored>>

Throws ==
  /\ \/ stage = "grid" \/ stage = "random"
  /\ GoTo("thrown") /\ UNCHANGED <<range, window, searched, seeds, results, saved, stored>>

-----------------------------------------------------------------------------
(***************************************************************************)
(* The gate: average out-of-sample expectancy above 0, average efficiency  *)
(* above one half.  An efficiency is counted in parts of Scale.            *)
(***************************************************************************)
Efficiency(r) == (Scale \div r.is) * r.oos
OosTotal == SumFunctionOnSet([i \in DOMAIN results |-> results[i].oos], DOMAIN results)
EfficiencyTotal == SumFunctionOnSet([i \in DOMAIN results |-> Efficiency(results[i])], DOMAIN results)

Passed == results # <<>> /\ OosTotal > 0 /\ 2 * EfficiencyTotal > Scale * Len(results)

\* The first of the windows with the highest in-sample expectancy.
BestParams == results[FirstBest([i \in DOMAIN results |-> results[i].is])].params

\* updateConfig is optional; without it the gate's answer is all there is.
Gate ==
  /\ stage = "gate" /\ GoTo("done")
  /\ (stored' = stored \/ (Passed /\ stored' = BestParams))
  /\ UNCHANGED <<range, window, searched, seeds, results, saved>>

WfoNext ==
  \/ GenerateWfoWindows \/ SaveParent \/ GridSearch \/ RandomSearch \/ SkipWindow \/ OutOfSample \/ SaveChild \/ Throws \/ Gate

-----------------------------------------------------------------------------
\* No window that fits is left out because an earlier one did not, none reaches beyond the
\* data, each starts later than the one before, and the months tested out of sample have
\* no hole, whichever day of the month the data starts on.
Complete(r) ==
  LET n == WindowCount(r)  W(i) == WindowAt(r.start, i) IN
  /\ \A i \in 0..(r.end.m + 2) : i < n <=> ~Before(r.end, W(i).oosEnd)
  /\ \A i \in 1..(n - 1) :
       /\ Before(W(i - 1).isStart, W(i).isStart)
       /\ ~Before(W(i - 1).oosEnd, W(i).isEnd)
WindowsComplete ==
  stage = "parent" =>
    \A day \in 1..DaysIn(range.start.m), last \in 1..28 :
      Complete([start |-> [range.start EXCEPT !.d = day], end |-> [m |-> range.end.m + 12, d |-> last]])

\* What is written to the configuration has been measured: a window chose it, in whose
\* in-sample months it earned, and some window kept more than half of what it had earned.
GateHonest ==
  stored # Unset =>
    /\ \E i \in DOMAIN results : results[i].params = stored /\ results[i].is > 0
    /\ \E i \in DOMAIN results : results[i].is > 0 /\ 2 * results[i].oos > results[i].is
=============================================================================
