----------------------------- MODULE MCBacktest -----------------------------
(* Model checking BacktestCli: eight slots of two prices; windows of two months *)
(* in-sample and two out-of-sample, from the first and from late days of a month. *)
EXTENDS BacktestCli

SomeRanges ==
  {[start |-> [m |-> 0, d |-> 1], end |-> [m |-> 5, d |-> 1]],
   [start |-> [m |-> 0, d |-> 31], end |-> [m |-> 6, d |-> 3]],
   [start |-> [m |-> 10, d |-> 30], end |-> [m |-> 16, d |-> 1]]}
SomeGrid == <<<<"k1">>, <<"k2">>>>
SomeSamples == {<<"w1">>}
SomeExpectancies == {-1, 2, 6}
=============================================================================
