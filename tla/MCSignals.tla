----------------------------- MODULE MCSignals -----------------------------
(* Model checking Signals: constants that a configuration cannot write. *)
EXTENDS Signals

SomeBalances == {1, 3, 40, 299, 300, 500}
SomeCaps == {5, 50}
=============================================================================
