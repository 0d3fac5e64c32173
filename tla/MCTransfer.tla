---------------------------- MODULE MCTransfer ----------------------------
(* Model checking Transfer: two configurations, a small account. *)
EXTENDS Transfer, TLC

\* Runs are interchangeable, and so are requests.
Interchangeable == Permutations(Runs) \cup Permutations(Requests)

SomeValues ==
  {[enabled |-> TRUE, schedule |-> "daily", time |-> 1],
   [enabled |-> FALSE, schedule |-> "weekly", time |-> 0]}
=============================================================================
