--------------------------- MODULE MCTicketStore ---------------------------
(* Model checking TicketStore: constants that a configuration cannot write.  *)
EXTENDS TicketStore, TLC

TpTargets == {"TP1_HIT", "TP2_HIT"}

Symmetric == Permutations(Procs) \cup Permutations(Tickets)
             \cup Permutations(Sessions)
============================================================================
