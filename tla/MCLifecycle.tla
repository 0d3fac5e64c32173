---------------------------- MODULE MCLifecycle -----------------------------
(* Model checking Lifecycle: constants that a configuration cannot write. *)
EXTENDS Lifecycle

NoTargets == {}
=============================================================================
