-------------------------- MODULE MCReconciliation --------------------------
(* Model checking Reconciliation and the pipeline it runs beside.            *)
EXTENDS Reconciliation

NoTargets == {}
=============================================================================
