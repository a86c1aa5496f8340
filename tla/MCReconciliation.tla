-------------------------- MODULE MCReconciliation --------------------------
(* TLC instances of Reconciliation: the configurations give the bounds.    *)
EXTENDS Reconciliation
=============================================================================
