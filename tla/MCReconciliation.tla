-------------------------- MODULE MCReconciliation --------------------------
(* Instances of Reconciliation. *)
EXTENDS Reconciliation
=============================================================================
