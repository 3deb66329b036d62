---------------------------- MODULE MCReconcile ----------------------------
(***************************************************************************)
(* Reconcile for TLC: job ids are interchangeable in every safety run.     *)
(***************************************************************************)
EXTENDS Reconcile, TLC

Symmetry == Permutations(Jobs)
=============================================================================
