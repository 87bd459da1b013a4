---------------------------- MODULE MCDashboard ----------------------------
(* Interchangeable jobs. *)
EXTENDS Dashboard, TLC

JobSymmetry == Permutations(Jobs)
=============================================================================
