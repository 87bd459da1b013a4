------------------------------- MODULE MCApp -------------------------------
(* The instances of MCScheduler, inside their processes. *)
EXTENDS App, MCScheduler
=============================================================================
