----------------------------- MODULE MCScheduler -----------------------------
(* Instances of Scheduler for TLC.  The cores are interchangeable. *)
EXTENDS Scheduler, TLC

Symmetry == Permutations(Cores)
=============================================================================
