---------------------------- MODULE MCScheduler ----------------------------
(***************************************************************************)
(* Scheduler for TLC: hosts are interchangeable.                           *)
(***************************************************************************)
EXTENDS Scheduler, TLC

Symmetry == Permutations(Candidate)

=============================================================================
