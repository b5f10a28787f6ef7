-------------------------- MODULE MCActivityTasks --------------------------
(***************************************************************************)
(* ActivityTasks for TLC: hosts and slots are model values.                *)
(***************************************************************************)
EXTENDS ActivityTasks, TLC

Symmetry == Permutations(Host) \cup Permutations(Slot)

=============================================================================
