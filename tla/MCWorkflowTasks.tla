-------------------------- MODULE MCWorkflowTasks --------------------------
(***************************************************************************)
(* WorkflowTasks for TLC: hosts and events are model values.               *)
(***************************************************************************)
EXTENDS WorkflowTasks, TLC

Symmetry == Permutations(Worker)

=============================================================================
