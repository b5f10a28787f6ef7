---------------------------- MODULE MCLifecycle ----------------------------
(***************************************************************************)
(* Lifecycle for TLC: operations are model values.                         *)
(***************************************************************************)
EXTENDS Lifecycle, TLC

Symmetry == Permutations(Op)

=============================================================================
