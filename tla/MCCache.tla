------------------------------ MODULE MCCache ------------------------------
(***************************************************************************)
(* Cache for TLC: the keys are model values.                               *)
(***************************************************************************)
EXTENDS Cache, TLC

Symmetry == Permutations(Key)

=============================================================================
