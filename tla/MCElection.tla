---------------------------- MODULE MCElection ----------------------------
(***************************************************************************)
(* Election for TLC: the candidates are model values.                      *)
(***************************************************************************)
EXTENDS Election, TLC

Symmetry == Permutations(Candidate)

=============================================================================
