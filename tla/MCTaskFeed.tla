----------------------------- MODULE MCTaskFeed -----------------------------
(***************************************************************************)
(* TaskFeed for TLC: callers and requests are model values.                *)
(***************************************************************************)
EXTENDS TaskFeed, TLC

Symmetry == Permutations(Caller) \cup Permutations(Canceler)

=============================================================================
