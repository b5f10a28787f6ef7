----------------------------- MODULE MCMigrate -----------------------------
(***************************************************************************)
(* Migrate for TLC: hosts of the same build, or of two builds.         *)
(***************************************************************************)
EXTENDS Migrate

CONSTANTS h1, h2, h3

SameBuild == [h \in Candidate |-> 2]
TwoBuilds == [h \in Candidate |-> IF h = h1 THEN 1 ELSE 2]
=============================================================================
