----------------------------- MODULE MCRetention -----------------------------
(***************************************************************************)
(* Instances of Retention for TLC.                                         *)
(***************************************************************************)
EXTENDS Retention, TLC

CONSTANTS r1, r2, c1, c2

Symmetry == Permutations(Controllers)
==============================================================================
