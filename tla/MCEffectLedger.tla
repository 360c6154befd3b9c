--------------------------- MODULE MCEffectLedger ---------------------------
(* Two callers that may present different digests, one retention controller. *)
EXTENDS EffectLedger, TLC

Symmetry == Permutations(Callers) \cup Permutations(Digests)
=============================================================================
