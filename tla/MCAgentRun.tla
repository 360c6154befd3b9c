---------------------------- MODULE MCAgentRun ----------------------------
(***************************************************************************)
(* Instances of AgentRun for TLC.                                          *)
(***************************************************************************)
EXTENDS AgentRun, TLC

CONSTANTS w1, w2, d1, d2, d3

\* Interchangeable workers.
WorkerSymmetry == Permutations(Workers)
============================================================================
