----------------------------- MODULE MCMetrics -----------------------------
(* Small instances of the engine with its metrics for TLC.                 *)
EXTENDS EngineMetrics, TLC

EngineSymmetry == Permutations(Jobs) \cup Permutations(Workers)
=============================================================================
