------------------------------ MODULE MCEngine ------------------------------
(* Small instances of the batch engine for TLC.                            *)
EXTENDS BatchEngine, TLC

EngineSymmetry == Permutations(Jobs) \cup Permutations(Workers)
=============================================================================
