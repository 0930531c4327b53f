----------------------------- MODULE MCScheduler -----------------------------
(* Small instances of the fair scheduler for TLC.                          *)
EXTENDS SchedulerFairness, TLC

JobSymmetry == Permutations(Jobs)
=============================================================================
