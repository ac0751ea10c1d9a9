---------------------------- MODULE MCScheduler ----------------------------
(* Instances of Scheduler for TLC.                                          *)
EXTENDS Scheduler, TLC

CONSTANTS s1, w1, w2, c1, c2, d1, a1, j1

\* Safety only: the workers are interchangeable.
WorkerSymmetry == Permutations({w1, w2})
=============================================================================
