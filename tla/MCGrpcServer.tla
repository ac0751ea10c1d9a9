---------------------------- MODULE MCGrpcServer ----------------------------
(* Instances of GrpcServer for TLC.                                         *)
EXTENDS GrpcServer, TLC

CONSTANTS s1, w1, w2, c1, c2, d1, a1, j1, m1

\* Safety only: the workers are interchangeable.
WorkerSymmetry == Permutations({w1, w2})

\* The server with its service among the controllers of the module.
EveryMethod == Method
=============================================================================
