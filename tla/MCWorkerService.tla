-------------------------- MODULE MCWorkerService --------------------------
(* Small instances of WorkerService for TLC. *)
EXTENDS WorkerService, TLC

CONSTANTS w1, w2, w3, w4, k1

\* Pids are interchangeable.
WorkerSymmetry == Permutations(Workers)
=============================================================================
