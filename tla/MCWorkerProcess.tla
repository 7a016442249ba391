-------------------------- MODULE MCWorkerProcess --------------------------
(* Small instances of WorkerProcess for TLC. *)
EXTENDS WorkerProcess, TLC

CONSTANTS j1, j2, d1, d2
=============================================================================
