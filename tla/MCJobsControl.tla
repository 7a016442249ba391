--------------------------- MODULE MCJobsControl ---------------------------
(* Small instances of JobsControl for TLC. *)
EXTENDS JobsControlInv, JobsControlLifecycle, TLC

CONSTANTS j1, j2, c1, c2, e1, e2

\* Clients and executors are interchangeable, and so are jobs of one length.
ProcessSymmetry == Permutations(Clients) \cup Permutations(Executors)
ControlSymmetry == ProcessSymmetry \cup Permutations(Short)
=============================================================================
