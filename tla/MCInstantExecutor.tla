------------------------- MODULE MCInstantExecutor -------------------------
(* Small instances of InstantExecutor for TLC. *)
EXTENDS InstantExecutor
=============================================================================
