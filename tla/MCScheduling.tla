---------------------------- MODULE MCScheduling ---------------------------
(* Small instances of Scheduling for TLC. *)
EXTENDS Scheduling

\* Below, within and above every limit of the instances.
MCNumbers == -1 .. 5
=============================================================================
