---------------------------- MODULE MCStreaming ----------------------------
(* Small instances of Streaming for TLC. *)
EXTENDS Streaming, TLC

CONSTANTS v1, v2
=============================================================================
