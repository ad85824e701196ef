----------------------------- MODULE MCCliTurns -----------------------------
(* Instances of CliTurns for TLC. *)
EXTENDS CliTurns

CONSTANTS x1, x2, y1
=============================================================================
