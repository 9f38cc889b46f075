--------------------------- MODULE MCCheckpointer ---------------------------
(* Instances of Checkpointer for TLC. *)
EXTENDS Checkpointer, TLC

CONSTANTS j1, j2

=============================================================================
