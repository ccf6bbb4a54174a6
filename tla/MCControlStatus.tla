--------------------------- MODULE MCControlStatus ---------------------------
(* Constants of ControlStatus for TLC. *)
EXTENDS ControlStatus

CONSTANTS s1, s2

=============================================================================
