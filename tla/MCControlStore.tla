---------------------------- MODULE MCControlStore ----------------------------
(* Constants of ControlStore for TLC. *)
EXTENDS ControlStore, TLC

CONSTANTS i1, i2, b1, b2, n1, n2, h1, h2

Symmetric == Permutations(SlaveId) \cup Permutations(BatId) \cup Permutations(Host) \cup Permutations(Name)

=============================================================================
