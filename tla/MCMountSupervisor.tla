-------------------------- MODULE MCMountSupervisor --------------------------
(* Constants of MountSupervisor for TLC. *)
EXTENDS MountSupervisor, TLC

CONSTANTS r1, r2, r3, r4

=============================================================================
