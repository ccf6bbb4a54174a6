----------------------------- MODULE MCBackups -----------------------------
(* Backups for TLC. *)
EXTENDS Backups, TLC

\* No host name is another one with a dash and more.
MCExtends == {}

Symmetry == Permutations(Host) \union Permutations(Slot)
=============================================================================
