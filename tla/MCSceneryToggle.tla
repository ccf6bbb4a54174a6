-------------------------- MODULE MCSceneryToggle --------------------------
(* SceneryToggle for TLC. *)
EXTENDS SceneryToggle
=============================================================================
