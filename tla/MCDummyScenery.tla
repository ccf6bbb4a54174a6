-------------------------- MODULE MCDummyScenery --------------------------
(* DummyScenery for TLC. *)
EXTENDS DummyScenery
=============================================================================
