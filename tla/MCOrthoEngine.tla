---------------------------- MODULE MCOrthoEngine ----------------------------
(* Constants of OrthoEngine for TLC: two overlapping keep sets. *)
EXTENDS OrthoEngine

CONSTANTS a1, a2, a3, a4

MCKeeps    == {<<a1, a2, a3>>, <<a3, a4>>}
MCPosition == {"west", "east"}
MCSlow     == {"west"}
MCConfig   == {[enabled |-> TRUE, endpoint |-> "here", tuning |-> "narrow"],
               [enabled |-> FALSE, endpoint |-> "here", tuning |-> "narrow"],
               [enabled |-> TRUE, endpoint |-> "there", tuning |-> "narrow"]}
MCKeepAt   == [p \in MCPosition |-> [t \in {"narrow"} |->
                 IF p = "west" THEN <<a1, a2, a3>> ELSE <<a3, a4>>]]

=============================================================================
