---------------------------- MODULE MCFleetConfig ----------------------------
(* Constants of FleetConfig for TLC.  One machine, with a drive of its own: *)
(* machines share nothing that one of them writes.                          *)
EXTENDS FleetConfig, TLC

CONSTANTS m1, nas, old

MCDefault == [enabled |-> TRUE, rings |-> 4, poll |-> 1, own |-> "X", dir |-> NoFolder]

MCInstalled == m1 :> [enabled |-> TRUE, own |-> "E", dir |-> nas]

MCTunings == {[enabled |-> TRUE,  rings |-> 6, poll |-> 1],
              [enabled |-> TRUE,  rings |-> 6, poll |-> 2],
              [enabled |-> FALSE, rings |-> 4, poll |-> 1]}

MCOverlays == {[own |-> "F"], [rings |-> 2, enabled |-> TRUE]}

=============================================================================
