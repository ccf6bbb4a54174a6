----------------------------- MODULE StorePromise -----------------------------
(***************************************************************************)
(* What Control's store promises its operator: every operation on slaves   *)
(* and scripts is kept as a whole or not at all when Control stops, and    *)
(* what a script is meant for never names a slave that is not there.       *)
(*                                                                         *)
(* A table is a record of the slaves (details by id), the scripts (a name  *)
(* and whom it is for, by id) and the names that are not to be seeded      *)
(* again.  `live` is what the operator sees, `kept` what a restart would   *)
(* bring back.  Once the disk has refused a write or could not be read,    *)
(* the two may differ until a later save succeeds: `lag`.                  *)
(***************************************************************************)
EXTENDS StoreTables

CONSTANTS
    Detail, \* what is known of one slave
    Script  \* script names

VARIABLES live, kept, lag

vars == <<live, kept, lag>>

Bat == [script : Script, targets : Target]

Tables == [slaves : [SlaveId -> Detail \cup {Absent}],
           bats : [BatId -> Bat \cup {Absent}], hidden : SUBSET Script]

-----------------------------------------------------------------------------
(* The operator's operations, on what he sees.                             *)

Enrol(i, d) ==
    live' = Table([live.slaves EXCEPT ![i] = d], live.bats, live.hidden)

Dismiss(i) ==
    live' = Table([live.slaves EXCEPT ![i] = Absent], live.bats, live.hidden)

Register(b, r) ==
    live' = Table(live.slaves, [live.bats EXCEPT ![b] = r], live.hidden)

Discard(b, names) ==
    live' = Table(live.slaves, [live.bats EXCEPT ![b] = Absent],
                  live.hidden \cup names)

\* One operation at a time: the one before is kept, or was refused.
Operation ==
    /\ lag \/ kept = live
    /\ \/ \E i \in SlaveId : Dismiss(i) \/ \E d \in Detail : Enrol(i, d)
       \/ \E b \in BatId :
            \/ \E r \in Bat : Register(b, r)
            \/ \E names \in SUBSET Script : Discard(b, names)
    /\ UNCHANGED <<kept, lag>>

-----------------------------------------------------------------------------
(* The disk.                                                               *)

Keep == kept' = live /\ lag' = FALSE /\ UNCHANGED live

Refuse == lag' = TRUE /\ UNCHANGED <<live, kept>>

\* After a refusal the slaves may be kept before the scripts are.
KeepSlaves ==
    /\ lag
    /\ kept' = Table(live.slaves, kept.bats, kept.hidden)
    /\ UNCHANGED <<live, lag>>

Reopen == live' = kept /\ lag' = FALSE /\ UNCHANGED kept

\* Reopened while a file could not be read.
ReopenBlind ==
    /\ \/ live' = Table(NoSlaves, kept.bats, kept.hidden)
       \/ live' = Table(kept.slaves, NoBats, {})
       \/ live' = Table(NoSlaves, NoBats, {})
    /\ lag' = TRUE
    /\ UNCHANGED kept

Init ==
    /\ live = Table(NoSlaves, NoBats, {}) /\ kept = live /\ lag = FALSE

Next == Operation \/ Keep \/ Refuse \/ KeepSlaves \/ Reopen \/ ReopenBlind

Spec == Init /\ [][Next]_vars

=============================================================================
