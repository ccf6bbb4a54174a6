------------------------------ MODULE StoreTables ------------------------------
(***************************************************************************)
(* The contents of Control's store (simpit_control/data.py): slaves and    *)
(* registered scripts by id, and whom a script is for.                     *)
(***************************************************************************)
CONSTANTS
    SlaveId, BatId, \* ids of slaves and of registered scripts
    Everyone,       \* target_slaves = None: all slaves
    Absent          \* no entry under an id

Target == {Everyone} \cup SUBSET SlaveId

NoSlaves == [i \in SlaveId |-> Absent]
NoBats   == [b \in BatId |-> Absent]

Fleet(slaves) == {i \in SlaveId : slaves[i] # Absent}

\* The scripts as seen when only the given slaves exist.
Strip(bats, ids) ==
    [b \in BatId |->
        IF bats[b] = Absent \/ bats[b].targets = Everyone THEN bats[b]
        ELSE [bats[b] EXCEPT !.targets = @ \cap ids]]

Table(slaves, bats, hidden) ==
    [slaves |-> slaves, bats |-> Strip(bats, Fleet(slaves)), hidden |-> hidden]

=============================================================================
