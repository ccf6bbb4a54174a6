------------------------------ MODULE Dashboard ------------------------------
(***************************************************************************)
(* What the scripts list of the main window offers                         *)
(* (simpit_control/ui/viewmodels.py, DashboardVM.build and                 *)
(* BatFileRowVM.build), as a function of the registered scripts, the       *)
(* slaves and the probe results the poller has of them.                    *)
(*                                                                         *)
(* A script is a record [id, script_name, pair_with, targets];         *)
(* bats is the sequence of them, in the order of the store.  Of a          *)
(* script's name only its place in the alphabet matters: it is a number,   *)
(* and pair_with is the number of the inverse script, or None.  targets is *)
(* a set of slave ids or None.  results[s] maps the ids of the scripts     *)
(* that were probed on s to the values that came back.                     *)
(***************************************************************************)
EXTENDS Naturals, Sequences, FiniteSets

CONSTANT None

Result(results, s, id) ==
    IF id \in DOMAIN results[s] THEN results[s][id] ELSE ""

\* On how many slaves is the script's own action available?
Availability(b, slaves, results) ==
    Cardinality({s \in slaves : Result(results, s, b.id) = "present"})

Entries(bats) == {bats[n] : n \in 1..Len(bats)}

\* The script pair_with names, if there is one and it is another one.
OtherHalf(b, bats) == {o \in Entries(bats) : o.script_name = b.pair_with /\ o.id # b.id}

\* Does o, the inverse of b, head the row of the two?
Leads(o, b, slaves, results) ==
    LET there == Availability(o, slaves, results)
        here  == Availability(b, slaves, results)
    IN  there > here \/ (there = here /\ o.script_name > b.script_name)

\* One turn of the loop that folds pairs: skip are the ids that get no row,
\* partner maps ids to the other half of their row, or to None.
Fold(acc, b, bats, slaves, results) ==
    LET Pair(first, second) ==
            [skip    |-> acc.skip \union {second.id},
             partner |-> [i \in DOMAIN acc.partner \union {first.id} |->
                            IF i = first.id THEN second.id ELSE acc.partner[i]]]
        other == CHOOSE o \in OtherHalf(b, bats) : TRUE
    IN  IF b.id \in acc.skip THEN acc
        ELSE IF OtherHalf(b, bats) = {}
          THEN [acc EXCEPT !.partner =
                  [i \in DOMAIN acc.partner \union {b.id} |->
                     IF i = b.id THEN None ELSE acc.partner[i]]]
        ELSE IF Leads(other, b, slaves, results) THEN Pair(other, b)
        ELSE Pair(b, other)

Folded(bats, slaves, results) ==
    LET f[n \in 0..Len(bats)] ==
            IF n = 0 THEN [skip |-> {}, partner |-> [i \in {} |-> None]]
            ELSE Fold(f[n - 1], bats[n], bats, slaves, results)
    IN  f[Len(bats)]

Targeted(b, slaves) == IF b.targets = None THEN slaves ELSE b.targets \intersect slaves

\* Which script the button of slave s runs in the row of b and its partner.
Dispatch(b, partner, s, results) ==
    IF /\ partner # None
       /\ Result(results, s, b.id) # "present"
       /\ Result(results, s, partner) = "present"
    THEN partner ELSE b.id

\* The rows: for the id of each script that heads one, what its buttons run.
Rows(bats, slaves, results) ==
    LET folded == Folded(bats, slaves, results)
        heads  == {b \in Entries(bats) : b.id \notin folded.skip}
        Lead(i) == CHOOSE b \in heads : b.id = i
    IN  [i \in {b.id : b \in heads} |->
           [s \in Targeted(Lead(i), slaves) |->
              Dispatch(Lead(i), folded.partner[i], s, results)]]

\* The scripts the window offers to run on s.
Offered(rows, s) == {rows[i][s] : i \in {j \in DOMAIN rows : s \in DOMAIN rows[j]}}
=============================================================================
