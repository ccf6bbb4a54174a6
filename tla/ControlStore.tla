----------------------------- MODULE ControlStore -----------------------------
(***************************************************************************)
(* Control's store of slaves and scripts and everything that writes it:    *)
(* seeding (registry.py), the operator's dialogs (ui/dialogs), deletion,   *)
(* and slaves that announce themselves (poller.py, ui/app.py).             *)
(*                                                                         *)
(* The store lives in memory (`slaves`, `bats`, `hidden`) and is saved     *)
(* after every change into two files, slaves.json and batfiles.json, each  *)
(* replaced as a whole.  Control may stop between any two steps; a write   *)
(* may fail; a file may be unreadable while Control starts.                *)
(*                                                                         *)
(* A script is its script_name and whom it is pushed to; a slave is its    *)
(* name and host, and whether it registered itself and was not edited      *)
(* since.                                                                  *)
(***************************************************************************)
EXTENDS StoreTables, Naturals, Sequences, FiniteSets

CONSTANTS
    Name, Host,     \* slave names (as compared: in lower case), addresses
    Registry,       \* the script names of registry.REGISTRY
    OwnScript,      \* names of scripts the operator writes
    Nobody,         \* no announcement is being asked about
    MaxQueue,       \* bound on the announcements that wait
    MaxFaults       \* bound on failed writes and unreadable files

Script       == Registry \cup OwnScript
Announcement == [name : Name, host : Host]
Detail       == [name : Name, host : Host, auto : BOOLEAN]
Bat          == [script : Script, targets : Target]

ASSUME StoreConstants ==
    /\ \A T \in SUBSET SlaveId : T # Everyone
    /\ Absent \notin Detail /\ Absent \notin Bat /\ Nobody \notin Announcement
    /\ MaxQueue \in Nat /\ MaxFaults \in Nat

VARIABLES
    slaves,     \* Store._slaves
    bats,       \* Store._batfiles
    hidden,     \* Store._suppressed
    slavesFile, \* slaves.json
    batsFile,   \* batfiles.json: scripts and suppressed names
    phase,      \* Control: "down", "seed" (registry.py), "app"
    saving,     \* the file the save under way has to write, or "no"
    queue,      \* announcements in the main thread's result queue
    asking,     \* the announcement the operator is asked about, or Nobody
    behind,     \* history: memory may differ from the files
    gone,       \* history: registry scripts the operator removed for good
    faults      \* failed writes and unreadable files so far

fileVars == <<slavesFile, batsFile>>
memVars  == <<slaves, bats, hidden>>
vars == <<slaves, bats, hidden, slavesFile, batsFile, phase, saving,
          queue, asking, behind, gone, faults>>

Known(a) ==
    \E i \in SlaveId : /\ slaves[i] # Absent
                       /\ slaves[i].host = a.host \/ slaves[i].name = a.name

Names == {bats[b].script : b \in {c \in BatId : bats[c] # Absent}}

\* _new_id: 32 random bits, which nothing else goes by.
Fresh(i) ==
    /\ slaves[i] = Absent /\ slavesFile[i] = Absent
    /\ \A b \in BatId :
         /\ bats[b] # Absent /\ bats[b].targets # Everyone
                => i \notin bats[b].targets
         /\ batsFile.bats[b] # Absent /\ batsFile.bats[b].targets # Everyone
                => i \notin batsFile.bats[b].targets

Fault == faults < MaxFaults /\ faults' = faults + 1

\* Main-thread code that runs to its end before anything else of it does.
Free(p) == phase = p /\ saving = "no"

-----------------------------------------------------------------------------
(* Load and save (data.py).                                                *)

\* Store.load: a file that cannot be read is an empty one.
Load ==
    \/ /\ slaves' = slavesFile
       /\ bats' = batsFile.bats /\ hidden' = batsFile.hidden
       /\ behind' = FALSE /\ UNCHANGED <<gone, faults>>
    \/ /\ Fault /\ behind' = TRUE
       /\ slaves' = NoSlaves
       /\ bats' = batsFile.bats /\ hidden' = batsFile.hidden
       /\ UNCHANGED gone
    \/ /\ Fault /\ behind' = TRUE
       /\ slaves' \in {slavesFile, NoSlaves}
       /\ bats' = NoBats /\ hidden' = {}
       /\ gone' = [n \in Registry |-> "no"]

\* Every change is followed by a save.
Saves == saving' = "slaves" /\ UNCHANGED fileVars

\* Mutant: the files are written in the other order.
SaveBatsFirst ==
    /\ saving = "slaves" /\ saving' = "bats"
    /\ batsFile' = [bats |-> bats, hidden |-> hidden]
    /\ UNCHANGED <<memVars, slavesFile, phase, queue, asking, behind,
                   gone, faults>>

SaveSlaves ==
    /\ saving = "slaves" /\ saving' = "bats"
    /\ slavesFile' = slaves
    /\ UNCHANGED <<memVars, batsFile, phase, queue, asking, behind,
                   gone, faults>>

\* The deletions are on disk now.
Settle ==
    gone' = [n \in Registry |-> IF gone[n] = "leaving" THEN "gone"
                                ELSE gone[n]]

SaveBats ==
    /\ saving = "bats" /\ saving' = "no"
    /\ batsFile' = [bats |-> bats, hidden |-> hidden]
    /\ behind' = FALSE /\ Settle
    /\ UNCHANGED <<memVars, slavesFile, phase, queue, asking, faults>>

\* _write_json raises.  In the window the exception is reported and the
\* change stays in memory; while seeding it ends the program.
SaveFails ==
    /\ saving # "no" /\ saving' = "no" /\ Fault
    /\ \/ /\ phase = "app" /\ behind' = TRUE
          /\ UNCHANGED <<memVars, phase, gone>>
       \/ /\ phase = "seed" /\ phase' = "down" /\ behind' = FALSE
          /\ slaves' = NoSlaves /\ bats' = NoBats /\ hidden' = {}
          /\ UNCHANGED gone
    /\ UNCHANGED <<fileVars, queue, asking>>

-----------------------------------------------------------------------------
(* Start, seeding, stop.                                                   *)

Start ==
    /\ phase = "down" /\ phase' = "seed" /\ Load
    /\ UNCHANGED <<fileVars, saving, queue, asking>>

Missing == Registry \ (Names \cup hidden)

\* seed_registry adds and saves one missing script after the other.
Seed ==
    /\ Free("seed")
    /\ \E n \in Missing, b \in BatId :
         /\ bats[b] = Absent
         /\ bats' = [bats EXCEPT ![b] = [script |-> n, targets |-> Everyone]]
    /\ Saves
    /\ UNCHANGED <<slaves, hidden, phase, queue, asking, behind, gone,
                   faults>>

\* The window opens with a Store of its own.
OpenWindow ==
    /\ Free("seed") /\ Missing = {} /\ phase' = "app" /\ Load
    /\ UNCHANGED <<fileVars, saving, queue, asking>>

\* Closed, killed or out of power, at any moment.  A deletion that had not
\* reached the disk is undone.
Stop ==
    /\ phase # "down" /\ phase' = "down" /\ saving' = "no"
    /\ slaves' = NoSlaves /\ bats' = NoBats /\ hidden' = {}
    /\ queue' = <<>> /\ asking' = Nobody /\ behind' = FALSE
    /\ gone' = [n \in Registry |-> IF gone[n] = "leaving" THEN "no"
                                   ELSE gone[n]]
    /\ UNCHANGED <<fileVars, faults>>

-----------------------------------------------------------------------------
(* Announcements.                                                          *)

\* The listener thread drops an announcement of a slave it finds in the
\* store, and queues any other.
Announce(a) ==
    /\ phase = "app" /\ ~Known(a) /\ Len(queue) < MaxQueue
    /\ queue' = Append(queue, a)
    /\ UNCHANGED <<memVars, fileVars, phase, saving, asking, behind,
                   gone, faults>>

\* Mutant: only the listener thread looks the announcer up.
AskUnchecked ==
    /\ Free("app") /\ asking = Nobody /\ queue # <<>>
    /\ queue' = Tail(queue) /\ asking' = Head(queue)
    /\ UNCHANGED <<memVars, fileVars, phase, saving, behind, gone,
                   faults>>

\* _do_add looks again, and asks.
Ask ==
    /\ Free("app") /\ asking = Nobody /\ queue # <<>>
    /\ queue' = Tail(queue)
    /\ asking' = IF Known(Head(queue)) THEN Nobody ELSE Head(queue)
    /\ UNCHANGED <<memVars, fileVars, phase, saving, behind, gone,
                   faults>>

PutSlave(i, d) ==
    /\ slaves' = [slaves EXCEPT ![i] = d]
    /\ Saves
    /\ UNCHANGED <<bats, hidden, phase, queue, behind, gone, faults>>

Accept(i) ==
    /\ Free("app") /\ asking # Nobody /\ asking' = Nobody
    /\ Fresh(i)
    /\ PutSlave(i, [name |-> asking.name, host |-> asking.host, auto |-> TRUE])

Decline ==
    /\ Free("app") /\ asking # Nobody /\ asking' = Nobody
    /\ UNCHANGED <<memVars, fileVars, phase, saving, queue, behind,
                   gone, faults>>

-----------------------------------------------------------------------------
(* The operator.  The dialogs' forms may have been open before a question  *)
(* came up, and be saved under it; the window's own buttons are blocked.   *)

AddSlave(i) ==
    /\ Free("app") /\ Fresh(i) /\ UNCHANGED asking
    /\ \E n \in Name, h \in Host :
         PutSlave(i, [name |-> n, host |-> h, auto |-> FALSE])

UpdateSlave(i) ==
    /\ Free("app") /\ slaves[i] # Absent /\ UNCHANGED asking
    /\ \E n \in Name, h \in Host :
         PutSlave(i, [name |-> n, host |-> h, auto |-> FALSE])

\* Target lists lose the slave as well.
DeleteSlave(i) ==
    /\ Free("app") /\ asking = Nobody /\ slaves[i] # Absent
    /\ slaves' = [slaves EXCEPT ![i] = Absent]
    /\ bats' = [b \in BatId |->
                  IF bats[b] = Absent \/ bats[b].targets = Everyone THEN bats[b]
                  ELSE [bats[b] EXCEPT !.targets = @ \ {i}]]
    /\ Saves
    /\ UNCHANGED <<hidden, phase, queue, asking, behind, gone, faults>>

\* What the dialog's boxes can say: all slaves, or some of those there are,
\* but no empty list.
Chosen == {Everyone} \cup (SUBSET {i \in SlaveId : slaves[i] # Absent} \ {{}})

\* A script of this name is in the store again by the operator's will.
Readmit(n) == gone' = [m \in Registry |-> IF m = n THEN "no" ELSE gone[m]]

PutBat(b) ==
    /\ Free("app")
    /\ \E n \in Script, T \in Chosen :
         /\ bats' = [bats EXCEPT ![b] = [script |-> n, targets |-> T]]
         /\ Readmit(n)
    /\ Saves
    /\ UNCHANGED <<slaves, hidden, phase, queue, asking, behind, faults>>

AddBatfile(b)    == bats[b] = Absent /\ PutBat(b)
UpdateBatfile(b) == bats[b] # Absent /\ PutBat(b)

\* The last script of its name, if the registry has it, is on its way out.
Leave(b) ==
    gone' = [n \in Registry |->
               IF /\ n = bats[b].script
                  /\ \A c \in BatId \ {b} :
                        bats[c] # Absent => bats[c].script # n
               THEN "leaving" ELSE gone[n]]

\* Mutant: a script of the registry is deleted like any other.
DeleteUnsuppressed(b) ==
    /\ Free("app") /\ asking = Nobody /\ bats[b] # Absent
    /\ bats' = [bats EXCEPT ![b] = Absent] /\ UNCHANGED hidden
    /\ Leave(b) /\ Saves
    /\ UNCHANGED <<slaves, phase, queue, asking, behind, faults>>

\* A script of the registry is suppressed, so that it is not seeded again.
DeleteBatfile(b) ==
    /\ Free("app") /\ asking = Nobody /\ bats[b] # Absent
    /\ bats' = [bats EXCEPT ![b] = Absent]
    /\ hidden' = hidden \cup ({bats[b].script} \cap Registry)
    /\ Leave(b) /\ Saves
    /\ UNCHANGED <<slaves, phase, queue, asking, behind, faults>>

-----------------------------------------------------------------------------
Init ==
    /\ slaves = NoSlaves /\ bats = NoBats /\ hidden = {}
    /\ slavesFile = NoSlaves /\ batsFile = [bats |-> NoBats, hidden |-> {}]
    /\ phase = "down" /\ saving = "no"
    /\ queue = <<>> /\ asking = Nobody
    /\ behind = FALSE /\ gone = [n \in Registry |-> "no"] /\ faults = 0

Disk == SaveSlaves \/ SaveBats \/ SaveFails

Run == Start \/ Seed \/ OpenWindow \/ Stop

Operator ==
    \/ Ask \/ Decline
    \/ \E i \in SlaveId :
         Accept(i) \/ AddSlave(i) \/ UpdateSlave(i) \/ DeleteSlave(i)
    \/ \E b \in BatId : AddBatfile(b) \/ UpdateBatfile(b) \/ DeleteBatfile(b)

Next == Disk \/ Run \/ Operator \/ \E a \in Announcement : Announce(a)

Spec == Init /\ [][Next]_vars

-----------------------------------------------------------------------------
(* Properties.                                                             *)

Bats == [BatId -> Bat \cup {Absent}]

TypeOK ==
    /\ slaves \in [SlaveId -> Detail \cup {Absent}] /\ bats \in Bats
    /\ hidden \subseteq Script
    /\ slavesFile \in [SlaveId -> Detail \cup {Absent}]
    /\ batsFile \in [bats : Bats, hidden : SUBSET Script]
    /\ phase \in {"down", "seed", "app"}
    /\ saving \in {"no", "slaves", "bats"} /\ (phase = "down" => saving = "no")
    /\ queue \in Seq(Announcement) /\ asking \in Announcement \cup {Nobody}
    /\ behind \in BOOLEAN /\ gone \in [Registry -> {"no", "leaving", "gone"}]
    /\ faults \in Nat

\* A slave that announces itself again and again, while the operator has yet
\* to answer, while other announcements wait or across restarts, ends up in
\* the store once: no two slaves that registered themselves share a name or
\* an address.
RegisteredOnce ==
    \A i, j \in SlaveId :
        /\ i # j /\ slaves[i] # Absent /\ slaves[j] # Absent
        /\ slaves[i].auto /\ slaves[j].auto
        => slaves[i].name # slaves[j].name /\ slaves[i].host # slaves[j].host

\* "Scripts the user has explicitly deleted ... are permanently skipped": a
\* standard script whose deletion reached the disk stays out of the store,
\* whatever is edited, fails or restarts, until the operator brings a script
\* of its name back or batfiles.json cannot be read.
RemovedStaysGone == \A n \in Registry : gone[n] = "gone" => n \notin Names

\* What the operator sees, and what a restart would bring back.
Kept == Table(slavesFile, batsFile.bats, batsFile.hidden)
Live == IF phase = "down" THEN Kept ELSE Table(slaves, bats, hidden)

Promise == INSTANCE StorePromise WITH
    live <- Live, kept <- Kept, lag <- behind

\* The two files are as good as one: under the promise's view of a script,
\* which looks only at slaves that exist, each operation takes effect on disk
\* at one of the two replacements, and what a restart finds is the state
\* after some operation, not a mixture.
PromiseSpec == Promise!Spec

=============================================================================
