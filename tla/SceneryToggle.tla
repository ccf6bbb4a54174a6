---------------------------- MODULE SceneryToggle ----------------------------
(***************************************************************************)
(* The Custom Scenery toggle, from the folders on a slave to the button on *)
(* Control's window and back: the scripts disable_custom_scenery and       *)
(* enable_custom_scenery (.bat and .sh), the folder_exists probes of the   *)
(* registry, the poller that asks for them, and the scripts list that      *)
(* shows the half whose probe says "present" and runs it when clicked.     *)
(*                                                                         *)
(* The scripts test and rename three folders, one at a time, and stop at   *)
(* the first failure.  A click starts one in a thread of its own; nothing  *)
(* keeps a second click, or a click on a button that is out of date, from  *)
(* starting another beside it.  tree[s][f] is what the folder f of slave s *)
(* holds, or None when there is no such folder.                            *)
(***************************************************************************)
EXTENDS Naturals, Sequences, FiniteSets

CONSTANTS
    Slave,     \* the slaves
    Slot,      \* bound: runs of the toggle on one slave at a time
    MaxFaults, \* bound on failed renames, killed runs and lost replies
    None       \* no folder; no poll under way; a script for all slaves

ASSUME ToggleConstants ==
    /\ IsFiniteSet(Slave) /\ MaxFaults \in Nat
    /\ None \notin Slave \union {"mine", "baseline", "new"}

VARIABLES
    tree,       \* each slave's folders
    run,        \* where each run of a script stands
    polling,    \* the slave being polled
    got,        \* the results of the probes it has evaluated
    cache,      \* the poller's results for each slave
    reached,    \* the slaves whose last poll was answered, or that had none
    due,        \* is a _refresh_dashboard in the result queue?
    rows,       \* the rows as they were drawn
    live,       \* the slaves whose buttons were drawn enabled
    faults      \* faults so far

scriptVars == <<tree, run>>
pollVars   == <<polling, got, cache, reached, due>>
drawVars   == <<rows, live>>
vars == <<tree, run, polling, got, cache, reached, due,
          rows, live, faults>>

Board == INSTANCE Dashboard

Folder == {"active", "disabled", "default"}

\* The two halves, as seed_registry stores them and Store.batfiles() lists
\* them, by name.
Registry ==
    << [id |-> "disable", script_name |-> 1, pair_with |-> 2, targets |-> None],
       [id |-> "enable",  script_name |-> 2, pair_with |-> 1, targets |-> None] >>

Fault == faults < MaxFaults /\ faults' = faults + 1

-----------------------------------------------------------------------------
(* The scripts.                                                            *)

There(s, f) == tree[s][f] # None

Goto(s, k, step) == run' = [run EXCEPT ![s][k] = step]

At(s, k, step) == run[s][k] = step

Leave == UNCHANGED <<pollVars, drawVars>>

\* A test of the script: go on to one step or to another; changes nothing.
Test(s, k, step, cond, yes, no) ==
    /\ At(s, k, step) /\ Goto(s, k, IF cond THEN yes ELSE no)
    /\ UNCHANGED <<tree, faults>> /\ Leave

Moved(s, f, g) == [tree EXCEPT ![s][f] = None, ![s][g] = tree[s][f]]

\* "ren" refuses to replace a folder.  ("mv" would move the one into the
\* other, which takes two runs that overlap.)
CanMove(s, f, g) == There(s, f) /\ ~There(s, g)

\* A rename: done, and on to the next step, or failed, and the script exits.
Rename(s, k, step, f, g, next) ==
    /\ At(s, k, step)
    /\ \/ CanMove(s, f, g) /\ tree' = Moved(s, f, g) /\ Goto(s, k, next) /\ UNCHANGED faults
       \/ CanMove(s, f, g) /\ Fault /\ Goto(s, k, "idle") /\ UNCHANGED tree
       \/ ~CanMove(s, f, g) /\ Goto(s, k, "idle") /\ UNCHANGED <<tree, faults>>
    /\ Leave

\* The pre-flight checks may refuse: XPLANE_FOLDER is unset, X-Plane runs.
Preflight(s, k) ==
    /\ run[s][k] \in {"d_stashed?", "e_stash?"} /\ Goto(s, k, "idle")
    /\ UNCHANGED <<tree, faults>> /\ Leave

\* Mutant of Disable: makes the new folder beside the kept baseline.
DisableBesideDefault(s, k) ==
    \/ Test(s, k, "d_stashed?", There(s, "disabled"), "idle", "d_active?")
    \/ Test(s, k, "d_active?", There(s, "active"), "d_stash", "idle")
    \/ Rename(s, k, "d_stash", "active", "disabled", "d_make")
    \/ /\ At(s, k, "d_make") /\ ~There(s, "active") /\ Goto(s, k, "idle")
       /\ tree' = [tree EXCEPT ![s]["active"] = "new"] /\ UNCHANGED faults /\ Leave

Disable(s, k) ==
    \/ Test(s, k, "d_stashed?", There(s, "disabled"), "idle", "d_active?")
    \/ Test(s, k, "d_active?", There(s, "active"), "d_stash", "idle")
    \/ Rename(s, k, "d_stash", "active", "disabled", "d_default?")
    \/ Test(s, k, "d_default?", There(s, "default"), "d_swap", "d_make")
    \/ /\ At(s, k, "d_make")
       /\ \/ ~There(s, "default") /\ Goto(s, k, "d_swap") /\ UNCHANGED faults
             /\ tree' = [tree EXCEPT ![s]["default"] = "new"]
          \/ ~There(s, "default") /\ Fault /\ Goto(s, k, "idle") /\ UNCHANGED tree
          \/ There(s, "default") /\ Goto(s, k, "idle") /\ UNCHANGED <<tree, faults>>
       /\ Leave
    \/ Rename(s, k, "d_swap", "default", "active", "idle")

\* Mutant of Enable: parks what is active before it asks what it can restore.
EnableUnasked(s, k) ==
    \/ Test(s, k, "e_stash?", There(s, "active"), "e_default?", "e_restore")
    \/ Test(s, k, "e_default?", There(s, "default"), "idle", "e_park")
    \/ Rename(s, k, "e_park", "active", "default", "e_restore")
    \/ Rename(s, k, "e_restore", "disabled", "active", "idle")

Enable(s, k) ==
    \/ Test(s, k, "e_stash?", There(s, "disabled"), "e_active?", "idle")
    \/ Test(s, k, "e_active?", There(s, "active"), "e_default?", "e_restore")
    \/ Test(s, k, "e_default?", There(s, "default"), "idle", "e_park")
    \/ Rename(s, k, "e_park", "active", "default", "e_restore")
    \/ Rename(s, k, "e_restore", "disabled", "active", "idle")

\* The executor's timeout, the agent or the machine ends a script.
Killed(s, k) ==
    /\ ~At(s, k, "idle") /\ Fault /\ Goto(s, k, "idle")
    /\ UNCHANGED tree /\ Leave

-----------------------------------------------------------------------------
(* Control.                                                                *)

\* The operator clicks the button drawn for s.
Click(s) ==
    /\ s \in live
    /\ \E k \in Slot, b \in Board!Offered(rows, s) :
         /\ At(s, k, "idle")
         /\ Goto(s, k, IF b = "disable" THEN "d_stashed?" ELSE "e_stash?")
    /\ UNCHANGED <<tree, pollVars, drawVars, faults>>

\* The registry's probes: is there a folder "Custom Scenery DISABLED"?
\* The probe of disable_custom_scenery is inverted.
Probe(b, s) == IF There(s, "disabled") = (b = "enable") THEN "present" ELSE "absent"

Poll(s) ==
    /\ polling = None /\ polling' = s /\ got' = [b \in {} |-> ""]
    /\ UNCHANGED <<cache, reached, due, scriptVars, drawVars, faults>>

\* The slave evaluates the probes of a STATUS request one after the other.
Evaluate ==
    /\ polling # None
    /\ \E i \in 1..Len(Registry) :
         /\ DOMAIN got = {Registry[j].id : j \in 1..(i - 1)}
         /\ got' = [b \in DOMAIN got \union {Registry[i].id} |->
                      IF b = Registry[i].id THEN Probe(b, polling) ELSE got[b]]
    /\ UNCHANGED <<polling, cache, reached, due, scriptVars, drawVars, faults>>

\* Mutant of Answer: only a change of state asks for a refresh.
AnswerForStates ==
    /\ polling # None /\ Cardinality(DOMAIN got) = Len(Registry)
    /\ cache' = [cache EXCEPT ![polling] = got]
    /\ reached' = reached \union {polling}
    /\ due' = (due \/ reached' # reached)
    /\ polling' = None /\ UNCHANGED <<got, scriptVars, drawVars, faults>>

\* The reply is stored; only a change of state or of a result asks for a
\* refresh.  (The first poll of a slave changes its state.)
Answer ==
    /\ polling # None /\ Cardinality(DOMAIN got) = Len(Registry)
    /\ cache' = [cache EXCEPT ![polling] = got]
    /\ reached' = reached \union {polling}
    /\ due' = (due \/ cache' # cache \/ reached' # reached)
    /\ polling' = None /\ UNCHANGED <<got, scriptVars, drawVars, faults>>

\* No reply: the slave is OFFLINE; the results of its last reply stay.
Lost ==
    /\ polling # None /\ Fault /\ polling' = None
    /\ reached' = reached \ {polling}
    /\ due' = (due \/ reached' # reached)
    /\ UNCHANGED <<got, cache, scriptVars, drawVars>>

\* _refresh_dashboard: the rows from the cache as it is now.
Refresh ==
    /\ due /\ due' = FALSE
    /\ rows' = Board!Rows(Registry, Slave, cache) /\ live' = reached
    /\ UNCHANGED <<polling, got, cache, reached, scriptVars, faults>>

-----------------------------------------------------------------------------
NoResults == [s \in Slave |-> [b \in {} |-> ""]]

Init ==
    /\ tree \in [Slave -> {[active |-> "mine", disabled |-> None, default |-> d] :
                             d \in {None, "baseline"}}]
    /\ run = [s \in Slave |-> [k \in Slot |-> "idle"]]
    /\ polling = None /\ got = [b \in {} |-> ""]
    /\ cache = NoResults /\ reached = Slave /\ due = FALSE
    /\ rows = Board!Rows(Registry, Slave, NoResults) /\ live = Slave
    /\ faults = 0

Script(s, k) == Preflight(s, k) \/ Disable(s, k) \/ Enable(s, k)

Next ==
    \/ \E s \in Slave, k \in Slot : Script(s, k) \/ Killed(s, k)
    \/ \E s \in Slave : Click(s) \/ Poll(s)
    \/ Evaluate \/ Answer \/ Lost \/ Refresh

\* Scripts run to their end, the poller's loop comes round to every slave,
\* and the drain timer re-arms itself.  Nobody has to click.
Fairness ==
    /\ \A s \in Slave : SF_vars(Poll(s)) /\ \A k \in Slot : WF_vars(Script(s, k))
    /\ WF_vars(Evaluate) /\ WF_vars(Answer) /\ WF_vars(Refresh)

Spec == Init /\ [][Next]_vars /\ Fairness

-----------------------------------------------------------------------------
(* Properties.                                                             *)

Idle(s) == \A k \in Slot : At(s, k, "idle")

\* Would the half that fits the folders of s get past its checks?
Answers(s) ==
    IF There(s, "disabled") THEN ~There(s, "active") \/ ~There(s, "default")
    ELSE There(s, "active")

\* Whatever failed or was killed between two renames, and however out of
\* date the clicked buttons were: the half that fits the folders does not
\* refuse, so that one click, or two, lead out.  (For one run at a time.)
NeverStuck == \A s \in Slave : Idle(s) => Answers(s)

\* The user's scenery is in place or set aside, one of the two: it is never
\* taken for the baseline.  (For one run at a time.)
SceneryKept ==
    \A s \in Slave : \E f \in {"active", "disabled"} :
      \A g \in Folder : tree[s][g] = "mine" <=> g = f

\* Once no script runs any more, the window comes to offer the half that fits
\* the folders and stays with it, however the replies raced the renames.
ButtonSettles ==
    \A s \in Slave :
      <>[]Idle(s) => <>[](/\ s \in live
                          /\ Board!Offered(rows, s) =
                               {IF There(s, "disabled") THEN "enable" ELSE "disable"})
=============================================================================
