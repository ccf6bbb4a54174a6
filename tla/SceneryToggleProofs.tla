------------------------- MODULE SceneryToggleProofs -------------------------
(***************************************************************************)
(* What is proved of SceneryToggle, for any number of slaves and faults,   *)
(* when no two runs overlap on one slave: the user's scenery is always in  *)
(* place or set aside, and once nothing runs the half that fits the        *)
(* folders gets past its checks.                                           *)
(*                                                                         *)
(* Neither is inductive.  A run may be killed at any step, so that what    *)
(* holds when nothing runs must hold at every step ("Sound"); and what a   *)
(* script has found out so far must still hold when it acts on it          *)
(* ("Found").                                                              *)
(***************************************************************************)
EXTENDS SceneryToggle, TLAPS

-----------------------------------------------------------------------------
(* The invariant.                                                          *)

Step == {"idle", "d_stashed?", "d_active?", "d_stash", "d_default?", "d_make", "d_swap",
         "e_stash?", "e_active?", "e_default?", "e_park", "e_restore"}

Typed ==
    /\ tree \in [Slave -> [Folder -> {None, "mine", "baseline", "new"}]]
    /\ run \in [Slave -> [Slot -> Step]]

\* The user's scenery is active and nothing is set aside ...
InPlace(s) ==
    /\ tree[s]["active"] = "mine" /\ tree[s]["disabled"] = None
    /\ tree[s]["default"] # "mine"

\* ... or it is set aside, and there is room to put it back.
SetAside(s) ==
    /\ tree[s]["disabled"] = "mine"
    /\ tree[s]["active"] # "mine" /\ tree[s]["default"] # "mine"
    /\ tree[s]["active"] = None \/ tree[s]["default"] = None

Sound(s) == InPlace(s) \/ SetAside(s)

\* What a run has found out.
Found(s, k) ==
    /\ run[s][k] \in {"d_active?", "d_stash"} => tree[s]["disabled"] = None
    /\ run[s][k] \in {"d_default?", "d_make", "d_swap"} =>
         tree[s]["disabled"] # None /\ tree[s]["active"] = None
    /\ run[s][k] \in {"e_active?", "e_default?", "e_park", "e_restore"} =>
         tree[s]["disabled"] # None

\* No two runs overlap.
OneSlot == \A j, k \in Slot : j = k

ToggleInv == Typed /\ \A s \in Slave : Sound(s) /\ \A k \in Slot : Found(s, k)

-----------------------------------------------------------------------------
(* What the steps of the scripts do to the folders and to the runs.        *)

\* A rename moves what one folder holds to another name, on one slave.
LEMMA MovedIs ==
    ASSUME Typed, NEW s \in Slave, NEW f \in Folder, NEW g \in Folder, f # g,
           tree' = Moved(s, f, g)
    PROVE  /\ tree' \in [Slave -> [Folder -> {None, "mine", "baseline", "new"}]]
           /\ tree'[s][f] = None /\ tree'[s][g] = tree[s][f]
           /\ \A h \in Folder \ {f, g} : tree'[s][h] = tree[s][h]
           /\ \A t \in Slave \ {s} : tree'[t] = tree[t]
  BY DEF Typed, Moved

\* A folder is made, on one slave.
LEMMA MadeIs ==
    ASSUME Typed, NEW s \in Slave, NEW f \in Folder, tree' = [tree EXCEPT ![s][f] = "new"]
    PROVE  /\ tree' \in [Slave -> [Folder -> {None, "mine", "baseline", "new"}]]
           /\ tree'[s][f] = "new"
           /\ \A h \in Folder \ {f} : tree'[s][h] = tree[s][h]
           /\ \A t \in Slave \ {s} : tree'[t] = tree[t]
  BY DEF Typed

\* One run goes on to a step; the others stay where they are.
LEMMA GotoIs ==
    ASSUME Typed, NEW s \in Slave, NEW k \in Slot, NEW step \in Step, Goto(s, k, step)
    PROVE  /\ run' \in [Slave -> [Slot -> Step]]
           /\ run'[s][k] = step
           /\ \A t \in Slave \ {s} : run'[t] = run[t]
  BY DEF Typed, Goto

\* What one slave's run must show for the invariant: the slave stays sound,
\* and the run knows what it is at.
LEMMA OneRun ==
    ASSUME OneSlot, ToggleInv, NEW s \in Slave, NEW k \in Slot, NEW step \in Step,
           Goto(s, k, step),
           tree' \in [Slave -> [Folder -> {None, "mine", "baseline", "new"}]],
           \A t \in Slave \ {s} : tree'[t] = tree[t],
           Sound(s)', Found(s, k)'
    PROVE  ToggleInv'
  <1>1. Typed' /\ \A t \in Slave \ {s} : run'[t] = run[t]
    BY GotoIs DEF ToggleInv, Typed
  <1>2. ASSUME NEW t \in Slave PROVE Sound(t)'
    <2>1. CASE t = s
      BY <2>1
    <2>2. CASE t # s
      BY <2>2 DEF ToggleInv, Sound, InPlace, SetAside
    <2> QED
      BY <2>1, <2>2
  <1>3. ASSUME NEW t \in Slave, NEW j \in Slot PROVE Found(t, j)'
    <2>1. CASE t = s
      BY <2>1 DEF OneSlot
    <2>2. CASE t # s
      BY <1>1, <2>2 DEF ToggleInv, Found
    <2> QED
      BY <2>1, <2>2
  <1> QED
    BY <1>1, <1>2, <1>3 DEF ToggleInv

\* A step that leaves the folders alone: the run has only to know what the
\* step it goes to needs.
LEMMA JustGoes ==
    ASSUME OneSlot, ToggleInv, NEW s \in Slave, NEW k \in Slot, NEW step \in Step,
           Goto(s, k, step), UNCHANGED tree,
           Found(s, k)'
    PROVE  ToggleInv'
  <1>1. /\ tree' \in [Slave -> [Folder -> {None, "mine", "baseline", "new"}]]
        /\ \A t \in Slave \ {s} : tree'[t] = tree[t]
    BY DEF ToggleInv, Typed
  <1>2. Sound(s)'
    BY DEF ToggleInv, Sound, InPlace, SetAside
  <1> QED
    BY <1>1, <1>2, OneRun

\* A script that exits, for whatever reason.
LEMMA Exits ==
    ASSUME OneSlot, ToggleInv, NEW s \in Slave, NEW k \in Slot,
           Goto(s, k, "idle"), UNCHANGED tree
    PROVE  ToggleInv'
  <1>1. "idle" \in Step
    BY DEF Step
  <1>2. run'[s][k] = "idle"
    BY <1>1, GotoIs DEF ToggleInv
  <1>3. Found(s, k)'
    BY <1>2 DEF Found
  <1> QED
    BY <1>1, <1>3, JustGoes

-----------------------------------------------------------------------------
(* The scripts keep the invariant.                                         *)

LEMMA DisableKeeps ==
    ASSUME OneSlot, ToggleInv, NEW s \in Slave, NEW k \in Slot, Disable(s, k)
    PROVE  ToggleInv'
  <1> USE DEF Test, Rename, At
  <1>0. Typed /\ Sound(s) /\ Found(s, k) /\ None # "mine"
    BY ToggleConstants DEF ToggleInv
  <1>1. CASE Test(s, k, "d_stashed?", There(s, "disabled"), "idle", "d_active?")
    <2>1. CASE There(s, "disabled")
      BY <1>1, <2>1, Exits
    <2>2. CASE ~There(s, "disabled")
      <3>1. Goto(s, k, "d_active?") /\ UNCHANGED tree /\ "d_active?" \in Step
        BY <1>1, <2>2 DEF Step
      <3>2. run'[s][k] = "d_active?"
        BY <1>0, <3>1, GotoIs
      <3>3. Found(s, k)'
        BY <2>2, <3>1, <3>2 DEF Found, There
      <3> QED
        BY <3>1, <3>3, JustGoes
    <2> QED
      BY <2>1, <2>2
  <1>2. CASE Test(s, k, "d_active?", There(s, "active"), "d_stash", "idle")
    <2>1. CASE There(s, "active")
      <3>1. Goto(s, k, "d_stash") /\ UNCHANGED tree /\ "d_stash" \in Step
        BY <1>2, <2>1 DEF Step
      <3>2. run'[s][k] = "d_stash"
        BY <1>0, <3>1, GotoIs
      <3>3. Found(s, k)'
        BY <1>0, <1>2, <3>1, <3>2 DEF Found
      <3> QED
        BY <3>1, <3>3, JustGoes
    <2>2. CASE ~There(s, "active")
      BY <1>2, <2>2, Exits
    <2> QED
      BY <2>1, <2>2
  <1>3. CASE Rename(s, k, "d_stash", "active", "disabled", "d_default?")
    <2>1. CASE tree' = Moved(s, "active", "disabled") /\ Goto(s, k, "d_default?")
      <3>1. tree[s]["disabled"] = None
        BY <1>0, <1>3 DEF Found
      <3>2. "d_default?" \in Step /\ "active" \in Folder /\ "disabled" \in Folder
            /\ "default" \in Folder \ {"active", "disabled"}
        BY DEF Step, Folder
      <3>3. /\ tree' \in [Slave -> [Folder -> {None, "mine", "baseline", "new"}]]
            /\ tree'[s]["active"] = None /\ tree'[s]["disabled"] = tree[s]["active"]
            /\ tree'[s]["default"] = tree[s]["default"]
            /\ \A t \in Slave \ {s} : tree'[t] = tree[t]
        BY <1>0, <2>1, <3>2, MovedIs
      <3>4. run'[s][k] = "d_default?"
        BY <1>0, <2>1, <3>2, GotoIs
      <3>5. Sound(s)' /\ Found(s, k)'
        BY <1>0, <3>1, <3>3, <3>4 DEF Sound, InPlace, SetAside, Found
      <3> QED
        BY <2>1, <3>2, <3>3, <3>5, OneRun
    <2>2. CASE Goto(s, k, "idle") /\ UNCHANGED tree
      BY <2>2, Exits
    <2> QED
      BY <1>3, <2>1, <2>2
  <1>4. CASE Test(s, k, "d_default?", There(s, "default"), "d_swap", "d_make")
    <2>1. PICK step \in {"d_swap", "d_make"} : Goto(s, k, step) /\ UNCHANGED tree
      BY <1>4
    <2>2. step \in Step
      BY DEF Step
    <2>3. run'[s][k] = step
      BY <1>0, <2>1, <2>2, GotoIs
    <2>4. Found(s, k)'
      BY <1>0, <1>4, <2>1, <2>3 DEF Found
    <2> QED
      BY <2>1, <2>2, <2>4, JustGoes
  <1>5. CASE /\ At(s, k, "d_make") /\ ~There(s, "default") /\ Goto(s, k, "d_swap")
             /\ tree' = [tree EXCEPT ![s]["default"] = "new"]
    <2>1. /\ "d_swap" \in Step /\ "default" \in Folder
          /\ {"active", "disabled"} \subseteq Folder \ {"default"}
      BY DEF Step, Folder
    <2>2. /\ tree' \in [Slave -> [Folder -> {None, "mine", "baseline", "new"}]]
          /\ tree'[s]["default"] = "new"
          /\ tree'[s]["active"] = tree[s]["active"]
          /\ tree'[s]["disabled"] = tree[s]["disabled"]
          /\ \A t \in Slave \ {s} : tree'[t] = tree[t]
      BY <1>0, <1>5, <2>1, MadeIs
    <2>3. run'[s][k] = "d_swap"
      BY <1>0, <1>5, <2>1, GotoIs
    <2>4. Sound(s)' /\ Found(s, k)'
      BY <1>0, <1>5, <2>2, <2>3 DEF Sound, InPlace, SetAside, Found
    <2> QED
      BY <1>5, <2>1, <2>2, <2>4, OneRun
  <1>6. CASE Goto(s, k, "idle") /\ UNCHANGED tree
    BY <1>6, Exits
  <1>7. CASE Rename(s, k, "d_swap", "default", "active", "idle")
    <2>1. CASE tree' = Moved(s, "default", "active") /\ Goto(s, k, "idle")
      <3>1. tree[s]["disabled"] # None
        BY <1>0, <1>7 DEF Found
      <3>2. "idle" \in Step /\ "active" \in Folder /\ "default" \in Folder
            /\ "disabled" \in Folder \ {"default", "active"}
        BY DEF Step, Folder
      <3>3. /\ tree' \in [Slave -> [Folder -> {None, "mine", "baseline", "new"}]]
            /\ tree'[s]["default"] = None /\ tree'[s]["active"] = tree[s]["default"]
            /\ tree'[s]["disabled"] = tree[s]["disabled"]
            /\ \A t \in Slave \ {s} : tree'[t] = tree[t]
        BY <1>0, <2>1, <3>2, MovedIs
      <3>4. run'[s][k] = "idle"
        BY <1>0, <2>1, <3>2, GotoIs
      <3>5. Sound(s)' /\ Found(s, k)'
        BY <1>0, <3>1, <3>3, <3>4 DEF Sound, InPlace, SetAside, Found
      <3> QED
        BY <2>1, <3>2, <3>3, <3>5, OneRun
    <2>2. CASE Goto(s, k, "idle") /\ UNCHANGED tree
      BY <2>2, Exits
    <2> QED
      BY <1>7, <2>1, <2>2
  <1> QED
    BY <1>1, <1>2, <1>3, <1>4, <1>5, <1>6, <1>7 DEF Disable

LEMMA EnableKeeps ==
    ASSUME OneSlot, ToggleInv, NEW s \in Slave, NEW k \in Slot, Enable(s, k)
    PROVE  ToggleInv'
  <1> USE DEF Test, Rename, At
  <1>0. Typed /\ Sound(s) /\ Found(s, k) /\ None # "mine"
    BY ToggleConstants DEF ToggleInv
  <1>1. CASE Test(s, k, "e_stash?", There(s, "disabled"), "e_active?", "idle")
    <2>1. CASE There(s, "disabled")
      <3>1. Goto(s, k, "e_active?") /\ UNCHANGED tree /\ "e_active?" \in Step
        BY <1>1, <2>1 DEF Step
      <3>2. run'[s][k] = "e_active?"
        BY <1>0, <3>1, GotoIs
      <3>3. Found(s, k)'
        BY <2>1, <3>1, <3>2 DEF Found, There
      <3> QED
        BY <3>1, <3>3, JustGoes
    <2>2. CASE ~There(s, "disabled")
      BY <1>1, <2>2, Exits
    <2> QED
      BY <2>1, <2>2
  <1>2. ASSUME NEW step \in {"e_default?", "e_restore", "e_park"},
               run[s][k] \in {"e_active?", "e_default?"}, Goto(s, k, step), UNCHANGED tree
        PROVE  ToggleInv'
    <2>1. step \in Step
      BY DEF Step
    <2>2. run'[s][k] = step
      BY <1>0, <1>2, <2>1, GotoIs
    <2>3. Found(s, k)'
      BY <1>0, <1>2, <2>2 DEF Found
    <2> QED
      BY <1>2, <2>1, <2>3, JustGoes
  <1>3. CASE Test(s, k, "e_active?", There(s, "active"), "e_default?", "e_restore")
    <2>1. PICK step \in {"e_default?", "e_restore"} : Goto(s, k, step) /\ UNCHANGED tree
      BY <1>3
    <2> QED
      BY <1>2, <1>3, <2>1
  <1>4. CASE Test(s, k, "e_default?", There(s, "default"), "idle", "e_park")
    <2>1. CASE There(s, "default")
      BY <1>4, <2>1, Exits
    <2>2. CASE ~There(s, "default")
      BY <1>2, <1>4, <2>2
    <2> QED
      BY <2>1, <2>2
  <1>5. CASE Rename(s, k, "e_park", "active", "default", "e_restore")
    <2>1. CASE tree' = Moved(s, "active", "default") /\ Goto(s, k, "e_restore")
      <3>1. tree[s]["disabled"] # None
        BY <1>0, <1>5 DEF Found
      <3>2. "e_restore" \in Step /\ "active" \in Folder /\ "default" \in Folder
            /\ "disabled" \in Folder \ {"active", "default"}
        BY DEF Step, Folder
      <3>3. /\ tree' \in [Slave -> [Folder -> {None, "mine", "baseline", "new"}]]
            /\ tree'[s]["active"] = None /\ tree'[s]["default"] = tree[s]["active"]
            /\ tree'[s]["disabled"] = tree[s]["disabled"]
            /\ \A t \in Slave \ {s} : tree'[t] = tree[t]
        BY <1>0, <2>1, <3>2, MovedIs
      <3>4. run'[s][k] = "e_restore"
        BY <1>0, <2>1, <3>2, GotoIs
      <3>5. Sound(s)' /\ Found(s, k)'
        BY <1>0, <3>1, <3>3, <3>4 DEF Sound, InPlace, SetAside, Found
      <3> QED
        BY <2>1, <3>2, <3>3, <3>5, OneRun
    <2>2. CASE Goto(s, k, "idle") /\ UNCHANGED tree
      BY <2>2, Exits
    <2> QED
      BY <1>5, <2>1, <2>2
  <1>6. CASE Rename(s, k, "e_restore", "disabled", "active", "idle")
    <2>1. CASE tree' = Moved(s, "disabled", "active") /\ Goto(s, k, "idle")
      <3>1. tree[s]["disabled"] # None
        BY <1>0, <1>6 DEF Found
      <3>2. "idle" \in Step /\ "active" \in Folder /\ "disabled" \in Folder
            /\ "default" \in Folder \ {"disabled", "active"}
        BY DEF Step, Folder
      <3>3. /\ tree' \in [Slave -> [Folder -> {None, "mine", "baseline", "new"}]]
            /\ tree'[s]["disabled"] = None /\ tree'[s]["active"] = tree[s]["disabled"]
            /\ tree'[s]["default"] = tree[s]["default"]
            /\ \A t \in Slave \ {s} : tree'[t] = tree[t]
        BY <1>0, <2>1, <3>2, MovedIs
      <3>4. run'[s][k] = "idle"
        BY <1>0, <2>1, <3>2, GotoIs
      <3>5. Sound(s)' /\ Found(s, k)'
        BY <1>0, <3>1, <3>3, <3>4 DEF Sound, InPlace, SetAside, Found
      <3> QED
        BY <2>1, <3>2, <3>3, <3>5, OneRun
    <2>2. CASE Goto(s, k, "idle") /\ UNCHANGED tree
      BY <2>2, Exits
    <2> QED
      BY <1>6, <2>1, <2>2
  <1> QED
    BY <1>1, <1>3, <1>4, <1>5, <1>6 DEF Enable

-----------------------------------------------------------------------------
(* The invariant holds.                                                    *)

LEMMA InvInit == Init => ToggleInv
  <1> SUFFICES ASSUME Init PROVE ToggleInv
    OBVIOUS
  <1>1. PICK d \in [Slave -> {None, "baseline"}] :
          tree = [s \in Slave |-> [active |-> "mine", disabled |-> None, default |-> d[s]]]
    <2> DEFINE Fresh == {[active |-> "mine", disabled |-> None, default |-> b] :
                           b \in {None, "baseline"}}
               e == [s \in Slave |-> tree[s]["default"]]
    <2>1. tree \in [Slave -> Fresh]
      BY DEF Init
    <2>2. ASSUME NEW s \in Slave
          PROVE  /\ e[s] \in {None, "baseline"}
                 /\ tree[s] = [active |-> "mine", disabled |-> None, default |-> e[s]]
      BY <2>1, <2>2
    <2>3. e \in [Slave -> {None, "baseline"}]
      BY <2>2
    <2>4. tree = [s \in Slave |-> [active |-> "mine", disabled |-> None, default |-> e[s]]]
      BY <2>1, <2>2
    <2> QED
      BY <2>3, <2>4
  <1>2. run = [s \in Slave |-> [k \in Slot |-> "idle"]]
    BY DEF Init
  <1>3. ASSUME NEW s \in Slave
        PROVE  /\ tree[s] \in [Folder -> {None, "mine", "baseline", "new"}]
               /\ InPlace(s)
    BY <1>1, ToggleConstants DEF Folder, InPlace
  <1>4. Typed
    BY <1>1, <1>2, <1>3 DEF Typed, Step
  <1>5. ASSUME NEW s \in Slave, NEW k \in Slot PROVE Found(s, k)
    BY <1>2 DEF Found
  <1> QED
    BY <1>3, <1>4, <1>5 DEF ToggleInv, Sound

LEMMA ClickKeeps ==
    ASSUME OneSlot, ToggleInv, NEW s \in Slave, Click(s)
    PROVE  ToggleInv'
  <1>1. PICK k \in Slot, step \in {"d_stashed?", "e_stash?"} : Goto(s, k, step)
    BY DEF Click
  <1>2. UNCHANGED tree /\ step \in Step
    BY DEF Click, Step
  <1>3. run'[s][k] = step
    BY <1>1, <1>2, GotoIs DEF ToggleInv
  <1>4. Found(s, k)'
    BY <1>3 DEF Found
  <1> QED
    BY <1>1, <1>2, <1>4, JustGoes

LEMMA InvStep ==
    ASSUME OneSlot, ToggleInv, [Next]_vars
    PROVE  ToggleInv'
  <1>1. ASSUME NEW s \in Slave, NEW k \in Slot, Script(s, k) PROVE ToggleInv'
    <2>1. CASE Preflight(s, k)
      BY <2>1, Exits DEF Preflight
    <2>2. CASE Disable(s, k)
      BY <2>2, DisableKeeps
    <2>3. CASE Enable(s, k)
      BY <2>3, EnableKeeps
    <2> QED
      BY <1>1, <2>1, <2>2, <2>3 DEF Script
  <1>2. ASSUME NEW s \in Slave, NEW k \in Slot, Killed(s, k) PROVE ToggleInv'
    BY <1>2, Exits DEF Killed
  <1>3. ASSUME NEW s \in Slave, Click(s) PROVE ToggleInv'
    BY <1>3, ClickKeeps
  <1>4. ASSUME UNCHANGED <<tree, run>> PROVE ToggleInv'
    BY <1>4 DEF ToggleInv, Typed, Sound, InPlace, SetAside, Found
  <1>5. ASSUME NEW s \in Slave, Poll(s) PROVE UNCHANGED <<tree, run>>
    BY <1>5 DEF Poll, scriptVars
  <1>6. ASSUME Evaluate \/ Answer \/ Lost \/ Refresh PROVE UNCHANGED <<tree, run>>
    BY <1>6 DEF Evaluate, Answer, Lost, Refresh, scriptVars
  <1>7. CASE UNCHANGED vars
    BY <1>4, <1>7 DEF vars
  <1> QED
    BY <1>1, <1>2, <1>3, <1>4, <1>5, <1>6, <1>7 DEF Next

LEMMA InvHolds == ASSUME OneSlot PROVE Spec => []ToggleInv
  <1>1. ToggleInv /\ [Next]_vars => ToggleInv'
    BY InvStep
  <1> QED
    BY InvInit, <1>1, PTL DEF Spec

\* The folders and the runs of the two scripts keep their types.
THEOREM ToggleTypeCorrect == ASSUME OneSlot PROVE Spec => []Typed
  <1>1. ToggleInv => Typed
    BY DEF ToggleInv
  <1> QED
    BY InvHolds, <1>1, PTL

\* disable_custom_scenery and enable_custom_scenery, one run at a time, killed
\* anywhere, with any rename failing, from buttons however old: the user's
\* scenery is in place or set aside, and never taken for the baseline.
THEOREM ToggleKeepsScenery == ASSUME OneSlot PROVE Spec => []SceneryKept
  <1>1. ASSUME ToggleInv, NEW s \in Slave
        PROVE  \E f \in {"active", "disabled"} :
                 \A g \in Folder : tree[s][g] = "mine" <=> g = f
    <2>1. None # "mine"
      BY ToggleConstants
    <2>2. CASE InPlace(s)
      BY <2>1, <2>2 DEF InPlace, Folder
    <2>3. CASE SetAside(s)
      BY <2>1, <2>3 DEF SetAside, Folder
    <2> QED
      BY <1>1, <2>2, <2>3 DEF ToggleInv, Sound
  <1>2. ToggleInv => SceneryKept
    BY <1>1 DEF SceneryKept
  <1> QED
    BY InvHolds, <1>2, PTL

\* And whenever neither runs, the one that fits the folders does not refuse.
THEOREM ToggleNeverStuck == ASSUME OneSlot PROVE Spec => []NeverStuck
  <1>1. ASSUME ToggleInv, NEW s \in Slave PROVE Answers(s)
    <2>1. None # "mine"
      BY ToggleConstants
    <2> QED
      BY <1>1, <2>1 DEF ToggleInv, Sound, InPlace, SetAside, Answers, There
  <1>2. ToggleInv => NeverStuck
    BY <1>1 DEF NeverStuck
  <1> QED
    BY InvHolds, <1>2, PTL
=============================================================================
