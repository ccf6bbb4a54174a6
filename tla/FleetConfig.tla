----------------------------- MODULE FleetConfig -----------------------------
(***************************************************************************)
(* How the settings of the ortho agents travel: simpit_common/             *)
(* ortho_config.py, the Ortho Cache dialog that writes them, and the two   *)
(* places of the agent that read them (main and Engine._reload_config).    *)
(*                                                                         *)
(* A settings file is a partial function from fields to values; a file     *)
(* that is absent, cannot be opened or is not JSON counts as the empty     *)
(* one, as it does for _read_json's callers.  Control keeps a full copy    *)
(* and writes the tuning fields to a folder on the NAS; each machine has   *)
(* the file its installer wrote, reads the fleet folder that file names,   *)
(* and may have an overlay of its own there, written by hand: one that is  *)
(* not UTF-8 makes the load raise.                                         *)
(*                                                                         *)
(* The fields fall into classes the code treats alike: "rings" stands for  *)
(* the tuning that applies in place, "poll" for poll_hz (tuning that makes *)
(* the agent rebuild its components) and "own" for what the installer      *)
(* asks for on each machine.                                               *)
(***************************************************************************)
EXTENDS Naturals, FiniteSets

CONSTANTS
    Machine,    \* the machines that run an agent
    Folder,     \* fleet folders
    NoFolder,   \* fleet_config_dir = "": distribution is off
    Default,    \* OrthoAgentConfig()
    Installed,  \* Installed[m]: the file the installer writes on m
    Tunings,    \* what the operator may enter for the tuning fields
    Overlays,   \* overlay files the operator may write for a machine
    Garbled,    \* an overlay file that is not UTF-8
    Closed,     \* no dialog is open
    MaxEdits,   \* bound on saves and overlay files
    MaxMisses   \* bound on loads of one machine, or of Control, that miss a file

Field        == {"enabled", "rings", "poll", "own", "dir"}
TuningFields == {"enabled", "rings", "poll"}
RebuildFields == {"poll", "own"}

ASSUME FleetConstants ==
    /\ DOMAIN Default = Field /\ Default.dir = NoFolder
    \* The installer always writes the drive, the cache and the folder.
    /\ \A m \in Machine :
          /\ DOMAIN Installed[m] \subseteq Field /\ {"own", "dir"} \subseteq DOMAIN Installed[m]
          /\ Installed[m].dir \in Folder \union {NoFolder}
    /\ \A t \in Tunings : DOMAIN t = TuningFields
    /\ \A o \in Overlays : DOMAIN o \subseteq Field
    /\ Garbled \notin Overlays
    /\ NoFolder \notin Folder
    /\ MaxEdits \in Nat /\ MaxMisses \in Nat

VARIABLES
    control,   \* Control's own ortho_agent.json
    dialog,    \* the settings the open dialog started from, or Closed
    delivered, \* did the last save also write the fleet copy?
    base,      \* base[f]: ortho_agent.json of fleet folder f
    overlay,   \* overlay[f][m]: ortho_agent.<m>.json of folder f
    local,     \* local[m]: the machine's own ortho_agent.json
    installed, \* the machines where the installer ran
    up,        \* the machines whose agent runs
    cfg,       \* cfg[m]: the settings in force
    blind,     \* the machines whose last load could not read the local file
    rebuilds,  \* rebuilds[m]: component restarts so far
    edits,     \* saves and overlay files so far
    misses     \* misses[m]: loads that blind a file so far

controlVars == <<control, dialog, delivered>>
shareVars   == <<base, overlay>>
agentVars   == <<local, installed, up, cfg, blind, rebuilds>>
fleetVars   == <<controlVars, shareVars, agentVars, edits, misses>>

-----------------------------------------------------------------------------
(* Settings files.                                                         *)

Empty == [f \in {} |-> NoFolder]

\* dict.update: what `new` says goes first.
Update(old, new) ==
    [f \in DOMAIN old \union DOMAIN new |->
        IF f \in DOMAIN new THEN new[f] ELSE old[f]]

\* from_dict: missing keys take the defaults.
FromDict(doc) == Update(Default, doc)

\* Mutant: the fleet copy carries every field.
FullDict(c) == c

\* fleet_tuning_dict: all the fleet copy carries.
TuningDict(c) == [f \in TuningFields |-> c[f]]

\* load_effective on machine m, when the files of `lost` cannot be read: the
\* machine's own file, the fleet folder it names, and all three merged.
Own(m, lost)   == IF "local" \in lost THEN Empty ELSE local[m]
Share(m, lost) == FromDict(Own(m, lost)).dir

Load(m, lost) ==
    LET Read(file, doc) == IF file \in lost THEN Empty ELSE doc
        own    == Own(m, lost)
        folder == Share(m, lost)
    IN  IF folder = NoFolder
        THEN FromDict(own)
        ELSE FromDict(Update(Update(own, Read("base", base[folder])),
                             Read("overlay", overlay[folder][m])))

\* _read_json does not catch a UnicodeDecodeError: load_effective raises.
Raises(m, lost) ==
    /\ Share(m, lost) # NoFolder /\ "overlay" \notin lost
    /\ overlay[Share(m, lost)][m] = Garbled

Files == {"local", "base", "overlay"}

\* What a load may miss.
Losses(who) == IF misses[who] < MaxMisses THEN SUBSET Files ELSE {{}}

\* A load that misses a file is counted.
Count(who, lost) ==
    misses' = [misses EXCEPT ![who] = @ + IF lost = {} THEN 0 ELSE 1]

\* Did machine m see its own file?
Note(m, lost) ==
    blind' = IF "local" \in lost THEN blind \union {m} ELSE blind \ {m}

-----------------------------------------------------------------------------
(* Control.                                                                *)

\* The dialog opens on Control's copy, or on the defaults when that cannot
\* be read.
Open ==
    /\ dialog = Closed
    /\ \E lost \in Losses("control") \intersect {{}, {"local"}} :
          /\ Count("control", lost)
          /\ dialog' = FromDict(IF lost = {} THEN control ELSE Empty)
    /\ UNCHANGED <<control, delivered, shareVars, agentVars, edits>>

Cancel ==
    /\ dialog # Closed /\ dialog' = Closed
    /\ UNCHANGED <<control, delivered, shareVars, agentVars, edits, misses>>

\* _collect: the tuning fields and the folder replace those of the copy the
\* dialog opened with; the other fields ride along.
Collect(tuning, folder) == [Update(dialog, tuning) EXCEPT !.dir = folder]

\* Mutant: the fleet copy goes to the folder the dialog opened with.
SaveFleetToOldFolder(new) ==
    /\ control' = new
    /\ \/ /\ dialog.dir \in Folder /\ delivered' = TRUE
          /\ base' = [base EXCEPT ![dialog.dir] = TuningDict(new)]
       \/ delivered' = FALSE /\ UNCHANGED base

\* save_fleet: Control's file is written, then the fleet copy.  That second
\* write is only tried when there is a folder and may fail; a Control that
\* dies before it has the same effect.
SaveFleet(new) ==
    /\ control' = new
    /\ \/ /\ new.dir \in Folder /\ delivered' = TRUE
          /\ base' = [base EXCEPT ![new.dir] = TuningDict(new)]
       \/ delivered' = FALSE /\ UNCHANGED base

\* The Save button.
Save(tuning, folder) ==
    /\ dialog # Closed /\ edits < MaxEdits
    /\ SaveFleet(Collect(tuning, folder))
    /\ dialog' = Closed /\ edits' = edits + 1
    /\ UNCHANGED <<overlay, agentVars, misses>>

\* The operator writes a machine's overlay next to the fleet copy by hand, in
\* whatever encoding the editor has.
WriteOverlay(f, m) ==
    /\ edits < MaxEdits /\ edits' = edits + 1
    /\ \E doc \in Overlays \union {Garbled} : overlay' = [overlay EXCEPT ![f][m] = doc]
    /\ UNCHANGED <<controlVars, base, agentVars, misses>>

-----------------------------------------------------------------------------
(* The machines.                                                           *)

\* The installer stops the agent and writes the machine's file.
Install(m) ==
    /\ local' = [local EXCEPT ![m] = Installed[m]]
    /\ installed' = installed \union {m}
    /\ up' = up \ {m}
    /\ UNCHANGED <<controlVars, shareVars, cfg, blind, rebuilds, edits, misses>>

\* main: load, leave a bootstrap copy where there is no file at all (that
\* write may fail), and exit at once when disabled.  A load that raises ends
\* the process.
Boot(m) ==
    /\ m \notin up
    /\ \E lost \in Losses(m) :
       LET new == Load(m, lost) IN
       /\ Count(m, lost)
       /\ \/ /\ Raises(m, lost) /\ UNCHANGED <<local, cfg, blind, up>>
          \/ /\ ~Raises(m, lost)
             /\ \/ UNCHANGED local
                \/ local[m] = Empty /\ local' = [local EXCEPT ![m] = new]
             /\ cfg' = [cfg EXCEPT ![m] = new]
             /\ Note(m, lost)
             /\ up' = IF new.enabled THEN up \union {m} ELSE up
    /\ UNCHANGED <<controlVars, shareVars, installed, rebuilds, edits>>

\* Mutant: a rebuild forgets to adopt the new settings.
ReloadForgetting(m) ==
    /\ m \in up
    /\ \E lost \in Losses(m) :
       LET new     == Load(m, lost)
           rebuild == \E f \in RebuildFields : new[f] # cfg[m][f]
       IN
       /\ Count(m, lost)
       /\ \/ /\ Raises(m, lost) /\ UNCHANGED <<cfg, blind, rebuilds>>
          \/ /\ ~Raises(m, lost)
             /\ Note(m, lost)
             /\ cfg' = IF rebuild THEN cfg ELSE [cfg EXCEPT ![m] = new]
             /\ rebuilds' = [rebuilds EXCEPT ![m] = @ + IF rebuild THEN 1 ELSE 0]
    /\ UNCHANGED <<controlVars, shareVars, local, installed, up, edits>>

\* _reload_config: adopt what the files yield now; a change of an endpoint
\* field restarts every component.  A load that raises changes nothing.
Reload(m) ==
    /\ m \in up
    /\ \E lost \in Losses(m) :
       LET new     == Load(m, lost)
           rebuild == \E f \in RebuildFields : new[f] # cfg[m][f]
       IN
       /\ Count(m, lost)
       /\ \/ /\ Raises(m, lost) /\ UNCHANGED <<cfg, blind, rebuilds>>
          \/ /\ ~Raises(m, lost)
             /\ Note(m, lost)
             /\ cfg' = [cfg EXCEPT ![m] = new]
             /\ rebuilds' = [rebuilds EXCEPT ![m] = @ + IF rebuild THEN 1 ELSE 0]
    /\ UNCHANGED <<controlVars, shareVars, local, installed, up, edits>>

\* The agent's process ends.
Halt(m) ==
    /\ m \in up /\ up' = up \ {m}
    /\ UNCHANGED <<controlVars, shareVars, local, installed, cfg, blind,
                   rebuilds, edits, misses>>

-----------------------------------------------------------------------------

FleetInit ==
    /\ control = Empty /\ dialog = Closed /\ delivered = FALSE
    /\ base = [f \in Folder |-> Empty]
    /\ overlay = [f \in Folder |-> [m \in Machine |-> Empty]]
    /\ local = [m \in Machine |-> Empty] /\ installed = {} /\ up = {}
    /\ cfg = [m \in Machine |-> Default] /\ blind = {}
    /\ rebuilds = [m \in Machine |-> 0]
    /\ edits = 0 /\ misses = [w \in Machine \union {"control"} |-> 0]

FleetNext ==
    \/ Open \/ Cancel
    \/ \E t \in Tunings, f \in Folder \union {NoFolder} : Save(t, f)
    \/ \E f \in Folder, m \in Machine : WriteOverlay(f, m)
    \/ \E m \in Machine : Install(m) \/ Boot(m) \/ Reload(m) \/ Halt(m)

FleetSpec == FleetInit /\ [][FleetNext]_fleetVars

\* The engine re-reads its settings every CONFIG_POLL_SECONDS.
FleetLiveSpec == FleetSpec /\ \A m \in Machine : WF_fleetVars(Reload(m))

-----------------------------------------------------------------------------
(* Properties.                                                             *)

\* The overlay that counts for machine m.
HomeOf(m)    == FromDict(local[m]).dir
OverlayOf(m) == IF HomeOf(m) \in Folder THEN overlay[HomeOf(m)][m] ELSE Empty

(* No save in Control, no first boot and no unreadable file ever takes a   *)
(* machine's own settings away for good: an agent that could read its file *)
(* runs with the drive and cache its installer wrote there, or those of    *)
(* one of the overlays written for single machines (FLEET_TUNING_FIELDS).  *)
InstallerOwns ==
    \A m \in up \intersect installed :
        m \notin blind =>
            cfg[m].own \in {Installed[m].own} \union
                {o.own : o \in {d \in Overlays : "own" \in DOMAIN d}}

(* The warm scenery is thrown away for a reason only: the components of an *)
(* agent restart at most once for each edit, and twice (there and back)    *)
(* for each time one of its files could not be read.                       *)
RebuildsHaveACause ==
    \A m \in Machine : rebuilds[m] <= edits + 2 * misses[m]

(* A save whose fleet copy was written reaches every running agent that    *)
(* reads that folder: in the end it runs with Control's tuning in every    *)
(* field its own overlay leaves alone.  An agent whose overlay makes the   *)
(* load raise is left out: it keeps what it runs with, and hears nothing.  *)
EditsArrive ==
    \A m \in Machine :
        <>[](m \in up /\ delivered /\ HomeOf(m) = control.dir
                /\ OverlayOf(m) # Garbled =>
                \A f \in TuningFields \ DOMAIN OverlayOf(m) :
                    cfg[m][f] = control[f])

=============================================================================
