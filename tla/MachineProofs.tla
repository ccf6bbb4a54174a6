---------------------------- MODULE MachineProofs ----------------------------
(***************************************************************************)
(* What each machine of the fleet has of its own, in three parts that      *)
(* share nothing: the mount its ortho agent supervises (MountSupervisor),  *)
(* the settings that agent runs with (FleetConfig), and the backups its    *)
(* scripts make and restore (Backups).  Each is proved for any number of   *)
(* machines, files and processes, and any number of the faults its module  *)
(* has.                                                                    *)
(***************************************************************************)
EXTENDS MountSupervisor, FleetConfig, Backups, FiniteSetTheorems, TLAPS

-----------------------------------------------------------------------------
(* The mount: one supervisor, one rclone.                                  *)

MountInv == TypeOK /\ OwnRcloneIsTracked

LEMMA MountInit == Init => MountInv
  <1>1. 0 \in 0..MaxEvents
    BY MountConstants DEF MountConstants
  <1> QED
    BY <1>1 DEF Init, MountInv, TypeOK, OwnRcloneIsTracked

LEMMA MountNext == ASSUME MountInv, [Next]_vars PROVE MountInv'
  <1> USE DEF MountInv, TypeOK, Proc, OwnRcloneIsTracked, Alive
  <1>h. ASSUME Happens PROVE events' \in 0..MaxEvents
    BY <1>h, MountConstants DEF MountConstants, Happens
  <1>1. CASE CheckDrive
    BY <1>1 DEF CheckDrive
  <1>2. CASE Probe
    <2>1. NoProc \notin mine
      BY MountConstants DEF MountConstants
    <2> QED
      BY <1>2, <2>1 DEF Probe
  <1>3. CASE Launch
    <2>1. \A p \in mine : ~Alive(p)
      BY <1>3 DEF Launch
    <2>2. ASSUME NEW p \in Child, stage' = [stage EXCEPT ![p] = "starting"],
                 rcAt' = [rcAt EXCEPT ![p] = rc],
                 rootAt' = [rootAt EXCEPT ![p] = root], child' = p,
                 mine' = mine \cup {p}, UNCHANGED events
          PROVE  MountInv'
      <3>1. TypeOK'
        BY <1>3, <2>2 DEF Launch
      <3>2. \A q \in mine' : Alive(q)' => q = p
        BY <2>1, <2>2
      <3> QED
        BY <1>3, <2>2, <3>1, <3>2 DEF Launch
    <2>3. CASE Happens /\ child' = NoProc /\ UNCHANGED <<stage, rcAt, rootAt, mine>>
      <3>1. TypeOK'
        BY <1>3, <1>h, <2>3 DEF Launch
      <3> QED
        BY <2>1, <2>3, <3>1
    <2>4. Startable # {} => NextChild \in Child
      BY DEF Startable, NextChild
    <2> QED
      BY <1>3, <2>2, <2>3, <2>4 DEF Launch
  <1>4. CASE WaitEnds
    BY <1>4 DEF WaitEnds
  <1>5. CASE Rebuild
    BY <1>5, <1>h DEF Rebuild
  <1>6. CASE HelperStarts
    BY <1>6, MountConstants DEF HelperStarts, MountConstants
  <1>7. ASSUME NEW p \in Proc, Serve(p) PROVE MountInv'
    BY <1>7 DEF Serve
  <1>8. ASSUME NEW p \in Proc, ShowDrive(p) PROVE MountInv'
    BY <1>8 DEF ShowDrive
  <1>9. ASSUME NEW p \in Proc, Die(p) PROVE MountInv'
    BY <1>9, <1>h DEF Die
  <1>10. CASE UNCHANGED vars
    BY <1>10 DEF vars
  <1> QED
    BY <1>1, <1>2, <1>3, <1>4, <1>5, <1>6, <1>7, <1>8, <1>9, <1>10
       DEF Next, EnsureMounted, Rclone

\* A supervisor never has two live rclones, and it never launches one while
\* an earlier one of its own lives.
THEOREM OneRclonePerSupervisor == Spec => [](TypeOK /\ OwnRcloneIsTracked)
  <1>1. MountInv => TypeOK /\ OwnRcloneIsTracked
    BY DEF MountInv
  <1> QED
    BY <1>1, MountInit, MountNext, PTL DEF Spec

-----------------------------------------------------------------------------
(* The settings: loads.                                                    *)

\* An agent that reads the installer's file has the installer's drive and
\* cache, unless an overlay of its own says otherwise: the fleet copy, which
\* has only tuning fields, cannot touch them.
LEMMA LoadKeepsOwn ==
    ASSUME NEW m \in Machine, NEW lost \in SUBSET Files,
           "local" \notin lost, local[m] = Installed[m],
           \A f \in Folder : DOMAIN base[f] \subseteq TuningFields,
           \A f \in Folder : overlay[f][m] \in Overlays \cup {Empty, Garbled},
           ~Raises(m, lost)
    PROVE  Load(m, lost).own \in {Installed[m].own} \cup
               {o.own : o \in {d \in Overlays : "own" \in DOMAIN d}}
  <1> DEFINE folder == FromDict(Installed[m]).dir
             shared == IF "base" \in lost THEN Empty ELSE base[folder]
             single == IF "overlay" \in lost THEN Empty ELSE overlay[folder][m]
  <1>1. "own" \in DOMAIN Installed[m] /\ folder = Installed[m].dir
        /\ Installed[m].dir \in Folder \cup {NoFolder}
    BY FleetConstants DEF FleetConstants, FromDict, Update, Field
  <1>2. CASE folder = NoFolder
    <2>1. Load(m, lost) = FromDict(Installed[m])
      BY <1>2 DEF Load, Own, Share
    <2> QED
      BY <1>1, <2>1, FleetConstants DEF FleetConstants, FromDict, Update, Field
  <1>3. CASE folder # NoFolder
    <2>1. Load(m, lost) = FromDict(Update(Update(Installed[m], shared), single))
      BY <1>3 DEF Load, Own, Share
    <2>2. folder \in Folder
      BY <1>1, <1>3
    <2>3. "own" \notin DOMAIN shared
      BY <2>2 DEF TuningFields, Empty
    <2>4. single \in Overlays \cup {Empty}
      BY <2>2, <1>3 DEF Raises, Share, Own
    <2>5. "own" \in DOMAIN Update(Update(Installed[m], shared), single)
      BY <1>1 DEF Update
    <2>6. Load(m, lost).own = Update(Update(Installed[m], shared), single).own
      BY <2>1, <2>5 DEF FromDict, Update
    <2>7. CASE "own" \in DOMAIN single
      <3>1. Load(m, lost).own = single.own
        BY <2>6, <2>7 DEF Update
      <3>2. single \in Overlays
        BY <2>4, <2>7 DEF Empty
      <3> QED
        BY <3>1, <3>2, <2>7
    <2>8. CASE "own" \notin DOMAIN single
      BY <1>1, <2>3, <2>6, <2>8 DEF Update
    <2> QED
      BY <2>7, <2>8
  <1> QED
    BY <1>2, <1>3

\* The copy a first boot leaves behind is the defaults, and reads the same
\* as no file at all.
LEMMA BootCopyIsDefault ==
    ASSUME NEW m \in Machine, NEW lost \in SUBSET Files, local[m] = Empty
    PROVE  /\ Load(m, lost) = Update(Default, Empty)
           /\ Load(m, {}) = FromDict(Load(m, lost))
           /\ FromDict(Load(m, lost)).dir = NoFolder
  <1>1. FromDict(Empty).dir = NoFolder
    BY FleetConstants DEF FleetConstants, FromDict, Update, Empty, Field
  <1>2. Load(m, lost) = FromDict(Empty) /\ Load(m, {}) = FromDict(Empty)
    BY <1>1 DEF Load, Own, Share
  <1>3. FromDict(FromDict(Empty)) = FromDict(Empty)
    BY DEF FromDict, Update, Empty
  <1> QED
    BY <1>1, <1>2, <1>3 DEF FromDict
-----------------------------------------------------------------------------
(* The files.                                                              *)

\* What both properties rest on: the local file of a machine whose
\* installer ran is the installer's, whatever boots came before or after; a
\* fleet copy has tuning fields only; and an overlay is one the operator
\* wrote.
FilesInv ==
    /\ DOMAIN local = Machine /\ DOMAIN base = Folder
    /\ installed \subseteq Machine /\ up \subseteq Machine
    /\ \A m \in installed : local[m] = Installed[m]
    /\ \A f \in Folder : DOMAIN base[f] \subseteq TuningFields
    /\ overlay \in [Folder -> [Machine -> Overlays \cup {Empty, Garbled}]]

LEMMA FilesInit == FleetInit => FilesInv
  BY DEF FleetInit, FilesInv, Empty

LEMMA SaveKeepsFiles ==
    ASSUME NEW t \in Tunings, NEW g \in Folder \cup {NoFolder},
           FilesInv, Save(t, g)
    PROVE  FilesInv' /\ UNCHANGED <<local, installed, up, cfg, blind>>
  <1> DEFINE new == Collect(t, g)
  <1>1. SaveFleet(new) /\ UNCHANGED <<overlay, local, installed, up, cfg, blind>>
    BY DEF Save, agentVars
  <1>2. CASE UNCHANGED base
    BY <1>1, <1>2 DEF FilesInv
  <1>3. CASE /\ new.dir \in Folder
             /\ base' = [base EXCEPT ![new.dir] = TuningDict(new)]
    <2>1. DOMAIN TuningDict(new) = TuningFields
      BY DEF TuningDict
    <2> HIDE DEF new
    <2> QED
      BY <1>1, <1>3, <2>1 DEF FilesInv
  <1> QED
    BY <1>1, <1>2, <1>3 DEF SaveFleet

\* A boot leaves the installer's file alone: it writes where there is none.
LEMMA BootKeepsInstalled ==
    ASSUME NEW m \in Machine, FilesInv, Boot(m)
    PROVE  FilesInv'
  <1>1. PICK lost \in SUBSET Files :
           \/ UNCHANGED local
           \/ local[m] = Empty /\ local' = [local EXCEPT ![m] = Load(m, lost)]
    BY DEF Boot, Losses
  <1>2. UNCHANGED <<base, overlay, installed>> /\ up' \subseteq up \cup {m}
    BY DEF Boot, shareVars
  <1>3. ASSUME m \in installed PROVE local[m] # Empty
    <2>1. "own" \in DOMAIN Installed[m]
      BY FleetConstants DEF FleetConstants
    <2> QED
      BY <1>3, <2>1 DEF FilesInv, Empty
  <1>4. \A n \in installed : local'[n] = local[n]
    BY <1>1, <1>3 DEF FilesInv
  <1>5. DOMAIN local' = Machine
    BY <1>1 DEF FilesInv
  <1> QED
    BY <1>2, <1>4, <1>5 DEF FilesInv

LEMMA FilesNext == ASSUME FilesInv, [FleetNext]_fleetVars PROVE FilesInv'
  <1>1. CASE Open
    BY <1>1 DEF Open, FilesInv, shareVars, agentVars
  <1>2. CASE Cancel
    BY <1>2 DEF Cancel, FilesInv, shareVars, agentVars
  <1>3. ASSUME NEW t \in Tunings, NEW f \in Folder \cup {NoFolder}, Save(t, f)
        PROVE FilesInv'
    BY <1>3, SaveKeepsFiles
  <1>4. ASSUME NEW f \in Folder, NEW m \in Machine, WriteOverlay(f, m)
        PROVE FilesInv'
    BY <1>4 DEF WriteOverlay, FilesInv, agentVars
  <1>5. ASSUME NEW m \in Machine, Install(m) PROVE FilesInv'
    BY <1>5 DEF Install, FilesInv, shareVars
  <1>6. ASSUME NEW m \in Machine, Boot(m) PROVE FilesInv'
    BY <1>6, BootKeepsInstalled
  <1>7. ASSUME NEW m \in Machine, Reload(m) PROVE FilesInv'
    BY <1>7 DEF Reload, FilesInv, shareVars
  <1>8. ASSUME NEW m \in Machine, Halt(m) PROVE FilesInv'
    BY <1>8 DEF Halt, FilesInv, shareVars
  <1>9. CASE UNCHANGED fleetVars
    BY <1>9 DEF fleetVars, FilesInv, shareVars, agentVars
  <1> QED
    BY <1>1, <1>2, <1>3, <1>4, <1>5, <1>6, <1>7, <1>8, <1>9 DEF FleetNext

-----------------------------------------------------------------------------
(* Whose drive and cache an agent uses.                                    *)

OwnInv == FilesInv /\ DOMAIN cfg = Machine /\ InstallerOwns

LEMMA OwnInit == FleetInit => OwnInv
  BY FilesInit DEF FleetInit, OwnInv, InstallerOwns

\* A load puts the installer's drive in force, or counts as blind.
LEMMA LoadedOwns ==
    ASSUME NEW m \in Machine, NEW lost \in SUBSET Files, OwnInv, FilesInv',
           ~Raises(m, lost), cfg' = [cfg EXCEPT ![m] = Load(m, lost)], Note(m, lost),
           installed' = installed, up' \subseteq up \cup {m}
    PROVE  OwnInv'
  <1>1. DOMAIN cfg' = Machine
    BY DEF OwnInv
  <1>2. ASSUME NEW n \in up' \cap installed', n \notin blind'
        PROVE cfg'[n].own \in {Installed[n].own} \cup
                 {o.own : o \in {d \in Overlays : "own" \in DOMAIN d}}
    <2>1. CASE n = m
      <3>1. "local" \notin lost
        BY <1>2, <2>1 DEF Note
      <3>2. cfg'[m] = Load(m, lost) /\ local[m] = Installed[m]
        BY <1>2, <2>1 DEF OwnInv, FilesInv
      <3> QED
        BY <2>1, <3>1, <3>2, LoadKeepsOwn DEF OwnInv, FilesInv
    <2>2. CASE n # m
      <3>1. n \in up \cap installed /\ n \notin blind
        BY <1>2, <2>2 DEF Note
      <3>2. cfg'[n] = cfg[n]
        BY <2>2, <3>1 DEF OwnInv, FilesInv
      <3> QED
        BY <3>1, <3>2 DEF OwnInv, InstallerOwns
    <2> QED
      BY <2>1, <2>2
  <1> QED
    BY <1>1, <1>2 DEF OwnInv, InstallerOwns

LEMMA OwnNext == ASSUME OwnInv, [FleetNext]_fleetVars PROVE OwnInv'
  <1>0. FilesInv /\ FilesInv'
    BY FilesNext DEF OwnInv
  <1>1. CASE UNCHANGED <<installed, up, cfg, blind>>
    BY <1>0, <1>1 DEF OwnInv, InstallerOwns
  <1>2. ASSUME NEW t \in Tunings, NEW f \in Folder \cup {NoFolder}, Save(t, f)
        PROVE UNCHANGED <<installed, up, cfg, blind>>
    BY <1>0, <1>2, SaveKeepsFiles
  <1>3. ASSUME NEW f \in Folder, NEW m \in Machine, WriteOverlay(f, m)
        PROVE UNCHANGED <<installed, up, cfg, blind>>
    BY <1>3 DEF WriteOverlay, agentVars
  <1>4. ASSUME NEW m \in Machine, Install(m) PROVE OwnInv'
    <2>1. up' \cap installed' \subseteq up \cap installed
          /\ cfg' = cfg /\ blind' = blind
      BY <1>4 DEF Install
    <2> QED
      BY <1>0, <2>1 DEF OwnInv, InstallerOwns
  <1>5. ASSUME NEW m \in Machine, Boot(m) PROVE OwnInv'
    <2>1. PICK lost \in SUBSET Files :
             \/ Raises(m, lost) /\ UNCHANGED <<cfg, blind, up>>
             \/ /\ ~Raises(m, lost)
                /\ cfg' = [cfg EXCEPT ![m] = Load(m, lost)]
                /\ Note(m, lost)
      BY <1>5 DEF Boot, Losses
    <2>2. installed' = installed /\ up' \subseteq up \cup {m}
      BY <1>5 DEF Boot
    <2> QED
      BY <1>0, <1>1, <2>1, <2>2, LoadedOwns
  <1>6. ASSUME NEW m \in Machine, Reload(m) PROVE OwnInv'
    <2>1. PICK lost \in SUBSET Files :
             \/ Raises(m, lost) /\ UNCHANGED <<cfg, blind>>
             \/ /\ ~Raises(m, lost)
                /\ cfg' = [cfg EXCEPT ![m] = Load(m, lost)]
                /\ Note(m, lost)
      BY <1>6 DEF Reload, Losses
    <2>2. installed' = installed /\ up' = up
      BY <1>6 DEF Reload
    <2> QED
      BY <1>0, <1>1, <2>1, <2>2, LoadedOwns
  <1>7. ASSUME NEW m \in Machine, Halt(m) PROVE OwnInv'
    BY <1>0, <1>7 DEF Halt, OwnInv, InstallerOwns
  <1>8. CASE Open \/ Cancel \/ UNCHANGED fleetVars
    BY <1>1, <1>8 DEF Open, Cancel, fleetVars, agentVars
  <1> QED
    BY <1>1, <1>2, <1>3, <1>4, <1>5, <1>6, <1>7, <1>8 DEF FleetNext

\* No save, no first boot and no unreadable file takes a machine's drive and
\* cache away: an agent that read its own file runs with its installer's, or
\* with those of an overlay.
THEOREM NoEditTakesTheDrive == FleetSpec => []InstallerOwns
  <1>1. OwnInv => InstallerOwns
    BY DEF OwnInv
  <1> QED
    BY <1>1, OwnInit, OwnNext, PTL DEF FleetSpec
-----------------------------------------------------------------------------
(* Why an agent restarts its components.                                   *)

\* Would a load that sees every file, and returns, restart m's components?
Owes(m) ==
    m \in up /\ \E f \in RebuildFields : Load(m, {})[f] # cfg[m][f]

Due(m) == IF Owes(m) THEN 1 ELSE 0

\* A restart m still owes is paid for already, by the edit that changed its
\* files or by the load that missed one.
CauseInv ==
    /\ FilesInv /\ DOMAIN cfg = Machine
    /\ edits \in Nat /\ rebuilds \in [Machine -> Nat]
    /\ misses \in [Machine \cup {"control"} -> Nat]
    /\ \A m \in Machine : rebuilds[m] + Due(m) <= edits + 2 * misses[m]

LEMMA CauseInit == FleetInit => CauseInv
  BY FilesInit DEF FleetInit, CauseInv, Due, Owes

\* An edit may leave every machine a restart in debt, and pays for it.
LEMMA EditPays ==
    ASSUME CauseInv, FilesInv', edits' = edits + 1,
           UNCHANGED <<cfg, rebuilds, misses>>
    PROVE  CauseInv'
  <1>1. \A m \in Machine : Due(m) \in {0, 1} /\ Due(m)' \in {0, 1}
    BY DEF Due
  <1>2. ASSUME NEW m \in Machine
        PROVE  rebuilds'[m] + Due(m)' <= edits' + 2 * misses'[m]
    BY <1>1, <1>2 DEF CauseInv
  <1> QED
    BY <1>2 DEF CauseInv

\* What another machine does changes nothing for n.
LEMMA OthersKeepDue ==
    ASSUME NEW n \in Machine, local'[n] = local[n], cfg'[n] = cfg[n],
           UNCHANGED <<base, overlay>>, n \in up' <=> n \in up
    PROVE  Due(n)' = Due(n)
  BY DEF Due, Owes, Load, Own, Share

\* An agent that ends owes no restart.
LEMMA EndClears ==
    ASSUME NEW m \in Machine, CauseInv, FilesInv', up' = up \ {m},
           \A n \in Machine \ {m} : local'[n] = local[n],
           UNCHANGED <<base, overlay, cfg, rebuilds, edits, misses>>
    PROVE  CauseInv'
  <1>1. Due(m)' = 0
    BY DEF Due, Owes
  <1>2. ASSUME NEW n \in Machine
        PROVE  rebuilds'[n] + Due(n)' <= edits' + 2 * misses'[n]
    <2>1. Due(n) \in {0, 1}
      BY DEF Due
    <2>2. CASE n = m
      BY <1>1, <2>1, <2>2 DEF CauseInv
    <2>3. CASE n # m
      <3>1. Due(n)' = Due(n)
        BY <2>3, OthersKeepDue
      <3> QED
        BY <3>1 DEF CauseInv
    <2> QED
      BY <2>2, <2>3
  <1> QED
    BY <1>2 DEF CauseInv

\* A load that sees every file settles the debt; one that misses a file may
\* restart the components and leave a second restart owed, and counts for
\* two.
LEMMA LoadSettles ==
    ASSUME NEW m \in Machine, NEW lost \in SUBSET Files, NEW cost \in Nat,
           CauseInv, FilesInv', Count(m, lost),
           cfg' = [cfg EXCEPT ![m] = Load(m, lost)],
           rebuilds' = [rebuilds EXCEPT ![m] = @ + cost],
           cost <= 1, lost = {} => cost <= Due(m),
           Load(m, {})' = Load(m, {}),
           \A n \in Machine \ {m} : local'[n] = local[n] /\ (n \in up' <=> n \in up),
           UNCHANGED <<base, overlay, edits>>
    PROVE  CauseInv'
  <1> DEFINE fault == IF lost = {} THEN 0 ELSE 1
  <1>1. misses' = [misses EXCEPT ![m] = @ + fault] /\ fault \in Nat
    BY DEF Count
  <1>2. /\ DOMAIN cfg' = Machine /\ cfg'[m] = Load(m, lost)
        /\ edits' \in Nat /\ rebuilds' \in [Machine -> Nat]
        /\ rebuilds'[m] = rebuilds[m] + cost
        /\ misses' \in [Machine \cup {"control"} -> Nat]
        /\ misses'[m] = misses[m] + fault
    BY <1>1 DEF CauseInv
  <1>3. lost = {} => Due(m)' = 0
    BY <1>2 DEF Due, Owes
  <1>4. Due(m) \in {0, 1} /\ Due(m)' \in {0, 1}
    BY DEF Due
  <1>5. rebuilds[m] + Due(m) <= edits + 2 * misses[m]
    BY DEF CauseInv
  <1>6. rebuilds'[m] + Due(m)' <= edits' + 2 * misses'[m]
    <2>0. edits \in Nat /\ rebuilds[m] \in Nat /\ misses[m] \in Nat /\ edits' = edits
      BY DEF CauseInv
    <2>1. CASE lost = {}
      BY <2>0, <2>1, <1>2, <1>3, <1>4, <1>5
    <2>2. CASE lost # {}
      BY <2>0, <2>2, <1>2, <1>4, <1>5
    <2> QED
      BY <2>1, <2>2
  <1>7. ASSUME NEW n \in Machine \ {m}
        PROVE  rebuilds'[n] + Due(n)' <= edits' + 2 * misses'[n]
    <2>1. Due(n)' = Due(n)
      BY <1>7, OthersKeepDue DEF CauseInv
    <2>2. rebuilds'[n] = rebuilds[n] /\ misses'[n] = misses[n]
      BY <1>1 DEF CauseInv
    <2> QED
      BY <2>1, <2>2 DEF CauseInv
  <1> QED
    BY <1>2, <1>6, <1>7 DEF CauseInv

\* A load that adopts nothing, Control's or one that raises, owes nothing more.
LEMMA MissPays ==
    ASSUME NEW who \in Machine \cup {"control"}, NEW lost, CauseInv, FilesInv',
           Count(who, lost),
           UNCHANGED <<base, overlay, local, up, cfg, rebuilds, edits>>
    PROVE  CauseInv'
  <1>1. /\ misses' \in [Machine \cup {"control"} -> Nat]
        /\ \A m \in Machine : misses'[m] >= misses[m]
    BY DEF Count, CauseInv
  <1>2. ASSUME NEW m \in Machine
        PROVE  rebuilds'[m] + Due(m)' <= edits' + 2 * misses'[m]
    <2>1. Due(m)' = Due(m) /\ Due(m) \in {0, 1}
      BY OthersKeepDue DEF Due
    <2> QED
      BY <1>1, <2>1 DEF CauseInv
  <1> QED
    BY <1>1, <1>2 DEF CauseInv

LEMMA CauseNext == ASSUME CauseInv, [FleetNext]_fleetVars PROVE CauseInv'
  <1>0. FilesInv /\ FilesInv'
    BY FilesNext DEF CauseInv
  <1>1. CASE Open
    <2>1. PICK lost : Count("control", lost)
      BY <1>1 DEF Open
    <2>2. UNCHANGED <<base, overlay, local, up, cfg, rebuilds, edits>>
      BY <1>1 DEF Open, shareVars, agentVars
    <2> QED
      BY <1>0, <2>1, <2>2, MissPays
  <1>2. ASSUME NEW t \in Tunings, NEW f \in Folder \cup {NoFolder}, Save(t, f)
        PROVE CauseInv'
    BY <1>0, <1>2, EditPays DEF Save, agentVars
  <1>3. ASSUME NEW f \in Folder, NEW m \in Machine, WriteOverlay(f, m)
        PROVE CauseInv'
    BY <1>0, <1>3, EditPays DEF WriteOverlay, agentVars
  <1>4. ASSUME NEW m \in Machine, Install(m) PROVE CauseInv'
    <2>1. \A n \in Machine \ {m} : local'[n] = local[n]
      BY <1>4, <1>0 DEF Install, FilesInv
    <2> QED
      BY <1>0, <1>4, <2>1, EndClears DEF Install, shareVars
  <1>5. ASSUME NEW m \in Machine, Halt(m) PROVE CauseInv'
    BY <1>0, <1>5, EndClears DEF Halt, shareVars
  <1>6. ASSUME NEW m \in Machine, Boot(m) PROVE CauseInv'
    <2>1. PICK lost \in SUBSET Files :
             /\ Count(m, lost)
             /\ \/ UNCHANGED <<local, cfg, up>>
                \/ /\ \/ UNCHANGED local
                      \/ local[m] = Empty /\ local' = [local EXCEPT ![m] = Load(m, lost)]
                   /\ cfg' = [cfg EXCEPT ![m] = Load(m, lost)]
                   /\ up' = IF Load(m, lost).enabled THEN up \cup {m} ELSE up
      BY <1>6 DEF Boot, Losses
    <2>a. CASE UNCHANGED <<local, cfg, up>>
      BY <1>0, <1>6, <2>1, <2>a, MissPays DEF Boot, shareVars
    <2>b. CASE /\ \/ UNCHANGED local
                  \/ local[m] = Empty /\ local' = [local EXCEPT ![m] = Load(m, lost)]
               /\ cfg' = [cfg EXCEPT ![m] = Load(m, lost)]
               /\ up' = IF Load(m, lost).enabled THEN up \cup {m} ELSE up
      <3>2. /\ UNCHANGED <<base, overlay, edits, rebuilds>>
            /\ \A n \in Machine \ {m} : n \in up' <=> n \in up
        BY <1>6, <2>b DEF Boot, shareVars
      <3>3. \A n \in Machine \ {m} : local'[n] = local[n]
        BY <2>b, <1>0 DEF FilesInv
      <3>4. Load(m, {})' = Load(m, {})
        <4>1. CASE UNCHANGED local
          BY <3>2, <4>1 DEF Load, Own, Share
        <4>2. CASE local[m] = Empty /\ local' = [local EXCEPT ![m] = Load(m, lost)]
          <5>1. local'[m] = Load(m, lost)
            BY <4>2, <1>0 DEF FilesInv
          <5>2. /\ Load(m, {}) = FromDict(Load(m, lost))
                /\ FromDict(Load(m, lost)).dir = NoFolder
            BY <4>2, BootCopyIsDefault
          <5>3. Load(m, {})' = FromDict(local'[m])
            BY <5>1, <5>2 DEF Load, Own, Share
          <5> QED
            BY <5>1, <5>2, <5>3
        <4> QED
          BY <2>b, <4>1, <4>2
      <3> DEFINE cost == 0
      <3>5. rebuilds' = [rebuilds EXCEPT ![m] = @ + cost]
        BY <3>2 DEF CauseInv
      <3>6. cost \in Nat /\ cost <= 1 /\ cost <= Due(m)
        BY DEF Due
      <3>7. Count(m, lost) /\ cfg' = [cfg EXCEPT ![m] = Load(m, lost)]
        BY <2>1, <2>b
      <3> HIDE DEF cost
      <3> QED
        BY <1>0, <3>2, <3>3, <3>4, <3>5, <3>6, <3>7, LoadSettles
    <2> QED
      BY <2>1, <2>a, <2>b
  <1>7. ASSUME NEW m \in Machine, Reload(m) PROVE CauseInv'
    <2> DEFINE cost(lost) ==
                 IF \E f \in RebuildFields : Load(m, lost)[f] # cfg[m][f] THEN 1 ELSE 0
    <2>1. PICK lost \in SUBSET Files :
             /\ Count(m, lost)
             /\ \/ UNCHANGED <<cfg, rebuilds>>
                \/ /\ cfg' = [cfg EXCEPT ![m] = Load(m, lost)]
                   /\ rebuilds' = [rebuilds EXCEPT ![m] = @ + cost(lost)]
      BY <1>7 DEF Reload, Losses
    <2>2. UNCHANGED <<base, overlay, edits, local, up>> /\ m \in up
      BY <1>7 DEF Reload, shareVars
    <2>3. /\ cost(lost) \in Nat /\ cost(lost) <= 1
          /\ lost = {} => cost(lost) <= Due(m)
      BY <2>2 DEF Due, Owes
    <2>4. Load(m, {})' = Load(m, {})
      BY <2>2 DEF Load, Own, Share
    <2> HIDE DEF cost
    <2>5. CASE UNCHANGED <<cfg, rebuilds>>
      BY <1>0, <2>1, <2>2, <2>5, MissPays
    <2>6. CASE /\ cfg' = [cfg EXCEPT ![m] = Load(m, lost)]
               /\ rebuilds' = [rebuilds EXCEPT ![m] = @ + cost(lost)]
      BY <1>0, <2>1, <2>2, <2>3, <2>4, <2>6, LoadSettles
    <2> QED
      BY <2>1, <2>5, <2>6
  <1>8. CASE Cancel \/ UNCHANGED fleetVars
    <2>1. UNCHANGED <<base, overlay, local, up, cfg, rebuilds, edits, misses>>
      BY <1>8 DEF Cancel, fleetVars, shareVars, agentVars
    <2>2. \A m \in Machine : Due(m)' = Due(m)
      BY <2>1, OthersKeepDue
    <2> QED
      BY <1>0, <2>1, <2>2 DEF CauseInv
  <1> QED
    BY <1>1, <1>2, <1>3, <1>4, <1>5, <1>6, <1>7, <1>8 DEF FleetNext

\* The components of an agent restart at most once for each edit, and twice
\* for each time one of its files could not be read.
THEOREM RestartsArePaidFor == FleetSpec => []RebuildsHaveACause
  <1>1. CauseInv => RebuildsHaveACause
    <2> SUFFICES ASSUME CauseInv, NEW m \in Machine
                 PROVE  rebuilds[m] <= edits + 2 * misses[m]
      BY DEF RebuildsHaveACause
    <2>1. Due(m) \in {0, 1}
      BY DEF Due
    <2> QED
      BY <2>1 DEF CauseInv
  <1> QED
    BY <1>1, CauseInit, CauseNext, PTL DEF FleetSpec

-----------------------------------------------------------------------------
(* Backups.                                                                *)

ArchiveFile == [host : Host, stamp : Nat, tmp : BOOLEAN, mtime : Nat, whole : BOOLEAN]

Run == [at : {"idle", "write", "rename", "prune", "delete"}, stamp : Nat,
        stale : SUBSET {f \in ArchiveFile : ~f.tmp}]

\* What looks like a backup.
Archive == {f \in files : ~f.tmp}

\* Run k of host h has a temporary file.
Active(h, k) == run[h][k].at \in {"write", "rename"}

BackupTypeOK ==
    /\ files \subseteq ArchiveFile /\ clock \in Nat \ {0}
    /\ run \in [Host -> [Slot -> Run]]
    /\ last \in [Host -> Nat]

\* Two runs of one host that are under way began at different times.
RunsDiffer ==
    \A h \in Host : \A j, k \in Slot :
      j # k /\ Active(h, j) /\ Active(h, k) => run[h][j].stamp # run[h][k].stamp

\* A name belongs to one file, and an archive is whole and was finished after
\* the moment in its name.
FilesTold ==
    /\ \A f, g \in files : f.host = g.host /\ f.stamp = g.stamp => f = g
    /\ \A f \in files : f.stamp <= clock /\ f.mtime <= clock /\ f.mtime >= 1
    /\ \A f \in files : ~f.tmp => f.whole /\ f.stamp < f.mtime

\* A run under way has its temporary file, which is whole when it is to be
\* renamed.
Held(h, k) ==
    \E f \in files :
      /\ f.host = h /\ f.stamp = run[h][k].stamp /\ f.tmp
      /\ run[h][k].at = "rename" => f.whole /\ f.stamp < f.mtime

TempsHeld ==
    \A h \in Host, k \in Slot : run[h][k].stamp <= clock /\ (Active(h, k) => Held(h, k))

BackupInv == BackupTypeOK /\ RunsDiffer /\ FilesTold /\ TempsHeld

LEMMA BackupStart == BackupInit => BackupInv
  <1> SUFFICES ASSUME BackupInit PROVE BackupInv
    OBVIOUS
  <1>1. \A h \in Host, k \in Slot : run[h][k] = Idle
    BY DEF BackupInit
  <1>2. BackupTypeOK
    BY DEF BackupInit, BackupTypeOK, Run, Idle
  <1>3. RunsDiffer /\ TempsHeld
    BY <1>1 DEF BackupInit, RunsDiffer, TempsHeld, Active, Idle
  <1>4. FilesTold
    BY DEF BackupInit, FilesTold
  <1> QED
    BY <1>2, <1>3, <1>4 DEF BackupInv

\* A run goes past its rename or ends; of the temporary files at most its own
\* goes away.
LEMMA RunMoves ==
    ASSUME NEW h \in Host, NEW k \in Slot, NEW r \in Run, BackupInv,
           run' = [run EXCEPT ![h][k] = r],
           r.at \notin {"write", "rename"}, r.stamp <= clock,
           files' \subseteq files,
           \A f \in files \ files' :
             f.tmp => Active(h, k) /\ f.host = h /\ f.stamp = run[h][k].stamp,
           UNCHANGED <<clock, last>>
    PROVE  BackupInv'
  <1>1. BackupTypeOK'
    BY DEF BackupInv, BackupTypeOK
  <1>2. \A g \in Host, j \in Slot :
          run'[g][j] = IF g = h /\ j = k THEN r ELSE run[g][j]
    BY DEF BackupInv, BackupTypeOK
  <1>3. RunsDiffer'
    BY <1>2 DEF BackupInv, RunsDiffer, Active
  <1>4. FilesTold'
    BY DEF BackupInv, FilesTold
  <1>5. ASSUME NEW g \in Host, NEW j \in Slot, Active(g, j)'
        PROVE  Held(g, j)'
    <2>1. run'[g][j] = run[g][j] /\ Active(g, j) /\ (g = h => j # k)
      BY <1>2, <1>5 DEF Active
    <2>2. PICK f \in files :
             /\ f.host = g /\ f.stamp = run[g][j].stamp /\ f.tmp
             /\ run[g][j].at = "rename" => f.whole /\ f.stamp < f.mtime
      BY <2>1 DEF BackupInv, TempsHeld, Held
    <2>3. f \in files'
      BY <2>1, <2>2 DEF BackupInv, RunsDiffer
    <2> QED
      BY <2>1, <2>2, <2>3 DEF Held
  <1>6. \A g \in Host, j \in Slot : run'[g][j].stamp <= clock'
    BY <1>2 DEF BackupInv, TempsHeld
  <1> QED
    BY <1>1, <1>3, <1>4, <1>5, <1>6 DEF BackupInv, TempsHeld

LEMMA IdleIsRun == Idle \in Run /\ Idle.at = "idle" /\ Idle.stamp = 0
  BY DEF Idle, Run

LEMMA BeginKeeps ==
    ASSUME NEW h \in Host, NEW k \in Slot, BackupInv, Begin(h, k)
    PROVE  BackupInv'
  <1> DEFINE r == [at |-> "write", stamp |-> clock, stale |-> {}]
             gone == {f \in files : f.host = h /\ f.stamp = clock /\ f.tmp}
  <1>1. run' = [run EXCEPT ![h][k] = r] /\ UNCHANGED <<clock, last>>
        /\ \A j \in Slot : run[h][j].stamp # clock
    BY DEF Begin
  <1>2. files' = (files \ gone) \cup {Fresh(h)}
    BY DEF Begin
  <1>3. Fresh(h) \in ArchiveFile /\ r \in Run /\ clock \in Nat \ {0}
    BY DEF BackupInv, BackupTypeOK, Fresh, ArchiveFile, Run
  <1>4. BackupTypeOK'
    BY <1>1, <1>2, <1>3 DEF BackupInv, BackupTypeOK
  <1>5. \A g \in Host, j \in Slot :
          run'[g][j] = IF g = h /\ j = k THEN r ELSE run[g][j]
    BY <1>1 DEF BackupInv, BackupTypeOK
  <1>6. RunsDiffer'
    BY <1>1, <1>5 DEF BackupInv, RunsDiffer, Active
  <1>7. \A f \in files \ gone : ~(f.host = h /\ f.stamp = clock)
    <2>1. \A f \in files : ~f.tmp => f.stamp < clock
      <3> TAKE f \in files
      <3>1. f.stamp \in Nat /\ f.mtime \in Nat
        BY DEF BackupInv, BackupTypeOK, ArchiveFile
      <3> QED
        BY <1>3, <3>1 DEF BackupInv, FilesTold
    <2> QED
      BY <2>1, <1>3
  <1>8. FilesTold'
    <2>1. /\ Fresh(h).host = h /\ Fresh(h).stamp = clock /\ Fresh(h).tmp
          /\ Fresh(h).mtime = clock /\ clock >= 1 /\ clock <= clock
      BY <1>3 DEF Fresh
    <2>2. \A f, g \in files' : f.host = g.host /\ f.stamp = g.stamp => f = g
      BY <1>2, <1>7, <2>1 DEF BackupInv, FilesTold
    <2>3. \A f \in files' : /\ f.stamp <= clock /\ f.mtime <= clock /\ f.mtime >= 1
                            /\ ~f.tmp => f.whole /\ f.stamp < f.mtime
      BY <1>2, <2>1 DEF BackupInv, FilesTold
    <2> QED
      BY <1>1, <2>2, <2>3 DEF FilesTold
  <1>9. TempsHeld'
    <2>1. Held(h, k)'
      <3>1. run'[h][k] = r
        BY <1>5
      <3>2. run'[h][k].at = "write" /\ run'[h][k].stamp = clock
        BY <3>1
      <3>3. Fresh(h).host = h /\ Fresh(h).stamp = clock /\ Fresh(h).tmp
        BY DEF Fresh
      <3> QED
        BY <1>2, <3>2, <3>3 DEF Held
    <2>2. ASSUME NEW g \in Host, NEW j \in Slot, ~(g = h /\ j = k)
          PROVE  run'[g][j].stamp <= clock' /\ (Active(g, j)' => Held(g, j)')
      <3>1. run'[g][j] = run[g][j]
        BY <1>5, <2>2
      <3>2. CASE Active(g, j)
        <4>1. PICK f \in files :
                 /\ f.host = g /\ f.stamp = run[g][j].stamp /\ f.tmp
                 /\ run[g][j].at = "rename" => f.whole /\ f.stamp < f.mtime
          BY <3>2 DEF BackupInv, TempsHeld, Held
        <4>2. f \in files'
          BY <1>1, <1>2, <4>1
        <4>3. Held(g, j)'
          BY <3>1, <4>1, <4>2 DEF Held
        <4>4. run'[g][j].stamp <= clock'
          BY <1>1, <3>1 DEF BackupInv, TempsHeld
        <4> QED
          BY <4>3, <4>4
      <3>3. CASE ~Active(g, j)
        BY <1>1, <3>1, <3>3 DEF BackupInv, TempsHeld, Active
      <3> QED
        BY <3>2, <3>3
    <2>3. run'[h][k].stamp <= clock'
      BY <1>1, <1>3, <1>5
    <2> QED
      BY <2>1, <2>2, <2>3 DEF TempsHeld
  <1> QED
    BY <1>4, <1>6, <1>8, <1>9 DEF BackupInv

\* The one file of a run under way.
LEMMA OwnTemp ==
    ASSUME NEW h \in Host, NEW k \in Slot, BackupInv, Active(h, k)
    PROVE  \E f \in files :
             /\ f.host = h /\ f.stamp = run[h][k].stamp /\ f.tmp
             /\ run[h][k].at = "rename" => f.whole /\ f.stamp < f.mtime
             /\ \A g \in files : g.host = h /\ g.stamp = run[h][k].stamp => g = f
             /\ \A g \in Host, j \in Slot :
                  Active(g, j) /\ f.host = g /\ f.stamp = run[g][j].stamp => g = h /\ j = k
  <1>1. PICK f \in files :
           /\ f.host = h /\ f.stamp = run[h][k].stamp /\ f.tmp
           /\ run[h][k].at = "rename" => f.whole /\ f.stamp < f.mtime
    BY DEF BackupInv, TempsHeld, Held
  <1>2. \A g \in files : g.host = h /\ g.stamp = run[h][k].stamp => g = f
    BY <1>1 DEF BackupInv, FilesTold
  <1>3. \A g \in Host, j \in Slot :
          Active(g, j) /\ f.host = g /\ f.stamp = run[g][j].stamp => g = h /\ j = k
    BY <1>1 DEF BackupInv, RunsDiffer
  <1> QED
    BY <1>1, <1>2, <1>3

\* A write ends: the run's own file is whole, and no other file changes.
LEMMA WrittenKeeps ==
    ASSUME NEW h \in Host, NEW k \in Slot, BackupInv, Written(h, k)
    PROVE  BackupInv' /\ Archive' = Archive
  <1> DEFINE r == run[h][k]
  <1>0. r \in Run /\ r.at = "write" /\ clock # r.stamp /\ Active(h, k)
        /\ UNCHANGED <<clock, last>>
    BY DEF BackupInv, BackupTypeOK, Written, Active
  <1>1. PICK t \in files :
             /\ t.host = h /\ t.stamp = r.stamp /\ t.tmp
             /\ \A g \in files : g.host = h /\ g.stamp = r.stamp => g = t
             /\ \A g \in Host, j \in Slot :
                  Active(g, j) /\ t.host = g /\ t.stamp = run[g][j].stamp => g = h /\ j = k
    BY <1>0, OwnTemp
  <1> DEFINE done == [t EXCEPT !.mtime = clock, !.whole = TRUE]
             r2   == [r EXCEPT !.at = "rename"]
  <1>2. files' = (files \ {t}) \cup {done}
    <2>1. files' = {IF f.host = h /\ f.stamp = r.stamp THEN [f EXCEPT !.mtime = clock, !.whole = TRUE]
                                                        ELSE f : f \in files}
      BY DEF Written
    <2>2. \A f \in files : f.host = h /\ f.stamp = r.stamp <=> f = t
      BY <1>1
    <2> QED
      BY <2>1, <2>2
  <1>3. t \in ArchiveFile /\ clock \in Nat \ {0}
    BY DEF BackupInv, BackupTypeOK
  <1>4. /\ done \in ArchiveFile /\ done.host = t.host /\ done.stamp = t.stamp
        /\ done.tmp = t.tmp /\ done.mtime = clock /\ done.whole = TRUE
    BY <1>3 DEF ArchiveFile
  <1>5. r2 \in Run /\ r2.at = "rename" /\ r2.stamp = r.stamp /\ r2.stale = r.stale
    BY <1>0 DEF Run
  <1>6. \A g \in Host, j \in Slot :
          run'[g][j] = IF g = h /\ j = k THEN r2 ELSE run[g][j]
    BY DEF BackupInv, BackupTypeOK, Written
  <1>7. BackupTypeOK'
    <2>1. run' \in [Host -> [Slot -> Run]]
      BY <1>5 DEF BackupInv, BackupTypeOK, Written
    <2> QED
      BY <1>0, <1>2, <1>4, <2>1 DEF BackupInv, BackupTypeOK
  <1> HIDE DEF done, r2, r
  <1>8. RunsDiffer'
    BY <1>0, <1>5, <1>6 DEF BackupInv, RunsDiffer, Active, r
  <1>9. FilesTold'
    <2>1. done.stamp <= clock /\ done.mtime <= clock /\ done.mtime >= 1
      BY <1>1, <1>3, <1>4 DEF BackupInv, FilesTold
    <2>2. \A f \in files' : /\ f.stamp <= clock /\ f.mtime <= clock /\ f.mtime >= 1
                            /\ ~f.tmp => f.whole /\ f.stamp < f.mtime
      BY <1>1, <1>2, <1>4, <2>1 DEF BackupInv, FilesTold
    <2>3. \A f, g \in files' : f.host = g.host /\ f.stamp = g.stamp => f = g
      BY <1>1, <1>2, <1>4 DEF BackupInv, FilesTold
    <2> QED
      BY <1>0, <2>2, <2>3 DEF FilesTold
  <1>10. TempsHeld'
    <2>1. Held(h, k)'
      <3>1. done.stamp < done.mtime
        BY <1>0, <1>1, <1>3, <1>4 DEF BackupInv, FilesTold, ArchiveFile, r
      <3> QED
        BY <1>1, <1>2, <1>4, <1>5, <1>6, <3>1 DEF Held
    <2>2. ASSUME NEW g \in Host, NEW j \in Slot, ~(g = h /\ j = k)
          PROVE  run'[g][j].stamp <= clock' /\ (Active(g, j)' => Held(g, j)')
      <3>1. run'[g][j] = run[g][j]
        BY <1>6, <2>2
      <3>2. CASE Active(g, j)
        <4>1. PICK f \in files :
                 /\ f.host = g /\ f.stamp = run[g][j].stamp /\ f.tmp
                 /\ run[g][j].at = "rename" => f.whole /\ f.stamp < f.mtime
          BY <3>2 DEF BackupInv, TempsHeld, Held
        <4>2. f \in files'
          BY <1>1, <1>2, <2>2, <3>2, <4>1
        <4>3. Held(g, j)'
          BY <3>1, <4>1, <4>2 DEF Held
        <4> QED
          BY <1>0, <3>1, <4>3 DEF BackupInv, TempsHeld
      <3>3. CASE ~Active(g, j)
        BY <1>0, <3>1, <3>3 DEF BackupInv, TempsHeld, Active
      <3> QED
        BY <3>2, <3>3
    <2>3. run'[h][k].stamp <= clock'
      BY <1>0, <1>5, <1>6 DEF BackupInv, TempsHeld, r
    <2> QED
      BY <2>1, <2>2, <2>3 DEF TempsHeld
  <1>11. Archive' = Archive
    BY <1>1, <1>2, <1>4 DEF Archive
  <1> QED
    BY <1>7, <1>8, <1>9, <1>10, <1>11 DEF BackupInv

\* A rename makes the run's own file an archive, whole as it is.
LEMMA RenameKeeps ==
    ASSUME NEW h \in Host, NEW k \in Slot, BackupInv,
           run[h][k].at = "rename", NEW f \in files,
           f.host = h, f.stamp = run[h][k].stamp,
           files' = (files \ {f}) \cup {[f EXCEPT !.tmp = FALSE]},
           last' \in [Host -> Nat],
           run' = [run EXCEPT ![h][k].at = "prune"], UNCHANGED clock
    PROVE  /\ BackupInv'
           /\ f.tmp /\ Archive' = Archive \cup {[f EXCEPT !.tmp = FALSE]}
  <1> DEFINE r == run[h][k]
             named == [f EXCEPT !.tmp = FALSE]
             r2   == [r EXCEPT !.at = "prune"]
  <1>0. r \in Run /\ Active(h, k)
    BY DEF BackupInv, BackupTypeOK, Active
  <1>1. PICK t \in files :
             /\ t.host = h /\ t.stamp = run[h][k].stamp /\ t.tmp
             /\ run[h][k].at = "rename" => t.whole /\ t.stamp < t.mtime
             /\ \A g \in files : g.host = h /\ g.stamp = run[h][k].stamp => g = t
             /\ \A g \in Host, j \in Slot :
                  Active(g, j) /\ t.host = g /\ t.stamp = run[g][j].stamp => g = h /\ j = k
    BY <1>0, OwnTemp
  <1>2. f = t /\ f \in ArchiveFile
    BY <1>1 DEF BackupInv, BackupTypeOK
  <1>3. /\ f.tmp /\ f.whole /\ f.stamp < f.mtime
        /\ \A g \in Host, j \in Slot :
             Active(g, j) /\ f.host = g /\ f.stamp = run[g][j].stamp => g = h /\ j = k
    BY <1>1, <1>2
  <1>4. /\ named \in ArchiveFile /\ named.host = f.host /\ named.stamp = f.stamp
        /\ named.tmp = FALSE /\ named.mtime = f.mtime /\ named.whole = f.whole
    BY <1>2 DEF ArchiveFile
  <1>5. r2 \in Run /\ r2.at = "prune" /\ r2.stamp = r.stamp
    BY <1>0 DEF Run
  <1>6. \A g \in Host, j \in Slot :
          run'[g][j] = IF g = h /\ j = k THEN r2 ELSE run[g][j]
    BY DEF BackupInv, BackupTypeOK
  <1>7. BackupTypeOK'
    <2>1. run' \in [Host -> [Slot -> Run]]
      BY <1>5 DEF BackupInv, BackupTypeOK
    <2> QED
      BY <1>4, <2>1 DEF BackupInv, BackupTypeOK
  <1> HIDE DEF named, r2, r
  <1>f. files' = (files \ {f}) \cup {named}
    BY DEF named
  <1>8. RunsDiffer'
    BY <1>5, <1>6 DEF BackupInv, RunsDiffer, Active
  <1>9. FilesTold'
    <2>2. \A g \in files' : /\ g.stamp <= clock /\ g.mtime <= clock /\ g.mtime >= 1
                            /\ ~g.tmp => g.whole /\ g.stamp < g.mtime
      BY <1>3, <1>4, <1>f DEF BackupInv, FilesTold
    <2>3. \A e, g \in files' : e.host = g.host /\ e.stamp = g.stamp => e = g
      BY <1>4, <1>f DEF BackupInv, FilesTold
    <2> QED
      BY <2>2, <2>3 DEF FilesTold
  <1>10. TempsHeld'
    <2>2. ASSUME NEW g \in Host, NEW j \in Slot, ~(g = h /\ j = k)
          PROVE  run'[g][j].stamp <= clock' /\ (Active(g, j)' => Held(g, j)')
      <3>1. run'[g][j] = run[g][j]
        BY <1>6, <2>2
      <3>2. CASE Active(g, j)
        <4>1. PICK e \in files :
                 /\ e.host = g /\ e.stamp = run[g][j].stamp /\ e.tmp
                 /\ run[g][j].at = "rename" => e.whole /\ e.stamp < e.mtime
          BY <3>2 DEF BackupInv, TempsHeld, Held
        <4>2. e \in files'
          BY <1>3, <1>f, <2>2, <3>2, <4>1
        <4>3. Held(g, j)'
          BY <3>1, <4>1, <4>2 DEF Held
        <4> QED
          BY <3>1, <4>3 DEF BackupInv, TempsHeld
      <3>3. CASE ~Active(g, j)
        BY <3>1, <3>3 DEF BackupInv, TempsHeld, Active
      <3> QED
        BY <3>2, <3>3
    <2>3. run'[h][k].stamp <= clock' /\ ~Active(h, k)'
      BY <1>5, <1>6 DEF BackupInv, TempsHeld, r, Active
    <2> QED
      BY <2>2, <2>3 DEF TempsHeld
  <1>11. Archive' = Archive \cup {named}
    BY <1>3, <1>4, <1>f DEF Archive
  <1> QED
    BY <1>3, <1>7, <1>8, <1>9, <1>10, <1>11 DEF BackupInv, named

\* The steps of a run after its rename, and its ends, leave every temporary
\* file but its own alone.
LEMMA RunEnds ==
    ASSUME NEW h \in Host, NEW k \in Slot, BackupInv,
           run' = [run EXCEPT ![h][k] = Idle],
           files' \subseteq files,
           \A f \in files \ files' :
             f.tmp => Active(h, k) /\ f.host = h /\ f.stamp = run[h][k].stamp,
           UNCHANGED <<clock, last>>
    PROVE  BackupInv'
  <1>1. Idle.stamp <= clock
    BY IdleIsRun DEF BackupInv, BackupTypeOK
  <1> QED
    BY <1>1, IdleIsRun, RunMoves

LEMMA UnwrittenKeeps ==
    ASSUME NEW h \in Host, NEW k \in Slot, BackupInv, Unwritten(h, k)
    PROVE  BackupInv' /\ Archive' = Archive
  <1>1. /\ files' = {f \in files : ~(f.host = h /\ f.stamp = run[h][k].stamp /\ f.tmp)}
        /\ run' = [run EXCEPT ![h][k] = Idle]
        /\ Active(h, k) /\ UNCHANGED <<clock, last>>
    BY DEF Unwritten, Active
  <1> QED
    BY <1>1, RunEnds DEF Archive

\* What a prune step may do to the files: delete one that its list names.
LEMMA ListKeeps ==
    ASSUME NEW h \in Host, NEW k \in Slot, BackupInv, List(h, k)
    PROVE  BackupInv'
  <1>1. UNCHANGED <<files, clock, last>> /\ run[h][k] \in Run
    BY DEF List, BackupInv, BackupTypeOK
  <1>2. CASE run' = [run EXCEPT ![h][k] = Idle]
    BY <1>1, <1>2, RunEnds
  <1>3. ASSUME NEW stale, stale = Stales(Candidates(h)),
               run' = [run EXCEPT ![h][k] = [@ EXCEPT !.at = "delete", !.stale = stale]]
        PROVE BackupInv'
    <2> DEFINE r == [run[h][k] EXCEPT !.at = "delete", !.stale = stale]
    <2>1. stale \subseteq {f \in ArchiveFile : ~f.tmp}
      BY <1>3 DEF Stales, Candidates, BackupInv, BackupTypeOK
    <2>2. r \in Run /\ r.at = "delete" /\ r.stamp = run[h][k].stamp
      BY <1>1, <2>1 DEF Run
    <2>3. run' = [run EXCEPT ![h][k] = r]
      BY <1>3 DEF BackupInv, BackupTypeOK
    <2>4. r.stamp <= clock
      BY <2>2 DEF BackupInv, TempsHeld
    <2> HIDE DEF r
    <2> QED
      BY <1>1, <2>2, <2>3, <2>4, RunMoves
  <1> QED
    BY <1>2, <1>3 DEF List

LEMMA DeleteKeeps ==
    ASSUME NEW h \in Host, NEW k \in Slot, BackupInv, Delete(h, k)
    PROVE  BackupInv'
  <1>1. PICK f \in run[h][k].stale :
           /\ files' = files \ {f} \/ files' = files
           /\ run' = [run EXCEPT ![h][k] = IF run[h][k].stale = {f} THEN Idle
                                           ELSE [run[h][k] EXCEPT !.stale = @ \ {f}]]
           /\ UNCHANGED <<clock, last>>
    BY DEF Delete
  <1>2. run[h][k] \in Run /\ run[h][k].at = "delete"
    BY DEF BackupInv, BackupTypeOK, Delete
  <1>3. ~f.tmp
    BY <1>2 DEF Run
  <1>4. CASE run[h][k].stale = {f}
    <2>1. run' = [run EXCEPT ![h][k] = Idle]
      BY <1>1, <1>4
    <2> QED
      BY <1>1, <1>3, <2>1, RunEnds
  <1>5. CASE run[h][k].stale # {f}
    <2> DEFINE r == [run[h][k] EXCEPT !.stale = @ \ {f}]
    <2>1. r \in Run /\ r.at = "delete" /\ r.stamp = run[h][k].stamp
      BY <1>2 DEF Run
    <2>2. run' = [run EXCEPT ![h][k] = r]
      BY <1>1, <1>5
    <2>3. r.stamp <= clock
      BY <2>1 DEF BackupInv, TempsHeld
    <2> HIDE DEF r
    <2> QED
      BY <1>1, <1>3, <2>1, <2>2, <2>3, RunMoves
  <1> QED
    BY <1>4, <1>5

LEMMA TimeKeeps == ASSUME BackupInv, Time PROVE BackupInv'
  <1>1. clock' = clock + 1 /\ UNCHANGED <<files, run, last>>
    BY DEF Time
  <1>2. clock \in Nat /\ clock' \in Nat \ {0}
    BY <1>1 DEF BackupInv, BackupTypeOK
  <1>3. BackupTypeOK' /\ RunsDiffer'
    BY <1>1, <1>2 DEF BackupInv, BackupTypeOK, RunsDiffer, Active
  <1>4. FilesTold'
    <2>1. \A f \in files : f.stamp \in Nat /\ f.mtime \in Nat
      BY DEF BackupInv, BackupTypeOK, ArchiveFile
    <2> QED
      BY <1>1, <1>2, <2>1 DEF BackupInv, FilesTold
  <1>5. TempsHeld'
    <2>1. \A h \in Host, k \in Slot : run[h][k].stamp \in Nat
      BY DEF BackupInv, BackupTypeOK, Run
    <2> QED
      BY <1>1, <1>2, <2>1 DEF BackupInv, TempsHeld, Active, Held
  <1> QED
    BY <1>3, <1>4, <1>5 DEF BackupInv

LEMMA RenamedKeeps ==
    ASSUME NEW h \in Host, NEW k \in Slot, BackupInv, Rename(h, k)
    PROVE  BackupInv'
  <1>1. CASE run' = [run EXCEPT ![h][k] = Idle] /\ UNCHANGED <<files, last, clock>>
    BY <1>1, RunEnds
  <1>2. ASSUME NEW f \in files, f.host = h, f.stamp = run[h][k].stamp,
               files' = (files \ {f}) \cup {[f EXCEPT !.tmp = FALSE]},
               last' = [last EXCEPT ![h] = IF f.mtime > @ THEN f.mtime ELSE @],
               run' = [run EXCEPT ![h][k].at = "prune"], UNCHANGED clock
        PROVE BackupInv'
    <2>1. last' \in [Host -> Nat]
      BY <1>2 DEF BackupInv, BackupTypeOK, ArchiveFile
    <2>2. run[h][k].at = "rename"
      BY DEF Rename
    <2> QED
      BY <1>2, <2>1, <2>2, RenameKeeps
  <1> QED
    BY <1>1, <1>2 DEF Rename

LEMMA BackupStep == ASSUME BackupInv, [BackupNext]_backupVars PROVE BackupInv'
  <1>1. ASSUME NEW h \in Host, NEW k \in Slot, Backup(h, k) PROVE BackupInv'
    BY <1>1, BeginKeeps, WrittenKeeps, UnwrittenKeeps, RenamedKeeps, ListKeeps, DeleteKeeps
       DEF Backup
  <1>2. ASSUME NEW h \in Host, NEW k \in Slot, Killed(h, k) PROVE BackupInv'
    BY <1>2, RunEnds DEF Killed
  <1>3. ASSUME UNCHANGED <<files, clock, run, last>> PROVE BackupInv'
    BY <1>3 DEF BackupInv, BackupTypeOK, RunsDiffer, FilesTold, TempsHeld, Active, Held
  <1>4. ASSUME NEW h \in Host, Pick(h) \/ Restored(h) PROVE BackupInv'
    BY <1>3, <1>4 DEF Pick, Restored
  <1>5. CASE UNCHANGED backupVars
    BY <1>3, <1>5 DEF backupVars
  <1> QED
    BY <1>1, <1>2, <1>4, <1>5, TimeKeeps DEF BackupNext

\* Whoever is killed where, whatever the hosts' names: what looks like a
\* backup is a complete one.
THEOREM BackupsAreWhole == BackupSpec => []NeverHalf
  <1>1. BackupInv => NeverHalf
    BY DEF BackupInv, FilesTold, NeverHalf
  <1> QED
    BY <1>1, BackupStart, BackupStep, PTL DEF BackupSpec

-----------------------------------------------------------------------------
(* Which archives survive, when no host's name extends another's.          *)

\* What a run is about to delete is older than some archive of its host that
\* is there: if that one goes, it was older than a third.
StaleBeaten ==
    \A h \in Host, k \in Slot : \A s \in run[h][k].stale :
      s.host = h /\ \E w \in Archive : w.host = h /\ Before(w, s)

\* Every archive counts in its host's last[].
LastCounts == \A f \in Archive : f.mtime <= last[f.host]

KeepInv ==
    /\ BackupInv /\ StaleBeaten /\ LastCounts /\ KeepsNewest
    /\ \A h \in Host, k \in Slot : run[h][k].at # "idle" => Keep >= 1

LEMMA KeepStart == BackupInit => KeepInv
  <1> SUFFICES ASSUME BackupInit PROVE KeepInv
    OBVIOUS
  <1>1. \A h \in Host, k \in Slot : run[h][k] = Idle
    BY DEF BackupInit
  <1> QED
    BY <1>1, BackupStart
       DEF BackupInit, KeepInv, StaleBeaten, LastCounts, KeepsNewest, Archive, Idle

\* The order of a prune is a strict one.
LEMMA BeforeOrder ==
    ASSUME NEW e \in ArchiveFile, NEW f \in ArchiveFile, NEW g \in ArchiveFile
    PROVE  ~Before(f, f) /\ (Before(e, f) /\ Before(f, g) => Before(e, g))
           /\ (Before(e, f) => e.mtime >= f.mtime)
  BY DEF Before, ArchiveFile

\* Steps that make no archive, delete none and list none.
LEMMA KeepSame ==
    ASSUME KeepInv, BackupInv', Archive' = Archive, last' = last,
           \A h \in Host, k \in Slot :
             /\ run'[h][k].stale \subseteq run[h][k].stale
             /\ run'[h][k].at # "idle" => Keep >= 1
    PROVE  KeepInv'
  <1>1. StaleBeaten'
    <2> SUFFICES ASSUME NEW h \in Host, NEW k \in Slot, NEW s \in run'[h][k].stale
                 PROVE  s.host = h /\ \E w \in Archive' : w.host = h /\ Before(w, s)
      BY DEF StaleBeaten, Before
    <2>1. s \in run[h][k].stale
      OBVIOUS
    <2> QED
      BY <2>1 DEF KeepInv, StaleBeaten
  <1>2. LastCounts'
    BY DEF KeepInv, LastCounts
  <1>3. KeepsNewest'
    BY DEF KeepInv, KeepsNewest, Archive
  <1> QED
    BY <1>1, <1>2, <1>3 DEF KeepInv

\* The files a prune lists are those of its host.
LEMMA OwnCandidates ==
    ASSUME Extends = {}, NEW h \in Host
    PROVE  Candidates(h) = {f \in Archive : f.host = h}
  BY DEF Candidates, Archive

\* With BACKUP_KEEP at least one, what is stale comes after something.
LEMMA StaleIsBehind ==
    ASSUME Keep \in Nat, Keep >= 1, NEW cands, NEW s \in Stales(cands)
    PROVE  \E w \in cands : Before(w, s)
  <1>1. Cardinality({g \in cands : Before(g, s)}) >= Keep
    BY DEF Stales
  <1>2. {g \in cands : Before(g, s)} # {}
    BY <1>1, FS_EmptySet
  <1> QED
    BY <1>2

LEMMA KeepDelete ==
    ASSUME NEW h \in Host, NEW k \in Slot, KeepInv, BackupInv',
           NEW f \in run[h][k].stale, files' = files \ {f}, last' = last,
           \A g \in Host, j \in Slot :
             /\ run'[g][j].stale \subseteq run[g][j].stale
             /\ run'[g][j].at # "idle" => Keep >= 1
    PROVE  KeepInv'
  <1>1. Archive' = Archive \ {f} /\ Archive \subseteq ArchiveFile
        /\ f \in ArchiveFile
    BY DEF Archive, KeepInv, BackupInv, BackupTypeOK, Run
  <1>2. f.host = h /\ \E w \in Archive : w.host = h /\ Before(w, f)
    BY DEF KeepInv, StaleBeaten
  <1>3. PICK v \in Archive : v.host = h /\ Before(v, f)
    BY <1>2
  <1>4. v # f /\ v \in Archive' /\ v.mtime >= f.mtime
    BY <1>1, <1>3, BeforeOrder
  <1>5. StaleBeaten'
    <2> SUFFICES ASSUME NEW g \in Host, NEW j \in Slot, NEW s \in run'[g][j].stale
                 PROVE  s.host = g /\ \E w \in Archive' : w.host = g /\ Before(w, s)
      BY DEF StaleBeaten, Before
    <2>1. s \in run[g][j].stale /\ s \in ArchiveFile
      BY DEF KeepInv, BackupInv, BackupTypeOK, Run
    <2>2. PICK w \in Archive : w.host = g /\ Before(w, s)
      BY <2>1 DEF KeepInv, StaleBeaten
    <2>3. s.host = g
      BY <2>1 DEF KeepInv, StaleBeaten
    <2>4. CASE w # f
      BY <1>1, <2>2, <2>3, <2>4
    <2>5. CASE w = f
      <3>1. Before(v, s)
        BY <1>1, <1>3, <2>1, <2>2, <2>5, BeforeOrder
      <3> QED
        BY <1>2, <1>3, <1>4, <2>2, <2>3, <2>5, <3>1
    <2> QED
      BY <2>4, <2>5
  <1>6. LastCounts'
    BY <1>1 DEF KeepInv, LastCounts
  <1>7. KeepsNewest'
    <2> SUFFICES ASSUME NEW g \in Host, last'[g] # 0
                 PROVE  \E e \in Archive' : e.host = g /\ e.mtime = last'[g]
      BY DEF KeepsNewest, Archive
    <2>1. PICK e \in Archive : e.host = g /\ e.mtime = last[g]
      BY DEF KeepInv, KeepsNewest, Archive
    <2>2. CASE e # f
      BY <1>1, <2>1, <2>2
    <2>3. CASE e = f
      <3>1. g = h /\ v.mtime <= last[h] /\ v.mtime >= last[h]
        BY <1>2, <1>3, <1>4, <2>1, <2>3 DEF KeepInv, LastCounts
      <3>2. v.mtime \in Nat /\ last[h] \in Nat
        BY <1>1 DEF KeepInv, BackupInv, BackupTypeOK, ArchiveFile
      <3> QED
        BY <1>3, <1>4, <3>1, <3>2
    <2> QED
      BY <2>2, <2>3
  <1> QED
    BY <1>5, <1>6, <1>7 DEF KeepInv

LEMMA KeepRename ==
    ASSUME NEW h \in Host, NEW k \in Slot, KeepInv, BackupInv',
           run[h][k].at = "rename", NEW f \in files,
           f.host = h, f.stamp = run[h][k].stamp,
           files' = (files \ {f}) \cup {[f EXCEPT !.tmp = FALSE]},
           last' = [last EXCEPT ![h] = IF f.mtime > @ THEN f.mtime ELSE @],
           run' = [run EXCEPT ![h][k].at = "prune"], UNCHANGED clock
    PROVE  KeepInv'
  <1> DEFINE named == [f EXCEPT !.tmp = FALSE]
  <1>0. last \in [Host -> Nat] /\ f \in ArchiveFile
    BY DEF KeepInv, BackupInv, BackupTypeOK
  <1>1. last' \in [Host -> Nat]
    BY <1>0 DEF ArchiveFile
  <1>2. Archive' = Archive \cup {named}
    BY <1>1, RenameKeeps DEF KeepInv
  <1>3. named.host = h /\ named.mtime = f.mtime /\ f.mtime \in Nat
    BY <1>0 DEF ArchiveFile
  <1>4. /\ last'[h] >= last[h] /\ last'[h] >= f.mtime
        /\ last'[h] = last[h] \/ last'[h] = f.mtime
        /\ \A g \in Host \ {h} : last'[g] = last[g]
    BY <1>0, <1>3
  <1> HIDE DEF named
  <1>5. StaleBeaten'
    <2> SUFFICES ASSUME NEW g \in Host, NEW j \in Slot, NEW s \in run'[g][j].stale
                 PROVE  s.host = g /\ \E w \in Archive' : w.host = g /\ Before(w, s)
      BY DEF StaleBeaten, Before
    <2>1. s \in run[g][j].stale
      BY DEF KeepInv, BackupInv, BackupTypeOK, Run
    <2> QED
      BY <1>2, <2>1 DEF KeepInv, StaleBeaten
  <1>6. LastCounts'
    <2> SUFFICES ASSUME NEW e \in Archive' PROVE e.mtime <= last'[e.host]
      BY DEF LastCounts
    <2>1. CASE e = named
      BY <1>3, <1>4, <2>1
    <2>2. CASE e \in Archive
      <3>1. e.mtime \in Nat /\ e.host \in Host /\ last[e.host] \in Nat
            /\ last'[e.host] \in Nat
        BY <1>0, <1>1, <2>2 DEF KeepInv, BackupInv, BackupTypeOK, ArchiveFile, Archive
      <3>2. e.mtime <= last[e.host]
        BY <2>2 DEF KeepInv, LastCounts
      <3> QED
        BY <1>4, <3>1, <3>2
    <2> QED
      BY <1>2, <2>1, <2>2
  <1>7. KeepsNewest'
    <2> SUFFICES ASSUME NEW g \in Host, last'[g] # 0
                 PROVE  \E e \in Archive' : e.host = g /\ e.mtime = last'[g]
      BY DEF KeepsNewest, Archive
    <2>1. CASE g = h /\ last'[h] = f.mtime
      BY <1>2, <1>3, <2>1
    <2>2. CASE last'[g] = last[g]
      BY <1>2, <2>2 DEF KeepInv, KeepsNewest, Archive
    <2> QED
      BY <1>4, <2>1, <2>2
  <1>8. ASSUME NEW g \in Host, NEW j \in Slot, run'[g][j].at # "idle"
        PROVE  Keep >= 1
    <2>1. run[g][j].at # "idle"
      BY <1>8 DEF KeepInv, BackupInv, BackupTypeOK
    <2> QED
      BY <2>1 DEF KeepInv
  <1> QED
    BY <1>5, <1>6, <1>7, <1>8 DEF KeepInv

LEMMA KeepList ==
    ASSUME Extends = {}, NEW h \in Host, NEW k \in Slot, KeepInv, BackupInv',
           NEW stale, stale = Stales(Candidates(h)), run[h][k].at = "prune",
           run' = [run EXCEPT ![h][k] = [@ EXCEPT !.at = "delete", !.stale = stale]],
           UNCHANGED <<files, last>>
    PROVE  KeepInv'
  <1>1. Archive' = Archive
    BY DEF Archive
  <1>2. Keep >= 1 /\ Keep \in Nat
    BY BackupConstants DEF KeepInv, BackupConstants
  <1>3. \A s \in stale : s.host = h /\ \E w \in Archive : w.host = h /\ Before(w, s)
    <2> TAKE s \in stale
    <2>1. s \in Candidates(h)
      BY DEF Stales
    <2>2. \E w \in Candidates(h) : Before(w, s)
      BY <1>2, StaleIsBehind
    <2> QED
      BY <2>1, <2>2, OwnCandidates
  <1>4. ASSUME NEW g \in Host, NEW j \in Slot
        PROVE  run'[g][j].stale = IF g = h /\ j = k THEN stale ELSE run[g][j].stale
    BY DEF KeepInv, BackupInv, BackupTypeOK, Run
  <1>5. StaleBeaten'
    <2> SUFFICES ASSUME NEW g \in Host, NEW j \in Slot, NEW s \in run'[g][j].stale
                 PROVE  s.host = g /\ \E w \in Archive' : w.host = g /\ Before(w, s)
      BY DEF StaleBeaten, Before
    <2> QED
      BY <1>1, <1>3, <1>4 DEF KeepInv, StaleBeaten
  <1>6. LastCounts' /\ KeepsNewest'
    BY <1>1 DEF KeepInv, LastCounts, KeepsNewest
  <1> QED
    BY <1>2, <1>5, <1>6 DEF KeepInv

\* A run that ends has no list any more.
LEMMA KeepIdle ==
    ASSUME NEW h \in Host, NEW k \in Slot, KeepInv, BackupInv',
           run' = [run EXCEPT ![h][k] = Idle], Archive' = Archive, last' = last
    PROVE  KeepInv'
  <1>1. \A g \in Host, j \in Slot :
          run'[g][j] = IF g = h /\ j = k THEN Idle ELSE run[g][j]
    BY DEF KeepInv, BackupInv, BackupTypeOK
  <1>2. \A g \in Host, j \in Slot :
          /\ run'[g][j].stale \subseteq run[g][j].stale
          /\ run'[g][j].at # "idle" => Keep >= 1
    BY <1>1 DEF Idle, KeepInv
  <1> QED
    BY <1>2, KeepSame

LEMMA KeepBackup ==
    ASSUME Extends = {}, KeepInv, BackupInv', NEW h \in Host, NEW k \in Slot, Backup(h, k)
    PROVE  KeepInv'
  <1>1. CASE Begin(h, k)
    <2>1. Archive' = Archive /\ last' = last
      BY <1>1 DEF Begin, Archive, Fresh
    <2>2. \A g \in Host, j \in Slot :
            run'[g][j] = IF g = h /\ j = k
                         THEN [at |-> "write", stamp |-> clock, stale |-> {}]
                         ELSE run[g][j]
      BY <1>1 DEF Begin, KeepInv, BackupInv, BackupTypeOK
    <2>3. Keep >= 1
      BY <1>1 DEF Begin
    <2>4. \A g \in Host, j \in Slot :
            /\ run'[g][j].stale \subseteq run[g][j].stale
            /\ run'[g][j].at # "idle" => Keep >= 1
      BY <2>2, <2>3
    <2> QED
      BY <2>1, <2>4, KeepSame
  <1>2. CASE Written(h, k)
    <2>1. Archive' = Archive /\ last' = last
      BY <1>2, WrittenKeeps DEF KeepInv, Written
    <2>2. \A g \in Host, j \in Slot :
            run'[g][j].stale = run[g][j].stale /\ (run'[g][j].at # "idle" => run[g][j].at # "idle")
      <3>1. run' = [run EXCEPT ![h][k].at = "rename"] /\ run[h][k].at = "write"
        BY <1>2 DEF Written
      <3> QED
        BY <3>1 DEF KeepInv, BackupInv, BackupTypeOK, Run
    <2> QED
      BY <2>1, <2>2, KeepSame DEF KeepInv
  <1>3. CASE Unwritten(h, k)
    BY <1>3, UnwrittenKeeps, KeepIdle DEF KeepInv, Unwritten
  <1>4. CASE Rename(h, k)
    <2>1. CASE run' = [run EXCEPT ![h][k] = Idle] /\ UNCHANGED <<files, last>>
      BY <2>1, KeepIdle DEF Archive
    <2> QED
      BY <1>4, <2>1, KeepRename DEF Rename
  <1>5. CASE List(h, k)
    <2>1. CASE run' = [run EXCEPT ![h][k] = Idle]
      BY <1>5, <2>1, KeepIdle DEF List, Archive
    <2> QED
      BY <1>5, <2>1, KeepList DEF List
  <1>6. CASE Delete(h, k)
    <2>1. PICK f \in run[h][k].stale :
             /\ files' = files \ {f} \/ files' = files
             /\ run' = [run EXCEPT ![h][k] = IF run[h][k].stale = {f} THEN Idle
                                             ELSE [run[h][k] EXCEPT !.stale = @ \ {f}]]
             /\ last' = last
      BY <1>6 DEF Delete
    <2>2. run[h][k] \in Run
      BY DEF KeepInv, BackupInv, BackupTypeOK
    <2>3. \A g \in Host, j \in Slot :
            /\ run'[g][j].stale \subseteq run[g][j].stale
            /\ run'[g][j].at # "idle" => run[g][j].at # "idle"
      BY <2>1, <2>2 DEF KeepInv, BackupInv, BackupTypeOK, Run, Idle
    <2>4. \A g \in Host, j \in Slot : run'[g][j].at # "idle" => Keep >= 1
      BY <2>3 DEF KeepInv
    <2>5. CASE files' = files
      BY <2>1, <2>3, <2>4, <2>5, KeepSame DEF Archive
    <2>6. CASE files' = files \ {f}
      BY <2>1, <2>3, <2>4, <2>6, KeepDelete
    <2> QED
      BY <2>1, <2>5, <2>6
  <1> QED
    BY <1>1, <1>2, <1>3, <1>4, <1>5, <1>6 DEF Backup

LEMMA KeepStep ==
    ASSUME Extends = {}, KeepInv, [BackupNext]_backupVars PROVE KeepInv'
  <1>0. BackupInv'
    BY BackupStep DEF KeepInv
  <1>1. ASSUME NEW h \in Host, NEW k \in Slot, Backup(h, k) PROVE KeepInv'
    BY <1>0, <1>1, KeepBackup
  <1>2. ASSUME NEW h \in Host, NEW k \in Slot, Killed(h, k) PROVE KeepInv'
    BY <1>0, <1>2, KeepIdle DEF Killed, Archive
  <1>3. ASSUME UNCHANGED <<files, run, last>> PROVE KeepInv'
    BY <1>0, <1>3, KeepSame DEF KeepInv, Archive
  <1>4. ASSUME NEW h \in Host, Pick(h) \/ Restored(h) PROVE KeepInv'
    BY <1>3, <1>4 DEF Pick, Restored
  <1>5. CASE Time \/ UNCHANGED backupVars
    BY <1>3, <1>5 DEF Time, backupVars
  <1> QED
    BY <1>1, <1>2, <1>4, <1>5 DEF BackupNext

\* Where no host's name extends another's, the newest archive that a host
\* completed survives every prune, its own and the others', overlapping or
\* cut short.
THEOREM NewestIsKept ==
    ASSUME Extends = {} PROVE BackupSpec => []KeepsNewest
  <1>1. KeepInv => KeepsNewest
    BY DEF KeepInv
  <1> QED
    BY <1>1, KeepStart, KeepStep, PTL DEF BackupSpec

\* Every host restores for itself.
Readers == DOMAIN reading = Host

\* Only a restore looks for an archive.
LEMMA BackupsReadNothing ==
    ASSUME NEW h \in Host, NEW k \in Slot, Backup(h, k) \/ Killed(h, k)
    PROVE  UNCHANGED reading
  BY DEF Backup, Begin, Written, Unwritten, Rename, List, Delete, Killed

LEMMA ReadersStep == ASSUME Readers, [BackupNext]_backupVars PROVE Readers'
  <1>1. ASSUME NEW h \in Host, Pick(h) \/ Restored(h) PROVE Readers'
    BY <1>1 DEF Pick, Restored, Readers
  <1>2. CASE UNCHANGED reading
    BY <1>2 DEF Readers
  <1>3. CASE Time \/ UNCHANGED backupVars
    BY <1>2, <1>3 DEF Time, backupVars
  <1> QED
    BY <1>1, <1>2, <1>3, BackupsReadNothing DEF BackupNext

\* A restore takes that one, whole, and nobody else's.
THEOREM RestoreTakesNewest ==
    ASSUME Extends = {} PROVE BackupSpec => RestoresNewest
  <1>1. ASSUME KeepInv, Readers, [BackupNext]_backupVars, NEW h \in Host,
               reading[h] = None, reading'[h] # None
        PROVE  reading'[h].host = h /\ reading'[h].mtime = last[h] /\ reading'[h].whole
    <2>1. PICK g \in Host : Pick(g) \/ Restored(g)
      <3>1. reading' # reading
        BY <1>1
      <3>2. ~Time /\ ~UNCHANGED backupVars
        BY <3>1 DEF Time, backupVars
      <3> QED
        BY <1>1, <3>1, <3>2, BackupsReadNothing DEF BackupNext
    <2>2. Pick(h)
      <3>1. g = h
        BY <1>1, <2>1 DEF Pick, Restored, Readers
      <3> QED
        BY <1>1, <2>1, <3>1 DEF Restored
    <2>3. PICK f \in Newest(Candidates(h)) : reading' = [reading EXCEPT ![h] = f]
      BY <2>2 DEF Pick
    <2>4. /\ f \in Archive /\ f.host = h /\ f \in ArchiveFile
          /\ \A e \in Archive : e.host = h => ~Before(e, f)
      BY <1>1, <2>3, OwnCandidates DEF Newest, KeepInv, BackupInv, BackupTypeOK, Archive
    <2>5. f.mtime <= last[h] /\ f.mtime >= 1 /\ f.whole
      BY <1>1, <2>4 DEF KeepInv, LastCounts, BackupInv, FilesTold, Archive
    <2>6. f.mtime \in Nat /\ last[h] \in Nat
      BY <1>1, <2>4 DEF KeepInv, BackupInv, BackupTypeOK, ArchiveFile
    <2>7. PICK e \in Archive : e.host = h /\ e.mtime = last[h]
      BY <1>1, <2>5, <2>6 DEF KeepInv, KeepsNewest, Archive
    <2>8. ~(last[h] > f.mtime)
      BY <2>4, <2>7 DEF Before
    <2>9. reading'[h] = f
      BY <1>1, <2>3 DEF Readers
    <2> QED
      BY <2>4, <2>5, <2>6, <2>8, <2>9
  <1>2. ASSUME KeepInv, Readers, [BackupNext]_backupVars
        PROVE  [\A h \in Host :
                  reading[h] = None /\ reading'[h] # None =>
                    reading'[h].host = h /\ reading'[h].mtime = last[h] /\ reading'[h].whole]_backupVars
    BY <1>1, <1>2
  <1>3. BackupInit => Readers
    BY DEF BackupInit, Readers
  <1> QED
    BY <1>2, <1>3, KeepStart, KeepStep, ReadersStep, PTL DEF BackupSpec, RestoresNewest

=============================================================================
