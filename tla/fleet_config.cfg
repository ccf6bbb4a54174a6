\* One agent, two fleet folders, two edits, one load of the agent and one of
\* Control that miss a file.
SPECIFICATION FleetLiveSpec
CONSTANTS
  m1 = m1
  nas = nas
  old = old
  Machine = {m1}
  Folder = {nas, old}
  NoFolder = NoFolder
  Closed = Closed
  Garbled = Garbled
  Default <- MCDefault
  Installed <- MCInstalled
  Tunings <- MCTunings
  Overlays <- MCOverlays
  MaxEdits = 2
  MaxMisses = 1
INVARIANTS
  InstallerOwns
  RebuildsHaveACause
PROPERTIES
  EditsArrive
