\* Two keep sets that share an atlas, one atlas that cannot be read, two
\* moves, silences, edits or losses of the drive, one failed read or old touch.
SPECIFICATION LiveSpec
CONSTANTS
  a1 = a1
  a2 = a2
  a3 = a3
  a4 = a4
  Atlas = {a1, a2, a3, a4}
  Keeps <- MCKeeps
  Missing = {a4}
  MaxMishaps = 1
  Position <- MCPosition
  Slow <- MCSlow
  Config <- MCConfig
  KeepAt <- MCKeepAt
  NoSample = NoSample
  MaxEvents = 2
INVARIANTS
  OfflineIsQuiet
  WarmIsPrimedOrOvertaken
  AtMostOneStray
  FullReadsAreNeeded
PROPERTIES
  ForgetsOnlyForCause
  PrimerSpec
  BubbleGetsWarm
  StopEnds
\* A stopped agent stays stopped.
CHECK_DEADLOCK FALSE
