\* Two pushes and an EXEC_SCRIPT on Windows, one death of the agent.
SPECIFICATION LiveSpec
CONSTANTS
  c1 = c1
  c2 = c2
  e1 = e1
  Conn = {c1, c2}
  Exec = {e1}
  Name <- MCName
  Offers <- MCOffers
  Foreign <- MCForeign
  LocalFiles <- MCLocal
  Windows = TRUE
  MaxCrashes = 1
  NoFile = NoFile
INVARIANTS
  LonePushInstalls
  LonePushNeverRaises
  OneCrashKeepsASet
  PushedCopyWinsWhenCalm
PROPERTIES
  PushEnds
\* Every connection is used up in the end.
CHECK_DEADLOCK FALSE
