\* Two pushes that may overlap, nothing dies.
SPECIFICATION Spec
CONSTANTS
  c1 = c1
  c2 = c2
  e1 = e1
  Conn = {c1, c2}
  Exec = {}
  Name <- MCName
  Offers <- MCOffers
  Foreign = {}
  LocalFiles <- MCLocal
  Windows = FALSE
  MaxCrashes = 0
  NoFile = NoFile
INVARIANTS
  LiveFolderIsOnePush
CHECK_DEADLOCK FALSE
