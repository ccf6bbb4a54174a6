\* One supervisor has one rclone alive, and three rebuilds forget three: four
\* places are enough.
SPECIFICATION LiveSpec
CONSTANTS
  r1 = r1
  r2 = r2
  r3 = r3
  r4 = r4
  Child = {r1, r2, r3, r4}
  Helper = helper
  Addr = {"a", "b"}
  Root = {"X", "Y"}
  NoProc = NoProc
  MaxEvents = 3
INVARIANTS
  OwnRcloneIsTracked
PROPERTIES
  DriveComesBack
