SPECIFICATION BackupSpec
CONSTANTS
    Host = {h1, h2}
    Extends <- MCExtends
    Slot = {k1, k2}
    Keep = 1
    MaxClock = 4
    MaxRuns = 3
    MaxFaults = 1
    None = None
SYMMETRY Symmetry
CHECK_DEADLOCK FALSE
INVARIANTS NeverHalf KeepsNewest
PROPERTY RestoresNewest
