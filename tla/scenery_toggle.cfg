SPECIFICATION Spec
CONSTANTS
    Slave = {s1}
    Slot = {r1}
    MaxFaults = 4
    None = None
INVARIANTS NeverStuck SceneryKept
PROPERTY ButtonSettles
