SPECIFICATION Spec
CONSTANTS
    Tile = {t1, t2}
    File = {dsf, dds}
    Texture = {dds}
    Size = {"short", "long"}
    Workers = 2
    MaxChanges = 1
    MaxFaults = 2
    None = None
INVARIANT MarkedMirrors
PROPERTIES PruneOnlyGone RetriedUntilDone
