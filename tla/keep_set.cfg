SPECIFICATION IndexSpec
CONSTANTS
    Side = 7
    Width <- MCWidth
    Folders <- MCFolders
    Routes <- MCRoutes
    Rings = 1
    MaxEvents = 2
INVARIANTS KeepRight WaterNeedsRace
