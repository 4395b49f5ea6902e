SPECIFICATION Spec
CONSTANTS
    Procs = {p1, p2}
    Bodies <- Mixed
    LongBodies <- Long
    MaxLines = 3
    MaxBoots = 3
    MaxCrashes = 1
    MaxFaults = 1
    MaxTears = 1
    MaxAlters = 1
SYMMETRY Swaps
CHECK_DEADLOCK FALSE
INVARIANTS
    NamesTheEdit
    FileIsSound
PROPERTY
    AckedIsKept
