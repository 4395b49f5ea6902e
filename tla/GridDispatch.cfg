SPECIFICATION Spec
CONSTANTS
    Units <- Battery
    Ticks <- Two
    Verdicts <- Model
    Classes <- Registry
    MaxPending = 2
    Refreshes = TRUE
    MaxPosts = 4
    MaxFaults = 2
    MaxRestarts = 1
INVARIANTS
    DispatchesAreSound
    ObservedOnce
