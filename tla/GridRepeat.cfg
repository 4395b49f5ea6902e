SPECIFICATION Spec
CONSTANTS
    Units <- Battery
    Ticks <- Three
    Verdicts <- Model
    Classes <- AnyClass
    MaxPending = 2
    Refreshes = FALSE
    MaxPosts = 4
    MaxFaults = 0
    MaxRestarts = 0
INVARIANTS
    OneEvent
