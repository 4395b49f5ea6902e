SPECIFICATION MCSpec
CONSTANTS
    ann = ann
    bob = bob
    sue = sue
    d1 = d1
    d2 = d2
    b1 = b1
    g1 = g1
    Datasets = {d1, d2}
    Persons = {ann, bob, sue}
    Stewards = {sue}
    Workers = {w1, w2}
    Dlgs = {g1}
    Glasses = {b1}
    MaxDelegation = 1
    Window = 1
    VotesOnce = TRUE
    MaxNow = 1
    MaxWrites = 2
    MaxRefusals = 1
    None = None
SYMMETRY Symmetry
CHECK_DEADLOCK FALSE
INVARIANTS
    RecordIsSound
    GlassIsVoted
PROPERTIES
    WidenedAtTheGate
    OrphanedOnlyByOverlap
