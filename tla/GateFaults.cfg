SPECIFICATION Spec
CONSTANTS
    None = None
    e1 = e1
    e2 = e2
    s1 = s1
    shed = shed
    notify = notify
    review = review
    grant = grant
    text = text
    Ids = {e1, e2}
    EffectTypes = {shed, notify, review, grant}
    Conferring = {grant}
    Signals = {s1}
    Texts = {text}
    Proposals <- MixedProposals
    SignalBodies <- Signal1
    Decisions <- HumanDecisions
    Registry <- MCRegistry
    MaxPending = 1
    MaxSubmits = 2
    MaxSignals = 1
    MaxRefusals = 0
    MaxFaults = 1
    MaxCrashes = 1
CHECK_DEADLOCK FALSE
INVARIANTS
    TypeOK
    WriteAhead
    ReleasedByDecision
    RunsOnce
    HoldsAreKept
    FollowsTheLedger
PROPERTY
    KeepsPromise
