SPECIFICATION Spec
CONSTANTS
    None = None
    e1 = e1
    e2 = e2
    s1 = s1
    shed = shed
    notify = notify
    review = review
    grant = grant
    text = text
    Ids = {e1, e2}
    EffectTypes = {shed, notify, review, grant}
    Conferring = {grant}
    Signals = {s1}
    Texts = {text}
    Proposals <- ReusedProposals
    SignalBodies <- Signal1
    Decisions <- MCDecisions
    Registry <- MCRegistry
    MaxPending = 2
    MaxSubmits = 2
    MaxSignals = 1
    MaxRefusals = 1
    MaxFaults = 0
    MaxCrashes = 0
CHECK_DEADLOCK FALSE
INVARIANTS
    AttestedRelease
