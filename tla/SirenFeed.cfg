SPECIFICATION FeedSpec
CONSTANTS
    h1 = h1
    h2 = h2
    Handlers <- Threads
    EnvOffline = FALSE
    EnvSubstrate = "real"
    Installs <- FirstBoots
    MaxRequests = 3
    MaxFetches = 2
    MaxFailures = 1
SYMMETRY Symmetry
CHECK_DEADLOCK FALSE
INVARIANTS
    FeedIsSound
    OfflineSendsNothing
    
PROPERTY
    CacheIsWhole
