SPECIFICATION HotSpec
CONSTANTS
    Types <- TheTypes
    Files <- TheFiles
    BootFiles <- TheBoots
    MaxPending = 2
    MaxHolds = 2
    MaxFaults = 1
    MaxCrashes = 1
    Drops = {d1}
    DropFiles <- Dropped
    Substrates = {"mock", "real"}
    MaxDrops = 1
    MaxLost = 1
INVARIANTS
    AppliedAsApproved
    RegistryIsRecorded
PROPERTIES
    LooseningIsReleased
    GreenIsInForce
