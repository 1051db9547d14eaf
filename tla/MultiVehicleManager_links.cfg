CONSTANTS
    Links = {"radio", "satellite", "iridium", "cable"}
    Kind <- Kinds
    Systems = {1, 2}
    MaxVehicles = 3
    Settings <- SharedAndWired
SPECIFICATION FairSpec
CHECK_DEADLOCK FALSE
INVARIANTS
    TypeOK
    PrimaryIsLive
    HighLatencyControlled
    ReferencesMatch
    ListedHasLink
    ActiveIsListed
PROPERTIES
    SilentVehicleIsLost
