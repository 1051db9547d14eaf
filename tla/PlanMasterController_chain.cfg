CONSTANTS
    Elements = {a}
    Vehicles <- SomeVehicles
    Files <- SomeFiles
    MaxOps = 3
SPECIFICATION FairSpec
CHECK_DEADLOCK FALSE
INVARIANTS
    TypeOK
PROPERTIES
    ChainCoversPlan
    ChainMakesEqual
    DownloadIsClean
    ChainEnds
