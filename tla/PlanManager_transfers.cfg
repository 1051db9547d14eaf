CONSTANTS
    Plans <- PlainPlans
    Onboard <- PlainOnboard
    Settings <- AllSettings
    MaxRetry = 1
SPECIFICATION FairSpec
CHECK_DEADLOCK FALSE
INVARIANTS
    TypeOK
    ReadIsComplete
    WriteSentEverything
    SignalsItsEnd
    FreshItemsMatchVehicle
PROPERTIES
    ImplementsTransaction
    EveryTransactionEnds
