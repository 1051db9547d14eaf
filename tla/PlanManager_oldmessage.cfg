CONSTANTS
    Plans <- PlainPlans
    Onboard <- PlainOnboard
    Settings <- LatePx4
    MaxRetry = 1
SPECIFICATION Spec
CHECK_DEADLOCK FALSE
INVARIANT
    ItemsMatchVehicle
