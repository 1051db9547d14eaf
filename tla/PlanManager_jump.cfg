CONSTANTS
    Plans <- JumpPlans
    Onboard <- PlainOnboard
    Settings <- FreshPx4
    MaxRetry = 1
SPECIFICATION Spec
CHECK_DEADLOCK FALSE
INVARIANT
    ItemsMatchVehicle
