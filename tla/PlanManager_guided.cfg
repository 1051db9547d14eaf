CONSTANTS
    Plans <- PlainPlans
    Onboard <- PlainOnboard
    Settings <- FreshArduPilot
    MaxRetry = 1
SPECIFICATION Spec
CHECK_DEADLOCK FALSE
INVARIANT
    GuidedIsNoUpload
