CONSTANTS
    Comps = {"autopilot"}
    CompAll = "all"
    Cmds = {"calibrate", "setHome", "roi", "motorTest", "autotune"}
    Retryable = {"calibrate"}
    Duplicable = {"motorTest"}
    ProgressEnds = {"autotune"}
    Unsupported = {"roi"}
    LongRunning = {"calibrate", "autotune"}
    Failing = {"setHome"}
    Calls <- MixedCalls
    MaxTries = 2
    MaxReq = 2
SPECIFICATION FairSpec
CHECK_DEADLOCK FALSE
INVARIANTS
    TypeOK
    ReportedOnce
    NoTwins
    AckAttribution
    FallbackWhenUnsupported
PROPERTIES
    SafeResend
    StopIsFinal
    ImplementsService
    EveryCallEnds
