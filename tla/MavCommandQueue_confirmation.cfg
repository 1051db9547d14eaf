CONSTANTS
    Comps = {"autopilot"}
    CompAll = "all"
    Cmds = {"requestMessage", "arm", "calibrate"}
    Retryable = {"requestMessage", "calibrate"}
    Duplicable = {}
    ProgressEnds = {}
    Unsupported = {}
    LongRunning = {"calibrate"}
    Failing = {}
    Calls <- RetryCalls
    MaxTries = 3
    MaxReq = 1
SPECIFICATION Spec
CHECK_DEADLOCK FALSE
PROPERTY
    ConfirmationIncrements
