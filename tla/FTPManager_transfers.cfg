CONSTANTS
    Sizes <- SomeSizes
    Starts <- SomeStarts
    Sessions = {0, 1}
    Burst = 2
    PerReply = 2
    MaxRetry = 1
    MaxOps = 2
    MaxFaults = 2
SPECIFICATION FairSpec
CHECK_DEADLOCK FALSE
INVARIANTS
    TypeOK
    DownloadIsExact
    UploadIsExact
    ListIsExact
    OneCompletion
PROPERTY
    EveryOperationEnds
