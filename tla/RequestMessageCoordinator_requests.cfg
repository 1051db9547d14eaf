CONSTANTS
    Comps = {1, 2}
    Msgs = {"version", "modes", "attitude"}
    Asks <- SomeAsks
    MaxReq = 3
SPECIFICATION FairSpec
INVARIANTS
    TypeOK
    AnsweredOnce
    InOrder
    NoDanglingInfo
    SuccessNeedsBoth
PROPERTY
    EveryRequestEnds
