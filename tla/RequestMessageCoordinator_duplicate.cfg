CONSTANTS
    Comps = {1, 2}
    Msgs = {"version", "modes", "attitude"}
    Asks <- SomeAsks
    MaxReq = 2
SPECIFICATION Spec
PROPERTY
    DuplicateIsExact
