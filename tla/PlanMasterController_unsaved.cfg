CONSTANTS
    Elements = {a}
    Vehicles <- SomeVehicles
    Files <- SomeFiles
    MaxOps = 3
SPECIFICATION Spec
CHECK_DEADLOCK FALSE
PROPERTY
    UnsavedStaysFlagged
