SPECIFICATION Spec
CONSTANTS
    Calls = {1, 2}
    Paths = {a}
    Rest = Rest
    NoTool = NoTool
    NoRead = NoRead
    CheckEvery = 2
    MinText = 2
    MaxText = 0
    MaxStreams = 1
    MaxWrites = 0
INVARIANTS ReadsOwnWrites
CHECK_DEADLOCK FALSE
