SPECIFICATION Spec
CONSTANTS
    Calls = {1, 2}
    Paths = {a, b}
    Rest = Rest
    NoTool = NoTool
    NoRead = NoRead
    CheckEvery = 2
    MinText = 2
    MaxText = 3
    MaxStreams = 2
    MaxWrites = 1
INVARIANTS CallsOfOneStream
PROPERTIES NoStaleAnswer CancelEnds
CHECK_DEADLOCK FALSE
