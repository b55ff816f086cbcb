\* Five rows against a cap of three, in every order.
CONSTANTS
    MaxTurns = 3
    Budget = 4
    TurnSizes = {1, 4}
    RowSize = 1
    KeepRecent = 2
    MaxCalls = 2
    MaxRows = 5
SPECIFICATION Spec
INVARIANTS TypeOK
PROPERTIES PairsKept RowsKept
\* The bound on rows ends every behaviour.
CHECK_DEADLOCK FALSE
