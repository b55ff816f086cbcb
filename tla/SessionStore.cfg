SPECIFICATION Spec
CONSTANTS
    Procs = {p1, p2}
    Workers = {w1, w2}
    Default = default
    Holders = {session}
    Absent = Absent
    ReadCap = 2
    MaxWork = 3
    MaxFaults = 2
INVARIANTS TypeOK
PROPERTIES LogKeeps SaveHoldsItsChange
SYMMETRY Interchangeable
CHECK_DEADLOCK FALSE
