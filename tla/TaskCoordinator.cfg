\* A third agent, so that one stays exact when two are mixed up.
CONSTANTS
    Tasks = {t1, t2}
    Agents = {a1, a2, a3}
    Callers = {c1, c2, c3}
    NoTask = NoTask
    NoAgent = NoAgent
    MaxLoad = 3
SYMMETRY Interchangeable
SPECIFICATION CoordSpec
INVARIANTS CoordTypeOK LoadMatchesWork
PROPERTIES TerminalIsTerminal
\* Every task may be finished: nothing is left to do.
CHECK_DEADLOCK FALSE
