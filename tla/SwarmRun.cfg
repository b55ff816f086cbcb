\* Four plans of three subtasks, one retry, two cancels of either kind.
SPECIFICATION FairSpec
CONSTANTS
    a = a
    b = b
    c = c
    unknown = unknown
    Subtasks = {a, b, c}
    Graphs <- MCGraphs
    MaxAttempts = 2
    MaxCancels = 2
    Deadline = TRUE
    Overnight = TRUE
INVARIANTS TypeOK DependenciesFirst Reported
PROPERTIES FailureGate StopIsFinal RunEnds
