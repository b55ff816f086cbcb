\* Two endpoints and one more candidate; the row cap is out of reach.
CONSTANTS
    Priors <- MCPriors
    Chain <- MCChain
    Candidates <- MCCandidates
    Unresolvable = {"e3"}
    MaxRounds = 2
    MaxWaits = 1
    MaxSteers = 1
    MaxTurns = 40
    Budget = 40
    TurnSizes = {1}
    RowSize = 1
    KeepRecent = 10
    MaxCalls = 1
    MaxRows = 60
SPECIFICATION FairTSpec
INVARIANTS NoDeadRows RequestPaired
PROPERTIES TurnEnds
\* The turn is over.
CHECK_DEADLOCK FALSE
