SPECIFICATION FairSpec
CONSTANTS
    session = session
    agent = agent
    Transcripts = {session, agent}
    Session = session
    Batches <- MCBatches
    Policies <- MCPolicies
    NoPolicy = NoPolicy
    PerTurn = 1
    MaxRounds = 1
    MaxEvents = 1
INVARIANTS Consent NoStalePending QuotaOverrun
PROPERTIES RoundEnds
CHECK_DEADLOCK FALSE
