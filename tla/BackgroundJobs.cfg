SPECIFICATION FairSpec
CONSTANTS
    Session = session
    SessionHolder = held
    Transcripts = {session, agent}
    Cap = 1
    MaxJobs = 2
    MaxAttempts = 2
INVARIANTS TypeOK
PROPERTIES StatusIsFinal JobSettles AgentHears
