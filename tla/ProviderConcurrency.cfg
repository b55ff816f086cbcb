\* Four callers that may ask for ever; the cap moves between 1, 2 and none.
CONSTANTS
    Callers = {c1, c2, c3, c4}
    Caps = {0, 1, 2}
    InitialCap = 1
SPECIFICATION FairSpec
INVARIANTS TypeOK InFlightIsHolders NoDeafWaiter
PROPERTIES CapAdmits StarvedOnlyByGrants
