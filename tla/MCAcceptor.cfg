CONSTANTS
    Peers = {p1, p2, p3}
    NumWorkers = 2
    MaxCalls = 1
SPECIFICATION FairSpec
INVARIANT
    MadeIsServed
PROPERTIES
    CloseReturns
    HeardIsAccepted
