CONSTANTS
    MaxRequests = 2
    MaxOnWay = 3
    TaskModes = {"Thread", "Sync"}
SPECIFICATION FairSpec
INVARIANTS
    OwnAnswer
    NotForgotten
    TaskDoneReady
PROPERTY
    RequestEnds
