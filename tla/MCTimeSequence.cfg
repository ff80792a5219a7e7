CONSTANTS
    Instants <- MCInstants
    Steps <- MCSteps
    Counts = {1, 2, 4}
    MaxPoints = 4
    CountLimit = 65536
SPECIFICATION Spec
INVARIANTS
    PushedIsGrid
    CountIsGreatest
    PositionsInside
    ReadsBack
    PeriodAgrees
PROPERTIES
    BoundOnGrid
    GrowsOnGrid
