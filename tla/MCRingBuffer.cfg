CONSTANTS
    Value = {0, 1}
    Blank = 0
    Capacities = {1, 2, 3, 4}
    MaxBatch = 5
    Batches <- MCBatches
SPECIFICATION Spec
INVARIANTS
    SegmentsPartition
PROPERTY
    ImplementsQueue
