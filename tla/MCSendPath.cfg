CONSTANTS
    MaxAccepted = 4
    Room = 2
SPECIFICATION SendFairSpec
INVARIANTS
    InOrder
    OutArmed
PROPERTY Delivered
