SPECIFICATION VBFairSpec
CONSTANTS
    MaxBytes = 6
    Huge = 9
INVARIANTS OwnTail ReadsNext
PROPERTY SendReturns
