CONSTANTS
    c1 = c1
    c2 = c2
    Client = {c1, c2}
    Self = self
    MaxPush = 1
SPECIFICATION FairSpec
PROPERTIES
    CommandServed
    DestructorReturns
