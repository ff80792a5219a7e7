CONSTANTS
    c1 = c1
    c2 = c2
    Client = {c1, c2}
    Self = self
    MaxPush = 2
SPECIFICATION Spec
SYMMETRY Symmetric
INVARIANTS
    NoLostWakeup
    InPushOrder
