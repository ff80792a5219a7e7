CONSTANTS
    Conn = {c1, c2}
    Roles = {"client", "server"}
    MaxPush = 3
    NoEntry = NoEntry
SPECIFICATION FairSpec
INVARIANTS
    InterestAgrees
    DroppedForAReason
PROPERTIES
    ZombieGone
    Established
