CONSTANTS
    MaxConn = 2
    MaxFd = 2
    MaxPush = 2
SPECIFICATION FairSpec
INVARIANTS
    OwnDescriptor
    NothingLeaks
    ReachesOwn
PROPERTY DescriptorFreed
