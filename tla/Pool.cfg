CONSTANTS
    c1 = c1
    NoSlot = NoSlot
    Peers = 3
    Slot = {1, 2, 3}
    Required = 2
    StartScore = 2
    Caller = {c1}
    MaxFaults = 2
SPECIFICATION FairSpec
INVARIANTS
    TypeOK
PROPERTIES
    PoolSettles
CHECK_DEADLOCK FALSE
