CONSTANTS
    g1 = g1
    g2 = g2
    b1 = b1
    b2 = b2
    Peers = 3
    Slot = {1, 2, 3}
    Required = 2
    StartScore = 2
    Caller = {g1, g2}
    Block = {b1, b2}
    Nobody = Nobody
    MaxFaults = 3
SPECIFICATION Spec
INVARIANTS
    TypeOK
    GetsOwnBlock
    SecondNeverAsked
    NeverTooMany
SYMMETRY Symmetry
