CONSTANTS
    m2 = m2
    m3 = m3
    m4 = m4
    s2 = s2
    s3 = s3
    Block = {m2, m3, m4, s2, s3}
    Height <- MCHeight
    Chain <- MCChain
    HashRank <- MCHashRank
    NoBlock = NoBlock
    Keep = 2
    MaxBatch = 2
    Required = 3
    Loop = {c1, c2}
    Boot = Boot
    Free = Free
    Notified = TRUE
    MaxMoves = 1
SPECIFICATION FairSpec
INVARIANTS
    TypeOK
    NoGapBelowLast
    BootstrapIsThorough
PROPERTIES
    BootstrapEnds
    FollowsBest
