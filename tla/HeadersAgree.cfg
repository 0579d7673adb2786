CONSTANTS
    NoBlock = NoBlock
    NoTask = NoTask
    Task = {t1, t2}
    TopA = 7
    TopB = 7
    ForkAt = 2
    Block <- MCBlock
    Genesis <- MCGenesis
    Height <- MCHeight
    Prev <- MCPrev
    Tips <- TipsAgree
    Chain <- ChainAgree
    Failures = {"nopeers", "missing"}
    ChunkSize = 2
    MaxSingle = 2
    SaveEvery = 2
    MaxRetries = 1
    MaxSyncErrors = 2
SPECIFICATION StaleFairSpec
INVARIANTS
    AlignedWhenSynced
    NeighboursAreParents
PROPERTIES
    CallsReturn
    LeavesOutgrownBranch
