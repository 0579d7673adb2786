CONSTANTS
    NoBlock = NoBlock
    NoTask = NoTask
    Task = {t1, t2}
    TopA = 8
    TopB = 4
    ForkAt = 2
    Block <- MCBlock
    Genesis <- MCGenesis
    Height <- MCHeight
    Prev <- MCPrev
    Tips <- TipsFork
    Chain <- ChainFork
    Failures = {"nopeers", "missing", "dropped"}
    ChunkSize = 4
    MaxSingle = 2
    SaveEvery = 2
    MaxRetries = 1
    MaxSyncErrors = 1
SPECIFICATION Spec
INVARIANTS
    TypeOK
    RowIdsFollowHeights
    CaptureHolds
    AnchoredAtGenesis
    LastIsBest
PROPERTIES
    ImplementsStore
