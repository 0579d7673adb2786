CONSTANTS
    m1 = m1
    m2 = m2
    m3 = m3
    s2 = s2
    NoDump = NoDump
    Block = {m1, m2, s2}
    Height <- MCHeight
    Chain <- MCChain
    SizeOf <- MCSizeOf
    TxSeq <- OwnTxs
    Limit = 20
    KeepBlocks = 1
    Callers = {"getblock", "observer", "reactor"}
    MaxClock = 1
    MaxTotal = 28
    MaxSaves = 1
    MaxAwaited = 1
SPECIFICATION Spec
INVARIANTS
    TypeOK
    IndexDumped
    TotalCovers
PROPERTIES
    WithinLimit
    OnlyKillsBreak
    ImplementsBlockStore
