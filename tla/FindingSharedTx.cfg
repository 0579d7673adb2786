CONSTANTS
    m1 = m1
    m2 = m2
    m3 = m3
    s2 = s2
    NoDump = NoDump
    Block = {m1, m2, s2}
    Height <- MCHeight
    Chain <- MCChain
    SizeOf <- MCSizeOf
    TxSeq <- SharedTxs
    Limit = 20
    KeepBlocks = 1
    Callers = {"reactor"}
    MaxClock = 1
    MaxTotal = 28
    MaxSaves = 1
    MaxAwaited = 1
SPECIFICATION Spec
PROPERTIES
    KeptBlocksStay
