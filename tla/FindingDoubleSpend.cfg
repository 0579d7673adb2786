CONSTANTS
    a = a
    b = b
    d = d
    e = e
    Tx = {a, d, e}
    Outpoint = {1, 2}
    Txid <- MCTxid
    WId <- MCWId
    Spends <- LostSpends
    Size <- MCSize
    Blocks <- LostBlocks
    Unasked = {}
    MaxBytes = 20
    MaxClock = 0
    MaxWork = 60
    MaxTries = 0
SPECIFICATION Spec
PROPERTIES
    DoubleSpendsGo
CHECK_DEADLOCK FALSE
