CONSTANTS
    a = a
    b = b
    d = d
    e = e
    Tx = {a, b, d, e}
    Outpoint = {1, 2}
    Txid <- MCTxid
    WId <- MCWId
    Spends <- MCSpends
    Size <- MCSize
    Blocks <- MCBlocks
    Unasked = {b}
    MaxBytes = 2
    MaxClock = 1
    MaxWork = 60
    MaxTries = 0
SPECIFICATION Spec
INVARIANTS
    TypeOK
    Ledger
    IndexesAgree
    MinedStaysOut
PROPERTIES
    EvictedForConflict
    CleanWipes
CHECK_DEADLOCK FALSE
