CONSTANTS
    c1 = c1
    Client = {c1}
    Bootstrap = Bootstrap
    Host = {1, 2, 3, 4}
    Consensus = 3
    BlockRetries = 3
    RoundRetries = 9
    TxRetries = 10
    UnspentRetries = 15
SPECIFICATION FairSpec
INVARIANTS
    TypeOK
    CollectSuffices
PROPERTIES
    CallsReturn
