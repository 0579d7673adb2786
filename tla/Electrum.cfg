CONSTANTS
    r1 = r1
    w1 = w1
    Connect = Connect
    KeepAlive = KeepAlive
    Subscriber = Subscriber
    Rpc = {r1}
    Pinger = {}
    Raw = {w1}
    MaxId = 7
    MaxHeaders = 3
SPECIFICATION FairSpec
INVARIANTS
    TypeOK
    WaitersReachable
    NothingMissed
PROPERTIES
    CallsReturn
CHECK_DEADLOCK FALSE
