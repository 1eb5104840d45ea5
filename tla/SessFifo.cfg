SPECIFICATION FairSpec
CONSTANTS
    None = None
    p1 = p1
    t1 = t1
    t2 = t2
    t3 = t3
    l1 = l1
    l2 = l2
    Peers = {p1}
    Texts = {t1, t2, t3}
    To <- ToP1
    Long = {}
    Autos = {}
    Files = {t3}
    Receipts = {}
    Letters = {l1}
    MsgLimit = 100
    MaxEphemerals = 5
    MaxInstalls = 1
    FailLimit = 3
    MaxInFlight = 2
    May = {"stale", "renew", "retry", "periodic", "reannounce"}
CHECK_DEADLOCK FALSE
INVARIANTS
    InOrder
PROPERTIES SharedKept 
