SPECIFICATION Spec
CONSTANTS
    None = None
    p1 = p1
    t1 = t1
    t2 = t2
    t3 = t3
    l1 = l1
    l2 = l2
    Peers = {p1}
    Texts = {t1}
    To <- ToP1
    Long = {}
    Autos = {}
    Files = {}
    Receipts = {}
    Letters = {l1, l2}
    MsgLimit = 3
    MaxEphemerals = 5
    MaxInstalls = 2
    FailLimit = 2
    MaxInFlight = 1
    May = {"leave", "silence", "queueAges", "cancel", "unsubscribe", "loseUp", "loseDown", "nick", "cooldown", "sync", "chat", "sessionAges", "retry"}
CHECK_DEADLOCK FALSE
INVARIANTS
    
    QueueExact

    
