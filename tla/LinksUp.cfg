SPECIFICATION FairSpec
CONSTANTS
    None = None
    a1 = a1
    a2 = a2
    s1 = s1
    s2 = s2
    Addrs = {a1}
    MaxCount = 2
    MaxDue = 2
    MaxClients = 2
    Sends = {s1, s2}
    May = {"guests", "vanish"}
CHECK_DEADLOCK FALSE
INVARIANTS
    AttemptsExclusive
    LinksOwned
PROPERTY
    DeafPhonesLeave
