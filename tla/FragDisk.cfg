SPECIFICATION FairSpec
CONSTANTS
    f1 = f1
    f2 = f2
    m1 = m1
    m2 = m2
    m3 = m3
    None = None
    FragIds = {f1, f2}
    Msgs = {m1, m2}
    KeyOf <- PairKeyOf
    Transmissions <- PairTransmissions
    MaxFragmentsPerId = 2
    MaxActiveSets = 1
    MaxSetBytes = 2
    MaxGlobalBytes = 2
    RescueNum = 1
    RescueDen = 2
    RescueMaxEntries = 1
    RescueMaxBytes = 2
    IdleLimit = 0
    RescueTTL = 1
    Persist = TRUE
    Strays = 1
    MaxAttempts = 2
INVARIANTS
    RescueBounded
    FileMirrorsCache
    ReassembledPure
PROPERTIES
    EverySetEnds
