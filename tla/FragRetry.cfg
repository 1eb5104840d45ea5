SPECIFICATION Spec
CONSTANTS
    f1 = f1
    f2 = f2
    m1 = m1
    m2 = m2
    m3 = m3
    None = None
    FragIds = {f1, f2}
    Msgs = {m1, m3}
    KeyOf <- RetryKeyOf
    Transmissions <- RetryTransmissions
    MaxFragmentsPerId = 4
    MaxActiveSets = 2
    MaxSetBytes = 5
    MaxGlobalBytes = 5
    RescueNum = 3
    RescueDen = 4
    RescueMaxEntries = 1
    RescueMaxBytes = 4
    IdleLimit = 0
    RescueTTL = 1
    Persist = FALSE
    Strays = 1
    MaxAttempts = 3
SYMMETRY IdSymmetry
INVARIANTS
    AccountingExact
    WithinCaps
    NoCompleteSetLingers
    RescueWorthKeeping
PROPERTIES
    RescueNeverForgets
