SPECIFICATION FairSpec
CONSTANTS
    None = None
    s1 = s1
    s2 = s2
    Sets = {s1, s2}
    Large = {s1}
    Instances = 2
    MayFail = TRUE
    MaxTasks = 3
CHECK_DEADLOCK FALSE
INVARIANTS
    HandleAdvertises
    PauseGuarded
PROPERTIES
    PauseEnds
