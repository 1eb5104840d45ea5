SPECIFICATION FairFanoutSpec
CONSTANTS
    a = a
    b = b
    c = c
    p = p
    Windows = {a, b}
    Peers = {p}
    HighWater = 1
    LowWater = 0
    Idle = {}
    Active = {a}
    MaxEvents = 3
    MaxMentions = 1
CHECK_DEADLOCK FALSE
INVARIANTS
    EventsDelivered
    WindowTruthful
PROPERTIES
    PublishEnds
