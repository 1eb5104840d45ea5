SPECIFICATION Spec
CONSTANTS
    None = None
    alice = alice
    bob = bob
    all = all
    m1 = m1
    m2 = m2
    m3 = m3
    b1 = b1
    x1 = x1
    Chats = {alice, bob, all}
    Typed = {m1, m3, b1}
    Autos = {x1}
    Place <- TwoPeers
    Files = {m3}
    Broadcasts = {b1}
    MaxRows = 7
    MaxOthers = 1
    MaxLines = 2
CHECK_DEADLOCK FALSE
INVARIANTS
    TicksTruthful
    TicksComplete
    IdsApart
