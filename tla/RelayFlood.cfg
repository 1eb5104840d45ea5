SPECIFICATION FairSpec
CONSTANTS
    None = None
    Phone = Phone
    n1 = n1
    n2 = n2
    n3 = n3
    w = w
    a = a
    b = b
    c = c
    f = f
    g = g
    Nodes = {n1, n2, n3}
    Links <- Row
    Paths = {"peripheral"}
    Packets = {a, b, c, w, f, g}
    Info <- TextInfo
    Heard <- TextHeard
    Knows <- Known
    Hellos = {}
    Looped = {}
    Crowded = {n1}
    MaxTtl = 3
    HighTtl = 2
    DispatchMax = 1
    RelayMax = 1
    Forgets = {n1, n2}
CHECK_DEADLOCK FALSE
INVARIANTS
    HandledOnce
    RelayedOnce
    FloodReaches
PROPERTIES
    FloodEnds
