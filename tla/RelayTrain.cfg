SPECIFICATION Spec
CONSTANTS
    None = None
    Phone = Phone
    n1 = n1
    n2 = n2
    n3 = n3
    w = w
    a = a
    b = b
    c = c
    f = f
    g = g
    Nodes = {n1, n2, n3}
    Links <- Row
    Paths = {"peripheral"}
    Packets = {w, f, g}
    Info <- FileInfo
    Heard <- FileHeard
    Knows = {}
    Hellos = {}
    Looped = {}
    Crowded = {}
    MaxTtl = 3
    HighTtl = 2
    DispatchMax = 2
    RelayMax = 2
    Forgets = {}
CHECK_DEADLOCK FALSE
INVARIANTS
    HighTtlAlwaysRelayed
