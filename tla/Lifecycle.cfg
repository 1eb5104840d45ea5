SPECIFICATION FairSpec
CONSTANTS
    a = a
    b = b
    home = home
    None = None
    Torn = Torn
    Instances = {a, b}
    Homes = {home}
    Home <- OneHome
    WaitsForClients = TRUE
    Units = {a}
    FirstFiles <- NoneOrOld
    MaxKeys = 7
    MaxFaults = 2
    MaxSignals = 2
INVARIANTS
    SocketServed
    IdentityKept
    StopsWhole
PROPERTIES
    RestartServes
