SPECIFICATION Spec
CONSTANTS
    Pokemon = {p1, p2}
    Tabs = {t1, t2}
    Requests = {r1, r2}
    ClientOf <- OneClient
    Quota = 1
    None = None
    Worlds <- AllWorlds
SYMMETRY Symmetry
INVARIANTS
    OneOpenSession
    FileOfItsRow
    RowMatchesSession
    OutcomeTellsDrawn
    DrawnForItsPokemon
    NextIndexFree
    PicksPaidFor
    BackupComplete
PROPERTIES
    FilesPermanent
