SPECIFICATION Spec
CONSTANTS
    Pokemon = {p1, p2}
    Tabs = {t1, t2}
    Requests = {r1, r2}
    ClientOf <- OneClient
    Quota = 1
    None = None
    Worlds <- TwoTabs
SYMMETRY Symmetry
INVARIANTS
    ShownIsDrawn
