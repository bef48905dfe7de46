SPECIFICATION FairSpec
CONSTANTS
    Pokemon = {p1, p2}
    Players = {u1, u2}
    Regulars = {u1}
    Quotas = {0, 1}
    Rounds = 2
    MaxSlack = 2
    MaxDraws = 3
INVARIANTS
    SpreadBounded
    SimulationHonest
PROPERTIES
    CoversTheDex
