SPECIFICATION Spec
CONSTANTS
    Drawings = {d1, d2}
    Requests = {r1, r2}
    Payloads = {q1, q2}
    None = None
    Worlds <- BothWorlds
SYMMETRY Symmetry
INVARIANTS
    OneIdOneQuestion
    NumberedOnlyIfApproved
PROPERTIES
    WrittenOnce
    LedgerKept
