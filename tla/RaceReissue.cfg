SPECIFICATION Spec
CONSTANTS
    Drawings = {d1, d2}
    Requests = {r1, r2}
    Payloads = {q1, q2}
    None = None
    Worlds <- Unreviewed
SYMMETRY Symmetry
PROPERTIES
    NeverReissued
