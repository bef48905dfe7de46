SPECIFICATION Spec
CONSTANTS
    MaxSubmission = 1
    MaxUniqueId = 1
    Pokemon = {p1, p2, p3}
    Users = {u1}
    Names = {n1, n2, n3}
    Credits = {c1, c2}
    Bases = {b1, b2}
    None = None
    OptionCount = 3
    MayCrash = FALSE
SYMMETRY Symmetry
INVARIANTS
    NumberedIffApproved
    QuestionWellFormed
PROPERTIES
    AskedFairly
    FrozenOnce
