SPECIFICATION Spec
CONSTANTS
    MaxSubmission = 2
    MaxUniqueId = 3
    Pokemon = {p1, p2}
    Users = {u1}
    Names = {n1, n2}
    Credits = {c1}
    Bases = {b1}
    None = None
    OptionCount = 2
    MayCrash = TRUE
SYMMETRY Symmetry
INVARIANTS
    TypeOK
    CsvComplete
    PublishedOnce
PROPERTIES
    CsvInUniqueIdOrder
    LedgerSpec
