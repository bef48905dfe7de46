SPECIFICATION FairSpec
CONSTANTS
    UNDO_DEPTH = 2
    None = None
    Worlds <- AllWorlds
CHECK_DEADLOCK FALSE
INVARIANTS
    NotLockedOut
    StoredOnce
PROPERTIES
    HistoryKept
    DiscardsOnlyEmpty
    WaitingEnds
