SPECIFICATION Spec
CONSTANTS
    Limit = 2
    WindowSeconds = 2
    Second = 2
    Requests = {r1, r2}
    Names <- AccountNames
    SlugOf <- Slugs
    Passwords = {"old", "new"}
    Keys = {"k1", "k2", "k3", "k4"}
    Worlds <- OnlyRoles
    MaxUsers = 3
    None = None
SYMMETRY Symmetry
INVARIANTS
    AdminRemains
