\* Every order, with frees, in a region larger than the bitmap.
SPECIFICATION UsersSpec
CONSTANTS
    TotalPages = 5
    MAX_ORDER = 2
    Users = {c1, c2, c3, c4, c5, c6}
    Orders = {0, 1, 2, 3}
    Frees = TRUE
    Nothing = none
INVARIANTS BlocksInRegion SinglePagesDisjoint ExhaustedMeansHeld
