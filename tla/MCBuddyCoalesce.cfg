\* Single pages that are given back: free_pages merges.
SPECIFICATION UsersSpec
CONSTANTS
    TotalPages = 8
    MAX_ORDER = 4
    Users = {c1, c2, c3, c4, c5, c6, c7}
    Orders = {0}
    Frees = TRUE
    Nothing = none
INVARIANTS LiveBlocksDisjoint
