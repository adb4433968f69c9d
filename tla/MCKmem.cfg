\* A page of four units; a cache of two pages can be at its limit.
SPECIFICATION Spec
CONSTANTS
    PAGE_SIZE = 4
    SLAB_SIZES <- SlabSizes
    MAX_SLABS_PER_SIZE = 2
    TotalPages = 4
    MAX_ORDER = 3
    Callers = {c1, c2, c3, c4, c5}
    Sizes = {0, 1, 2, 3, 5}
    AlignedSizes = {1, 5}
    NoBlock = none
CONSTRAINT Claimed
SYMMETRY CallerSymmetry
INVARIANTS ObjectsDisjoint PagesAccounted
