\* A small object and a block of two pages, with the page allocator of the code.
SPECIFICATION Spec
CONSTANTS
    PAGE_SIZE = 4
    SLAB_SIZES <- SlabSizes
    MAX_SLABS_PER_SIZE = 2
    TotalPages = 8
    MAX_ORDER = 4
    Callers = {c1, c2, c3}
    Sizes = {1, 5}
    AlignedSizes = {}
    NoBlock = none
INVARIANTS AllocationsApart
