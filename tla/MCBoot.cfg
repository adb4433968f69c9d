\* Blocks of two or four words, two direct blocks, a u32 of 32 values;
\* archives of up to four members for three entries and two module buffers.
SPECIFICATION BootSpec
CONSTANTS
    Disks <- MCDisks
    Paths <- MCPaths
    KB = 2
    PAGE = 8
    PTR = 1
    HDR = 1
    BGD = 1
    INODE = 1
    NDIRECT = 2
    U32 = 32
    BITS = 5
    NBlocks = 3
    Junk = junk
    Nil = nil
    Archives <- MCArchives
    BLOCK = 8
    MAX_ENTRIES = 3
    MAX_MODULES = 2
    BUF = 4
    Slots = 2
    U64 = 32
INVARIANTS ReadFileCorrect LookupCorrect NothingLeaks OverrunBounded ImagesIntact EveryModuleLoaded
PROPERTIES CallsEnd BootEnds
