\* Two free frames: enough for some calls, too few for others.
SPECIFICATION PagingSpec
CONSTANTS
    FANOUT = 2
    Frames = {0, 1, 2, 3, 4, 5, 6, 7}
    root = 0
    NoFrame = 99
    BootTables <- Images
    BootPool = {6, 7}
    hhdm = 8
    Mmio <- Regions
    Buffers <- Modules
INVARIANTS MmioMapped TlbFresh
PROPERTIES OnlyMmioAppears
