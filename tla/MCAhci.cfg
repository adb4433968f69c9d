\* Reads of up to four sectors, a u16 of four values, unaligned ends.
SPECIFICATION FairSpec
CONSTANTS
    SECTOR = 2
    U16 = 4
    NPages = 6
    Offsets = {0, 1, 4}
    Counts = {0, 2, 7}
    Junk = junk
    NoCmd = none
INVARIANTS ReadCorrect OneCommandAtATime ReadsLeakNothing
PROPERTIES CallsReturn
