\* More threads than channels, so that refused calls overlap; a u32 that a
\* few refused calls would overflow.
SPECIFICATION FairSpec
CONSTANTS
    MAX_CHANNELS = 2
    Threads = {t1, t2, t3}
    NoId = none
    U32 = 6
INVARIANTS IdsUnique MutualExclusion
PROPERTIES LockProgress
