\* A module, and a thread that spawns another module and the shell while tasks
\* run and exit: slots are reused, and calls refused when none is vacant.
SPECIFICATION FairSpec
CONSTANTS
    MAX_TASKS = 4
    Stacks = {1, 2, 3, 4}
    BootStack = boot
    NoStack = none
    KernelStack = kernel
    BootSpawns <- Boot
    LateSpawns <- Late
    MaxWork = 2
    MaxNest = 2
INVARIANTS PreemptExact AllocExclusive ContextIntegrity
PROPERTIES OnlyVacantSlotsTaken RoundRobin ReadyRuns ModulesFinish
