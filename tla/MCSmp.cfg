\* Five CPUs, two ids of which wrap; one of them falls on the entry of another CPU.
SPECIFICATION SmpFairSpec
CONSTANTS
    b = b
    a1 = a1
    a2 = a2
    a3 = a3
    a4 = a4
    CPUs = {b, a1, a2, a3, a4}
    BSP = b
    MAX_CPUS = 8
    lapic_id <- LapicIds
INVARIANTS BarrierSafe OnlineCountExact
PROPERTIES BarrierOpens
CHECK_DEADLOCK FALSE
