SPECIFICATION Spec
CONSTANTS
    Thread = {t1, t2, t3}
    Foreign = {}
    Fd = {0, 1, 2}
    Bo = {}
    Size = {1, 2}
    Cores = {1, 2}
    Guardable = TRUE
    PoolSlots = 2
    PoolCap = 3
    None = None
PROPERTIES
    GuardedGrantIsAlone
    ImplementsGuard
    CloseReturns
