SPECIFICATION Spec
CONSTANTS
    Thread = {t1, t2, t3}
    Foreign = {t3}
    Fd = {0, 1, 2}
    Bo = {b1, b2}
    Size = {1, 2}
    Cores = {1, 2}
    Guardable = TRUE
    PoolSlots = 2
    PoolCap = 3
    None = None
INVARIANTS
    TypeOK
    CountMatches
    PoolSound
    PoolAccounted
    NoBoLost
