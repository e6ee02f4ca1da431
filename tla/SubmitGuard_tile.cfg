SPECIFICATION Spec
CONSTANTS
    NTask = 3
    Resident = TRUE
    CubeOut = FALSE
    Sentinel = TRUE
    Drain = TRUE
    Attempts = 3
INVARIANTS
    DeliversThisCall
    FlagIsTrue
    HealthyCallSucceeds
PROPERTIES
    CallReturns
