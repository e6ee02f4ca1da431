SPECIFICATION Spec
CONSTANTS
    Run <- AllRuns
    Attempts = 3
    LagAttempts = 2
INVARIANTS
    DeliversThisCall
    FlagIsTrue
PROPERTIES
    CallReturns
