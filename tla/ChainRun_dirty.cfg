SPECIFICATION Spec
CONSTANTS
    Run <- ConvsOnly
    Attempts = 2
    LagAttempts = 2
INVARIANTS
    DeliversAlways
