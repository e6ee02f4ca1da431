SPECIFICATION Spec
CONSTANTS
    Conf <- MCConf
    BATCH = 6
    MaxPending = 2
INVARIANTS
    TypeOK
    MatchesOracle
    RunsWhatWasSubmitted
