CONSTANTS
    Graphs <- BranchReadTwice
    Nodes = 4
    MaxProg = 2
    ProgramCap = 8
SPECIFICATION LinkSpec
CHECK_DEADLOCK FALSE
INVARIANT
    TailsHoldZeroPoint
