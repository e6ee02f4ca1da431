CONSTANTS
    Ops <- AllOps
    MaxLaps = 1
    Shapes <- LayerShapes
    MmCalls <- MatmulCalls
    Nodes = 4
    MaxProg = 2
    Graphs <- Networks
    ProgramCap = 3
    Buffers <- RegcmdBuffers
    Batches <- PackedBatches
    RcStride = 8
    AddrLimit = 64
    MaxBuilds = 2
    Waiters = {w1, w2}
    Timeouts = {0, 2, 15}
    MaxInt = 7
    MaxNow = 2
    EnvBudget = 1
    SetBudgets = {0}
    SlowMark = 2
SPECIFICATION CallsSpec
CHECK_DEADLOCK FALSE
INVARIANTS
    NothingLeaked
    ErrorsReported
    NothingDangles
    CoresAndCpuApart
    CallSettled
    AsClaimed
    SurfaceWhole
    PlansHold
    PlannedIsBuildable
    RunsAreGreedy
    EveryLayerReadsItsOperands
    ChainRunsWhole
    WaitHonest
    CountersExact
