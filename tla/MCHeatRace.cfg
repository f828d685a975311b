\* The heat of a frame: what an access may never do.
CONSTANTS
    Casts = {"heat"}
\* HeatTracker
    Accessors = {a1, a2}
    HEAT_ONE = 2
    MaxHeat = 7
    MaxShift = 3
    EpochMod = 8
    MaxTicks = 3
\* Demotion
    TierTables <- MCTierTables
    PageBytes = 2
    BudgetCap = 2
    MaxBudgetMoves = 1
    DramPageCost = 1
    EpochSeconds = 2
    CpuCost = 1
    FixedReadCost = 0
    NoTier = NoTier
\* ResidencyCost
    CostFrames = 2
    CostPages = {p1, p2}
    CostEvictors = {e1, e2}
    Elapses = {0, 1}
    DramPrice = 2
    TierPrices = {0, 1}
    MaxSamples = 2
    MaxPageMoves = 4
    NoPage = NoPage
\* StatsRecorder and Benchmark
    Recorders = {b1, b2, r1}
    BenchWorkers = {b1, b2}
    Prefetchers = {r1}
    Events = {"dram_hit", "demand_hit"}
    PageLength = 5
    MaxCount = 8
    SampleEvery = 2
    SampleCapacity = 1
    MaxOps = 2
    MaxTransfers = 2
    NoStats = NoStats
\* Workers
    PoolFrames = 2
    LowFrames = 1
    CoolingTargets = {0, 1}
    MaxFaultIns = 1
    MaxRequests = 2
\* MockTier
    MockSlots = 3
    MockData = {v1, v2}
    MaxAttempts = 2
    NoData = NoData
SPECIFICATION Spec
PROPERTY AccessKeepsHeat
CHECK_DEADLOCK FALSE
