CONSTANTS
    a = a
    b = b
    c = c
    w = w
    s1 = s1
    s2 = s2
    s3 = s3
    Threads = {a, b}
    Roles <- WriterReader
    FrameCount = 1
    MaxPid = 1
    Slots <- ThreeSlots
    Values = {0, 1}
    GenerationMod = 1
    CoolingTarget = 1
    LowWatermark = 1
    MaxRounds = 1
    MaxInFlight = 1
    MayDecline = TRUE
    MayFail = TRUE
    None = None
SPECIFICATION Spec
SYMMETRY ThreeSlotSymmetry
INVARIANTS
    OptimisticCurrent
    FrameConservation
    FaultSourceLive
    SlotAccounting
PROPERTIES
    ImplementsPageStore
