CONSTANTS
    a = a
    b = b
    c = c
    w = w
    s1 = s1
    s2 = s2
    s3 = s3
    Threads = {a, c, w}
    Roles <- Prefetching
    FrameCount = 2
    MaxPid = 1
    Slots <- TwoSlots
    Values = {0, 1}
    GenerationMod = 1
    CoolingTarget = 1
    LowWatermark = 1
    MaxRounds = 1
    MaxInFlight = 1
    MayDecline = FALSE
    MayFail = FALSE
    None = None
SPECIFICATION WarmSpec
SYMMETRY TwoSlotSymmetry
INVARIANTS
    NoPriorMarker
