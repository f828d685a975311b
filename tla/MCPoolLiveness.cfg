CONSTANTS
    a = a
    b = b
    c = c
    w = w
    s1 = s1
    s2 = s2
    s3 = s3
    Threads = {a, b, w}
    Roles <- Stopping
    FrameCount = 1
    MaxPid = 1
    Slots <- ThreeSlots
    Values = {0}
    GenerationMod = 2
    CoolingTarget = 1
    LowWatermark = 1
    MaxRounds = 1
    MaxInFlight = 1
    MayDecline = FALSE
    MayFail = TRUE
    None = None
SPECIFICATION WarmFairSpec
INVARIANTS
    ShutdownFlushed
PROPERTIES
    FollowersAnswered
    ShutdownReturnsOnceDropped
CHECK_DEADLOCK FALSE
