CONSTANTS
    t1 = t1
    t2 = t2
    t3 = t3
    Threads <- MCThreads
    MAX_SHARED = 2
    VersionMod = 2
SPECIFICATION Spec
SYMMETRY ThreadSymmetry
INVARIANTS
    MutualExclusion
    StateCountsGuards
    ReleaseOverwritesNothing
    OptimisticSound
