CONSTANTS
    t1 = t1
    t2 = t2
    t3 = t3
    ok = ok
    Threads <- MCThreads
    Results <- MCResults
    Abandoned = contended
    NoOutcome = noOutcome
    None = none
    GenerationMod = 2
SPECIFICATION FairSpec
INVARIANTS
    WaiterAccounting
    SleepersAwaited
PROPERTIES
    CallerNotStranded
    ImplementsSingleFlight
