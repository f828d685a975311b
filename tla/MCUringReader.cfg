CONSTANTS
    Readers = {r1, r2, r3}
    Stoppers = {d}
    Entries = 2
    UserDataMod = 4
    Shutdown = Shutdown
    None = None
SPECIFICATION FairSpec
INVARIANTS
    CompletionMatches
    KernelPagesLive
    RequestConserved
    AcceptedReadsDrained
PROPERTY
    CallsReturn
CHECK_DEADLOCK FALSE
