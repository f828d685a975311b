SPECIFICATION TierSpec
CONSTANTS
    SlotCount = 2
    PageUnits = 2
    Data = {d1, d2}
    Zero = Zero
    Torn = Torn
    None = None
    Evictors = {e1, e2}
    Tickers = {t1, t2}
    Allowance = 3
    PageSize = 2
    Day = 4
    Elapsed = {0, 1, 3, 6}
    MaxClock = 9
SYMMETRY TierSymmetry
INVARIANTS
    SlotPartition
    EnduranceBound
    FractionalCredit
    TokensConserved
PROPERTY
    BackendContract
