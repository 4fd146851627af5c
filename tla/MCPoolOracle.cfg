SPECIFICATION FairSpec
CONSTANTS
    TimeUnit = 8
    OneX128 = 4
    MaxInt24 = 20
    Error = Error
    StartTime = 6
    MaxSeconds = 4
    Gaps = {1, 2}
    StartTick = 1
    PoolTicks <- MCTicks
    Lower <- MCLower
    Upper <- MCUpper
    Liquidities = {2}
    MaxLiquidity = 2
    Sizes = {3, 4}
    Ages = {0, 2, 7}
    None = None
    Old = Old
INVARIANTS
    SnapshotCountsTimeInside
    LibraryReadsHistory
PROPERTIES
    ImplementsPriceLog
    EveryObserveAnswers
