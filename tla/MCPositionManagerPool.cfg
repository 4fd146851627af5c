\* Three overlapping ranges, swaps across all ticks.
CONSTANTS
    alice = alice
    nobody = nobody
    MinTick <- LowestTick
    MaxTick = 3
    SqrtRatio <- Quarter
    Q96 = 16
    Q128 = 128
    Fee = 1
    FeeUnit = 4
    TickSpacing = 2
    WordSize = 4
    MaxLiquidityPerTick = 60
    FeeProtocol <- ProtocolFee
    InitBalance <- SomeTokens
    Prices <- AtOrigin
    Ranges <- ThreeRanges
    None = nobody
    Users = {alice}
    MaxNfts = 2
    Desired <- DesiredEight
    Requests <- RequestAll
    Specified <- BothWays
    Limits = {nobody, 12}
    Loans <- OneLoan
    MaxCommands = 5
    MaxSwaps = 3
SPECIFICATION FairSpec
INVARIANTS
    LiquidityOfPositionsInRange
    TicksOfPositions
    PoolIsSolvent
    NftsShareThePosition
    CollectsArePaid
    WorthIsWhatIsPaid
    CrossingsAreCounted
PROPERTIES
    EverySwapEnds
