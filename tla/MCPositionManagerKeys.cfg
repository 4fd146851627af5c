\* Two ranges with one key: collects that are not paid in full.
CONSTANTS
    alice = alice
    nobody = nobody
    MinTick <- LowTick
    MaxTick = 10
    SqrtRatio <- Steady
    Q96 = 40
    Q128 = 1024
    Fee = 1
    FeeUnit = 4
    TickSpacing = 1
    WordSize = 8
    MaxLiquidityPerTick = 1023
    FeeProtocol <- NoProtocolFee
    InitBalance <- SomeTokens
    Prices <- BelowOrigin
    Ranges <- SameDigits
    None = nobody
    Users = {alice}
    MaxNfts = 2
    Desired <- DesiredMany
    Requests <- Plenty
    Specified <- OneWay
    Limits = {nobody}
    Loans <- NoLoans
    MaxCommands = 5
    MaxSwaps = 1
SPECIFICATION Spec
INVARIANTS
    CollectsArePaid
