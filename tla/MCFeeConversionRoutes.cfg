\* Routes over a triangle of pools; a donation and a change of the treasury in between.
SPECIFICATION Spec
CONSTANTS
    MinTick = 0
    MaxTick = 1
    SqrtRatio <- TwoTicks
    Q96 = 64
    Q128 = 1024
    FeeUnit = 100
    StartPrices <- EvenPrices
    FeeProtocol = 4
    Holdings <- SomeHoldings
    ICOs <- TwoICOs
    MaxAmount = 999
    Exact = 64
    AsNumber <- ThreeDigits
    Scales <- ThreeDigitScales
    Provider = Provider
    Sender = Sender
    Router = Router
    Treasury = Treasury
    Zero = Zero
    None = None
    Error = Error
    Native = 1
    Tokens = {1, 2, 3, 4}
    PoolKeys <- Triangle
    Liquidity <- TriangleDepth
    FeeTiers <- Tiers
    ConversionPaths <- OnePath
    Commands <- AllCommands
    ByteFee = 5
    MinTransactionFee <- SomeFees
    BaseFee <- SomeBaseFees
    TxFees = {20, 130}
    Donations <- SomeDonations
    MaxTransactions = 2
    MaxEvents = 2
CHECK_DEADLOCK FALSE
INVARIANTS
    RouteMatchesQuote
    RouteSettles
    RoutesKeepPoolsBacked
    ConversionPaysFee
