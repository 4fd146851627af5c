\* One token sold by an ICO pool, with and without a left-over address, and given away by
\* airdrops with a recipient that is listed twice and may be the provider too. At
\* the genesis the address of the pool has tokens of two kinds.
CONSTANTS
    alice = alice
    bob = bob
    nobody = nobody
    Holders <- WithPool
    Users = {alice, bob}
    None = nobody
    TokenIds = {0, 1, 2, 3}
    MaxTokenId = 3
    GenesisTokens = {0, 1}
    InitBalance <- SaleBalance
    MaxSupply = 4
    Transfers = {1}
    FirstTokenId = 2
    SkippedTokenIDs = {2}
    StartHeight = 1
    MaxHeight = 1
    LastVesting = 1
    Distributions <- SaleDistributions
    BurnAmounts = {}
    AttributesArrays <- SaleArrays
    Attributes <- SaleAttributes
    RecipientLists <- SaleAirdrops
    RecipientEdits <- SaleEdits
    Pools <- OnePool
    LeftOvers = {alice, nobody}
    Prices <- SalePrices
    IcoAmounts = {0, 3}
    MaxSwaps = 2
    MaxAmount = 99
    Exact = 2
    AsNumber <- TwoDigits
    Scales <- TwoDigitScales
    LstTokenID = 2
    NativeTokenID = 0
    Ratio = 1
    InitStake <- NoStake
    StakeAmounts = {}
SPECIFICATION Spec
INVARIANTS
    PoolSellsAtPrice
    EachPromisePaidOnce
