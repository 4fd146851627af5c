\* Two holders, tokens that vest, stakes and transfers.
CONSTANTS
    alice = alice
    bob = bob
    nobody = nobody
    Holders = {alice, bob}
    Users = {alice, bob}
    None = nobody
    TokenIds = {0, 1, 2, 3, 4}
    MaxTokenId = 4
    GenesisTokens = {0, 2}
    InitBalance <- GenesisBalance
    MaxSupply = 4
    Transfers = {1}
    FirstTokenId = 1
    SkippedTokenIDs = {1}
    StartHeight = 1
    MaxHeight = 3
    LastVesting = 3
    Distributions <- VestingDistributions
    BurnAmounts = {1}
    AttributesArrays <- NoAttributes
    Attributes = {}
    RecipientLists = {}
    RecipientEdits = {}
    Pools = {}
    LeftOvers = {nobody}
    Prices = {}
    IcoAmounts = {}
    MaxSwaps = 0
    MaxAmount = 1
    Exact = 1
    AsNumber <- TwoNumbers
    Scales <- TwoScales
    LstTokenID = 1
    NativeTokenID = 0
    Ratio = 2
    InitStake <- GenesisStake
    StakeAmounts <- StakeByOne
SPECIFICATION Spec
INVARIANTS
    VestedMatchesSchedule
    PastIsUnlocked
    LstHasNoOwner
PROPERTIES
    CreationTakesFreshId
