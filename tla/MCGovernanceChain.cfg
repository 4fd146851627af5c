\* A chain of two delegations and one proposal.
CONSTANTS
    alice = alice
    bob = bob
    carol = carol
    treasury = treasury
    nobody = nobody
    Accounts = {alice, bob, carol}
    Treasury = treasury
    None = nobody
    MaxProposals = 1
    StartHeight = 1
    MaxHeight = 4
    InitConfig <- BaseConfig
    InitAvailable <- DelegationAvailable
    InitStaked <- BobStaked
    TreasuryMint = 0
    Authors = {alice}
    ActionLists <- NoActions
    AttributesArrays <- NoAttributes
    Attributes = {}
    StakeMoves = {}
    ScoreBounds = {}
    BoostTargets = {}
    DelegationPairs <- Chain
    VoteDecisions = {"for", "against"}
SPECIFICATION Spec
INVARIANTS
    TalliesAreUnsigned
