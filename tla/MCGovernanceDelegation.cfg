\* Direct delegations to one account, which tries to delegate to itself, one proposal, stakes that move, boosts that begin
\* and end around its end height.
CONSTANTS
    alice = alice
    bob = bob
    carol = carol
    treasury = treasury
    nobody = nobody
    Accounts = {alice, bob, carol}
    Treasury = treasury
    None = nobody
    MaxProposals = 1
    StartHeight = 1
    MaxHeight = 3
    InitConfig <- BoostConfig
    InitAvailable <- DelegationAvailable
    InitStaked <- BobStaked
    TreasuryMint = 0
    Authors = {alice}
    ActionLists <- NoActions
    AttributesArrays <- NoAttributes
    Attributes <- SetLink
    StakeMoves <- StakeByOne
    ScoreBounds <- FewScores
    BoostTargets = {3, 4}
    DelegationPairs <- DirectAndSelf
    VoteDecisions = {"for", "against"}
SPECIFICATION Spec
INVARIANTS
    SummaryIsBoostedScore
    TurnoutIsVotedScore
    DelegatorsHoldNoVote
    DelegationSymmetric
    DelegationAcyclic
