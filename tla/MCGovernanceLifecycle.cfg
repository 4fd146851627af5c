\* Two accounts, two proposals: deposits, the queue, the execution of actions.
CONSTANTS
    alice = alice
    bob = bob
    carol = carol
    treasury = treasury
    nobody = nobody
    Accounts = {alice, bob}
    Treasury = treasury
    None = nobody
    MaxProposals = 2
    StartHeight = 1
    MaxHeight = 6
    InitConfig <- LifecycleConfig
    InitAvailable <- LifecycleAvailable
    InitStaked <- LifecycleStaked
    TreasuryMint = 0
    Authors = {alice}
    ActionLists <- LifecycleActions
    AttributesArrays <- NoAttributes
    Attributes = {}
    StakeMoves = {}
    ScoreBounds = {}
    BoostTargets = {}
    DelegationPairs = {}
    VoteDecisions = {"for", "against"}
SPECIFICATION FairSpec
INVARIANTS
    DepositsMatchPending
    NoVoteOutlivesProposal
    AcceptedByMajority
PROPERTIES
    ConfigAfterFunding
    ImplementsLifecycle
    EveryProposalSettles
