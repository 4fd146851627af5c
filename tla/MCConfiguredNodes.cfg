SPECIFICATION Spec
CONSTANTS
    Nodes = {n1, n2}
    n1 = n1
    n2 = n2
    OwnFiles <- SomeFiles
    ActionLists <- SomeActions
    NeedyAt = {2, 3}
    BlockReward <- SomeRewards
    MaxHeight = 3
    MaxForks = 1
    MaxRestarts <- OneRestarts
CHECK_DEADLOCK FALSE
INVARIANTS
    TypeOK
    NodesAgreeOnConfig
    RewardsOnSchedule
    HandlersFollowWhileSteady
PROPERTIES
    EveryNodeCatchesUp
