----------------------------- MODULE MCGovernance -----------------------------
(***************************************************************************)
(* Instances of Governance for TLC. alice, bob and carol are accounts,     *)
(* treasury is the treasury and nobody the empty address.                  *)
(***************************************************************************)
EXTENDS Governance, TLC

CONSTANTS alice, bob, carol, treasury, nobody

Amount(n) == [percent |-> FALSE, value |-> n]
Percent(n) == [percent |-> TRUE, value |-> n]

\* A configuration that differs from the devnet one by its small numbers.
BaseConfig ==
    [votingDelayDuration |-> 0, quorumDuration |-> 2, voteDuration |-> 2,
     executionDuration |-> 2, proposalCreationDeposit |-> 1,
     proposalCreationMinBalance |-> Amount(0), maxProposalActions |-> -1,
     quorumTreshold |-> Amount(0), quorumMode |-> "FOR_AGAINST_ABSTAIN",
     depositPoolAddress |-> treasury, enableTurnoutBias |-> FALSE,
     enableBoosting |-> FALSE, maxBoostDuration |-> 4, boostFactor |-> 200]

Fund(to, n) == [type |-> "funding", to |-> to, amount |-> n]
Set(path, value) == [type |-> "config", path |-> path, value |-> value]

NoActions == {<<>>}
NoAttributes == {<<>>}
SetLink == {[key |-> "link", data |-> "forum"]}
StakeByOne == {[added |-> 1, subtracted |-> 0], [added |-> 0, subtracted |-> 1]}

-------------------------------------------------------------------------------
(* The life of two proposals and their deposits *)

LifecycleConfig ==
    [BaseConfig EXCEPT !.votingDelayDuration = 1, !.voteDuration = 3,
                       !.executionDuration = 4, !.quorumTreshold = Percent(20),
                       !.proposalCreationMinBalance = Percent(30)]
LifecycleActions ==
    {<<Set("depositPoolAddress", nobody), Set("quorumDuration", 3)>>,
     <<Set("voteDuration", 2), Fund(bob, 2)>>,
     <<Fund(alice, 1), Set("votingDelayDuration", 0), Fund(bob, 2)>>}
LifecycleAvailable == (alice :> 2 @@ bob :> 2 @@ treasury :> 2)
LifecycleStaked == (alice :> 2 @@ bob :> 2)

-------------------------------------------------------------------------------
(* Boosts: each block of a boost adds the whole score once more, so that scores that
   change in parts are boosted without a remainder. *)

BoostConfig ==
    [BaseConfig EXCEPT !.enableBoosting = TRUE, !.boostFactor = 500, !.enableTurnoutBias = TRUE,
                       !.quorumMode = "FOR"]

-------------------------------------------------------------------------------
(* Delegation *)

DirectToCarol == {<<alice, carol>>, <<bob, carol>>}
DirectAndSelf == DirectToCarol \cup {<<carol, carol>>}
Chain == {<<alice, bob>>, <<bob, carol>>}
DelegationAvailable == (alice :> 1 @@ bob :> 0 @@ carol :> 0 @@ treasury :> 0)
FewScores == 0 .. 1
SignedScores == -1 .. 1
BobStaked == (alice :> 0 @@ bob :> 1 @@ carol :> 0)
NoStake == [x \in Accounts |-> 0]
===============================================================================
