---------------------------- MODULE TreasuryReward ----------------------------
(***************************************************************************)
(* What a block mints for the treasury (governance/internal_method.ts): an *)
(* amount by the bracket of its height, and a tax on the generator's block *)
(* reward by another. A bracket is an amount or a percentage of the reward.*)
(***************************************************************************)
EXTENDS VoteWeight, GovernableConfig

\* No bracket mints nothing.
NothingToMint == [percent |-> FALSE, value |-> 0]

\* A mutant: periods are counted from the first block.
LocationFromStart(config, height) == height \div config[Distance]

BracketLocation(config, height) ==
    IF height < config[Offset] THEN 0
    ELSE (height - config[Offset]) \div config[Distance]

\* Past the last bracket, the last one.
Bracket(brackets, location) ==
    IF brackets = <<>> THEN NothingToMint
    ELSE IF location > Len(brackets) - 1 THEN Last(brackets)
    ELSE brackets[location + 1]

Minted(config, height, reward) ==
    ParseBigintOrPercentage(Bracket(config[MintBracket], BracketLocation(config, height)), reward)

Taxed(config, height, reward) ==
    ParseBigintOrPercentage(Bracket(config[TaxBracket], BracketLocation(config, height)), reward)

\* addTreasuryReward: what the treasury gets, and what it leaves in the context
\* for the dynamic reward module to mint for the generator.
TreasuryGets(config, height, reward) == Minted(config, height, reward) + Taxed(config, height, reward)
RewardContext(config, height, reward) == reward - Taxed(config, height, reward)
===============================================================================
