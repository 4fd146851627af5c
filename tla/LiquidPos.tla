------------------------------ MODULE LiquidPos ------------------------------
(***************************************************************************)
(* liquid_pos: after a stake command of PoS it mints liquid staking tokens *)
(* for the net stake that the command asked for, or burns them for what it *)
(* asked to unstake, whether or not it got it.                             *)
(* The ratio is a uint32 that no proposal can change.                      *)
(***************************************************************************)
EXTENDS TokenLedger

CONSTANTS
    LstTokenID,     \* config.tokenID
    NativeTokenID,  \* the token that is staked
    Ratio,          \* config.ratio
    InitStake,      \* staked at genesis, without liquid staking tokens
    StakeAmounts    \* the net amounts of stake commands

ASSUME LiquidPosAssumption ==
    /\ {LstTokenID, NativeTokenID} \subseteq TokenIds
    /\ NativeTokenID \in GenesisTokens
    /\ LstTokenID \notin GenesisTokens \* asserted by handleInitGenesisState
    /\ Ratio \in Nat \ {0}
    /\ InitStake \in [Holders -> Nat]
    /\ StakeAmounts \subseteq Int \ {0}

VARIABLE staked     \* locked by PoS, per holder

StakedInit == staked = InitStake

\* Minted for a positive net stake, burnt for a negative one.
LstAmount(n) == n * Ratio

\* InternalLiquidPosMethod.handleAfterCommandExecute, by the parameters of the command
HandleAfterCommandExecute(a, n, balances) ==
    /\ initialized' = initialized \cup {LstTokenID}
    /\ balances[LstTokenID][a] + LstAmount(n) >= 0
    /\ supply[LstTokenID] + LstAmount(n) \in 0 .. MaxSupply
    /\ available' = [balances EXCEPT ![LstTokenID][a] = @ + LstAmount(n)]
    /\ supply' = [supply EXCEPT ![LstTokenID] = @ + LstAmount(n)]

\* A stake command of PoS that succeeds
StakeCommand(a, n) ==
    /\ n > 0 => available[NativeTokenID][a] >= n
    /\ n < 0 => staked[a] >= -n
    /\ staked' = [staked EXCEPT ![a] = @ + n]
    /\ HandleAfterCommandExecute(a, n, [available EXCEPT ![NativeTokenID][a] = @ - n])

\* One that PoS refuses, for a reason of its own. The hook does not look at the result.
FailedStakeCommand(a, n) ==
    /\ HandleAfterCommandExecute(a, n, available)
    /\ UNCHANGED staked
===============================================================================
