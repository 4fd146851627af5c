---------------------------- MODULE TokenModules ----------------------------
(***************************************************************************)
(* token_factory with its airdrops and ICO pools, and liquid_pos, on one   *)
(* token module. They meet in the balances, and in the token ids:          *)
(* liquid_pos takes its id at the first stake, token_factory gives ids to  *)
(* its creators.                                                           *)
(***************************************************************************)
EXTENDS Airdrop, Ico, LiquidPos

vars == <<ledgerVars, factoryVars, airdropVars, icoVars, staked>>

Init ==
    /\ LedgerInit
    /\ supply = [id \in TokenIds |->
          SumOver(InitBalance[id]) + IF id = NativeTokenID THEN SumOver(InitStake) ELSE 0]
    /\ FactoryInit
    /\ AirdropInit
    /\ StakedInit
    /\ IcoInit

Transfer ==
    /\ \E id \in TokenIds, from \in Users, to \in Holders :
          /\ to \in Pools => ico[to] = None
          /\ TokenTransfer(id, from, to)
    /\ UNCHANGED <<factoryVars, airdropVars, icoVars, staked>>

Stake ==
    /\ \E a \in Users, n \in StakeAmounts : StakeCommand(a, n) \/ FailedStakeCommand(a, n)
    /\ UNCHANGED <<factoryVars, airdropVars, icoVars>>

Factory == FactoryCommand /\ UNCHANGED <<airdropVars, icoVars, staked>>

Distribution == AirdropCommand /\ UNCHANGED <<icoVars, staked>>

Sale == IcoCommand /\ UNCHANGED <<airdropVars, staked>>

NextBlock == BeforeTransactionsExecute /\ UNCHANGED <<airdropVars, icoVars, staked>>

\* The end of the model, at the last height.
Horizon == height = MaxHeight /\ UNCHANGED vars

Next == Transfer \/ Stake \/ Factory \/ Distribution \/ Sale \/ NextBlock \/ Horizon

Spec == Init /\ [][Next]_vars

-------------------------------------------------------------------------------
(* Properties *)

\* What is locked for vesting is what the schedule of the heights to come unlocks,
\* token by token and holder by holder: the unlock in the block hook can neither
\* throw, which would stop the chain, nor leave an amount locked for ever; and no
\* command, a burn neither, spends what is locked.
VestedMatchesSchedule ==
    \A id \in TokenIds, a \in Holders :
        /\ available[id][a] >= 0
        /\ vestingLocked[id][a] =
            SumFunctionOnSet([h \in Heights |-> toBeUnlocked[h][id][a]], {h \in Heights : h > height})

\* No schedule is left at a height that is over: nothing is ever written where the
\* block hook has passed already, and what it finds it takes away.
PastIsUnlocked == \A h \in Heights : h <= height => toBeUnlocked[h] = Nothing

\* Nobody creates the token of liquid_pos as a token of its own, to mint or burn
\* it: not before the first stake, when the token module does not know it yet, and
\* not after.
LstHasNoOwner == owner[LstTokenID] = None

\* A creation never takes over a token that exists, whoever made it.
CreationTakesFreshId ==
    [][\A id \in TokenIds : owner[id] = None /\ owner'[id] # None =>
          /\ id \notin initialized
          /\ id >= nextTokenId /\ id < nextTokenId']_vars

\* Every promise of an airdrop is paid once: for each recipient the list holds
\* what was promised, by creation and edits, less what was paid.
EachPromisePaidOnce ==
    \A k \in AirdropKeys, a \in Holders :
        (IF airdrop[k] = None THEN 0 ELSE Owed(airdrop[k], a)) = due[k][a]

\* However many swaps of every kind are made at a price, the provider earns what the sold
\* tokens are worth, but for the rounding of each quote and the inexactness of the large.
PoolSellsAtPrice ==
    \A pool \in Pools : ico[pool] # None =>
        LET price == ico[pool].price
            gap == price.den * book[pool].earned - price.num * book[pool].sold
        IN  WithinRounding(price, gap, book[pool].swaps, book[pool].inexact)
===============================================================================
