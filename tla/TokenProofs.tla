------------------------------ MODULE TokenProofs ------------------------------
(***************************************************************************)
(* Theorems about the token modules, for every finite set of holders,      *)
(* every set of tokens, every configuration and every amount:              *)
(*                                                                         *)
(*   - a creation takes an id that nothing used before, and the token of   *)
(*     liquid_pos is never one of them if the configuration reserves it;   *)
(*   - the schedule of a height that is over is empty;                     *)
(*   - what is locked for vesting is what the schedule unlocks, an ICO     *)
(*     pool sells at its price, and each promise of an airdrop is paid     *)
(*     once.                                                               *)
(*                                                                         *)
(* IdsInv carries the first part, ScheduleInv the second. LedgerInv has    *)
(* the types that the arithmetic needs, and that nobody's balance is       *)
(* negative; the third part is inductive with LedgerInv.                   *)
(***************************************************************************)
EXTENDS TokenModules, SumProofs, QuoterProofs, SequenceTheorems

-------------------------------------------------------------------------------
(* Token ids *)

idVars == <<initialized, owner, nextTokenId>>

IdsTypeOK ==
    /\ initialized \subseteq TokenIds
    /\ owner \in [TokenIds -> Holders \cup {None}]
    /\ nextTokenId \in Nat

\* Ids below the counter may be taken, ids above it only by genesis or liquid_pos.
IdsInv ==
    /\ IdsTypeOK
    /\ nextTokenId >= FirstTokenId
    /\ \A id \in initialized :
          id \in GenesisTokens \/ id = LstTokenID \/ id < nextTokenId

Created(id, sender) ==
    /\ IsCreatedTokenId(id)
    /\ initialized' = initialized \cup {id}
    /\ owner' = [owner EXCEPT ![id] = sender]
    /\ nextTokenId' = id + 1

HandedOver(id, to) ==
    /\ owner[id] # None
    /\ owner' = [owner EXCEPT ![id] = to]
    /\ UNCHANGED <<initialized, nextTokenId>>

FirstStake ==
    /\ initialized' = initialized \cup {LstTokenID}
    /\ UNCHANGED <<owner, nextTokenId>>

\* Airdrops and sales move balances: they make no tokens and touch no factory.
LEMMA AirdropsKeepFactories == AirdropCommand => UNCHANGED <<initialized, factoryVars>>
<1>1. ASSUME NEW sender \in Users, NEW id \in TokenIds, NEW provider \in Users,
             NEW list \in RecipientLists, AirdropCreate(sender, id, provider, list)
      PROVE  UNCHANGED <<initialized, factoryVars>>
  BY <1>1 DEF AirdropCreate, ledgerVars
<1>2. ASSUME NEW sender \in Users, NEW id \in TokenIds, NEW edits \in RecipientEdits,
             EditRecipients(sender, id, edits)
      PROVE  UNCHANGED <<initialized, factoryVars>>
  BY <1>2 DEF EditRecipients, ledgerVars
<1>3. ASSUME NEW sender \in Users, NEW id \in TokenIds, Distribute(sender, id)
      PROVE  UNCHANGED <<initialized, factoryVars>>
  BY <1>3 DEF Distribute
<1> QED BY <1>1, <1>2, <1>3 DEF AirdropCommand, AirdropCreateCommand,
           AirdropEditRecipientsCommand, AirdropDistributeCommand

LEMMA SalesKeepFactories == IcoCommand => UNCHANGED <<initialized, factoryVars>>
<1>1. ASSUME NEW sender, NEW recipient, NEW pool, NEW n, NEW m, NEW inexact,
             IcoSwapInternal(sender, recipient, pool, n, m, inexact)
      PROVE  UNCHANGED <<initialized, factoryVars>>
  <2>1. initialized' = initialized /\ UNCHANGED factoryVars
    BY <1>1 DEF IcoSwapInternal
  <2> QED BY <2>1
<1>2. \A sender, recipient, pool, n :
         /\ ExactInputSingle(sender, recipient, pool, n) => UNCHANGED <<initialized, factoryVars>>
         /\ ExactOutputSingle(sender, recipient, pool, n) => UNCHANGED <<initialized, factoryVars>>
  BY <1>1 DEF ExactInputSingle, ExactOutputSingle
<1>3. \A sender, pool, provider, price, n :
         IcoCreate(sender, pool, provider, price, n) => UNCHANGED <<initialized, factoryVars>>
  BY DEF IcoCreate
<1>4. \A sender, pool, price :
         IcoChangePrice(sender, pool, price) => UNCHANGED <<initialized, factoryVars>>
  BY DEF IcoChangePrice, ledgerVars
<1>5. \A sender, pool, n :
         /\ IcoDeposit(sender, pool, n) => UNCHANGED <<initialized, factoryVars>>
         /\ IcoWithdraw(sender, pool, n) => UNCHANGED <<initialized, factoryVars>>
  BY DEF IcoDeposit, IcoWithdraw
<1>6. \A sender, pool, id :
         /\ IcoTreasurify(pool, id) => UNCHANGED <<initialized, factoryVars>>
         /\ SwapByTransfer(id, sender, pool) => UNCHANGED <<initialized, factoryVars>>
  BY <1>2 DEF IcoTreasurify, SwapByTransfer
<1> QED BY <1>2, <1>3, <1>4, <1>5, <1>6
        DEF IcoCommand, IcoCreateCommand, IcoChangePriceCommand, IcoDepositCommand,
            IcoWithdrawCommand, IcoTreasurifyCommand, IcoSingleCommand, IcoTransferCommand

\* What a step can do to the token ids: three things, or nothing.
LEMMA IdSteps ==
    ASSUME [Next]_vars
    PROVE  \/ \E id \in TokenIds, sender \in Users : Created(id, sender)
           \/ \E id \in TokenIds, to \in Users : HandedOver(id, to)
           \/ FirstStake
           \/ UNCHANGED idVars
<1>1. CASE Factory
  <2>1. CASE TokenCreateCommand
    BY <2>1 DEF TokenCreateCommand, Create, RegisterFactory, Created
  <2>2. CASE TokenMintCommand
    BY <2>2 DEF TokenMintCommand, Mint, idVars
  <2>3. CASE TokenBurnCommand
    BY <2>3 DEF TokenBurnCommand, Burn, idVars, factoryVars
  <2>4. CASE FactoryTransferOwnershipCommand
    BY <2>4 DEF FactoryTransferOwnershipCommand, TransferOwnership, FactoryExists, HandedOver,
       ledgerVars
  <2>5. CASE FactorySetAttributesCommand
    BY <2>5 DEF FactorySetAttributesCommand, SetAttributes, idVars, ledgerVars
  <2> QED BY <1>1, <2>1, <2>2, <2>3, <2>4, <2>5 DEF Factory, FactoryCommand
<1>2. CASE Transfer
  BY <1>2 DEF Transfer, TokenTransfer, idVars, factoryVars
<1>3. CASE Stake
  BY <1>3 DEF Stake, StakeCommand, FailedStakeCommand, HandleAfterCommandExecute, FirstStake,
     factoryVars
<1>4. CASE Distribution
  BY <1>4, AirdropsKeepFactories DEF Distribution, idVars, factoryVars
<1>5. CASE Sale
  BY <1>5, SalesKeepFactories DEF Sale, idVars, factoryVars
<1>6. CASE NextBlock
  BY <1>6 DEF NextBlock, BeforeTransactionsExecute, idVars
<1>7. CASE Horizon \/ UNCHANGED vars
  BY <1>7 DEF Horizon, vars, idVars, ledgerVars, factoryVars
<1> QED BY <1>1, <1>2, <1>3, <1>4, <1>5, <1>6, <1>7 DEF Next

LEMMA IdsInvInit == Init => IdsInv
BY LedgerAssumption, FactoryAssumption
   DEF Init, LedgerInit, FactoryInit, IdsInv, IdsTypeOK

\* A created id is new, and the counter passes it.
LEMMA CreatedIsFresh ==
    ASSUME IdsTypeOK, NEW id \in TokenIds, IsCreatedTokenId(id)
    PROVE  id \notin initialized /\ id >= nextTokenId
BY FactoryAssumption
   DEF IdsTypeOK, IsCreatedTokenId, IsTokenIDAvailable, IsNextTokenId

LEMMA IdsInvNext == IdsInv /\ [Next]_vars => IdsInv'
<1> SUFFICES ASSUME IdsInv, [Next]_vars PROVE IdsInv'
  OBVIOUS
<1> USE DEF IdsInv, IdsTypeOK
<1>1. ASSUME NEW id \in TokenIds, NEW sender \in Users, Created(id, sender)
      PROVE  IdsInv'
  <2>1. id >= nextTokenId /\ id \in Nat /\ FirstTokenId \in Nat
    BY <1>1, CreatedIsFresh, FactoryAssumption DEF Created
  <2>2. initialized \subseteq Nat
    BY FactoryAssumption
  <2>3. IdsTypeOK'
    BY <1>1, <2>1, LedgerAssumption DEF Created
  <2> QED BY <1>1, <2>1, <2>2, <2>3 DEF Created
<1>2. ASSUME NEW id \in TokenIds, NEW to \in Users, HandedOver(id, to)
      PROVE  IdsInv'
  BY <1>2, LedgerAssumption DEF HandedOver
<1>3. CASE FirstStake
  BY <1>3, LiquidPosAssumption DEF FirstStake
<1>4. CASE UNCHANGED idVars
  BY <1>4 DEF idVars
<1> QED BY <1>1, <1>2, <1>3, <1>4, IdSteps

LEMMA IdsInvariant == Spec => []IdsInv
BY IdsInvInit, IdsInvNext, PTL DEF Spec

\* A creation never takes over a token that exists, whoever made it: the loop of
\* Factory.create over isTokenIDAvailable, for every set of ids and skipped ids.
THEOREM FreshIds == Spec => CreationTakesFreshId
<1> DEFINE Fresh == \A id \in TokenIds : owner[id] = None /\ owner'[id] # None =>
              /\ id \notin initialized
              /\ id >= nextTokenId /\ id < nextTokenId'
<1>1. ASSUME IdsInv, [Next]_vars PROVE [Fresh]_vars
  <2> SUFFICES ASSUME NEW id \in TokenIds, owner[id] = None, owner'[id] # None
               PROVE  id \notin initialized /\ id >= nextTokenId /\ id < nextTokenId'
    OBVIOUS
  <2>1. ASSUME NEW new \in TokenIds, NEW sender \in Users, Created(new, sender)
        PROVE  id \notin initialized /\ id >= nextTokenId /\ id < nextTokenId'
    <3>1. new = id
      BY <1>1, <2>1 DEF Created, IdsInv, IdsTypeOK
    <3>2. id \in Nat
      BY FactoryAssumption
    <3>3. IsCreatedTokenId(id) /\ nextTokenId' = id + 1
      BY <2>1, <3>1 DEF Created
    <3>4. id \notin initialized /\ id >= nextTokenId
      BY <1>1, <3>3, CreatedIsFresh DEF IdsInv
    <3> QED BY <3>2, <3>3, <3>4
  <2>2. ASSUME NEW old \in TokenIds, NEW to \in Users, HandedOver(old, to)
        PROVE  FALSE
    BY <2>2 DEF HandedOver, IdsInv, IdsTypeOK
  <2>3. ~FirstStake /\ ~UNCHANGED idVars
    BY DEF FirstStake, idVars
  <2> QED BY <1>1, <2>1, <2>2, <2>3, IdSteps
<1> QED BY <1>1, IdsInvariant, PTL DEF Spec, CreationTakesFreshId

-------------------------------------------------------------------------------
(* The token of liquid_pos *)

\* The configuration skips the token of liquid_pos, and no genesis token stands
\* between the first id and it.
LstIsReserved ==
    /\ LstTokenID \in SkippedTokenIDs
    /\ GenesisTokens \cap (FirstTokenId .. LstTokenID) = {}

\* The token of liquid_pos is never created: the first candidate is another one,
\* and the loop goes on only over ids that are taken.
LEMMA LstIsNotCreated ==
    ASSUME LstIsReserved, IdsInv
    PROVE  ~IsCreatedTokenId(LstTokenID)
<1> SUFFICES ASSUME NEW first \in TokenIds, IsNextTokenId(first), first <= LstTokenID,
                    \A j \in first .. LstTokenID - 1 : ~IsTokenIDAvailable(j)
             PROVE  FALSE
  BY DEF IsCreatedTokenId
<1>1. first \in Nat /\ LstTokenID \in Nat /\ FirstTokenId \in Nat /\ nextTokenId \in Nat
  BY FactoryAssumption, LiquidPosAssumption DEF IdsInv, IdsTypeOK
<1>2. first >= nextTokenId /\ first >= FirstTokenId /\ first < LstTokenID
  BY <1>1 DEF IsNextTokenId, LstIsReserved, IdsInv
<1>3. first \in initialized
  BY <1>1, <1>2 DEF IsTokenIDAvailable
<1>4. first \notin GenesisTokens
  BY <1>1, <1>2 DEF LstIsReserved
<1> QED BY <1>1, <1>2, <1>3, <1>4 DEF IdsInv

\* Nobody ever owns the token of liquid_pos, so that nobody mints or burns it through
\* token_factory, provided the configuration reserves its id.
THEOREM LstIsNobodys == ASSUME LstIsReserved PROVE Spec => []LstHasNoOwner
<1>1. Init => LstHasNoOwner
  BY LiquidPosAssumption DEF Init, FactoryInit, LstHasNoOwner
<1>2. IdsInv /\ LstHasNoOwner /\ [Next]_vars => LstHasNoOwner'
  <2> SUFFICES ASSUME IdsInv, LstHasNoOwner, [Next]_vars PROVE LstHasNoOwner'
    OBVIOUS
  <2>1. LstTokenID \in TokenIds
    BY LiquidPosAssumption
  <2>2. ASSUME NEW id \in TokenIds, NEW sender \in Users, Created(id, sender)
        PROVE  LstHasNoOwner'
    <3>1. id # LstTokenID
      BY <2>2, LstIsNotCreated DEF Created
    <3> QED BY <2>1, <2>2, <3>1 DEF Created, LstHasNoOwner, IdsInv, IdsTypeOK
  <2>3. ASSUME NEW id \in TokenIds, NEW to \in Users, HandedOver(id, to)
        PROVE  LstHasNoOwner'
    BY <2>1, <2>3 DEF HandedOver, LstHasNoOwner, IdsInv, IdsTypeOK
  <2>4. CASE FirstStake \/ UNCHANGED idVars
    BY <2>4 DEF FirstStake, idVars, LstHasNoOwner
  <2> QED BY <2>2, <2>3, <2>4, IdSteps
<1> QED BY <1>1, <1>2, IdsInvariant, PTL DEF Spec

-------------------------------------------------------------------------------
(* The schedule *)

\* The function on heights is needed where the next block updates it.
ScheduleInv ==
    /\ height \in Nat
    /\ DOMAIN toBeUnlocked = Heights
    /\ toBeUnlocked = [h \in Heights |-> toBeUnlocked[h]]
    /\ PastIsUnlocked

\* Minting writes nothing to a height that is not in the future.
LEMMA MintKeepsPast ==
    ASSUME ScheduleInv, NEW id \in TokenIds, NEW dist, HandleMintDistribution(id, dist),
           height' = height
    PROVE  ScheduleInv'
<1>a. /\ DOMAIN toBeUnlocked' = Heights
      /\ toBeUnlocked' = [h \in Heights |-> toBeUnlocked'[h]]
  BY DEF HandleMintDistribution
<1> SUFFICES ASSUME NEW h \in Heights, h <= height PROVE toBeUnlocked'[h] = Nothing
  BY <1>a DEF ScheduleInv, PastIsUnlocked
<1>1. toBeUnlocked[h] = Nothing
  BY DEF ScheduleInv, PastIsUnlocked
<1>2. \A a \in Holders : VestedAt(dist, a, h) = 0
  BY FactoryAssumption DEF VestedAt, VestsLater, ScheduleInv, Heights
<1>3. toBeUnlocked'[h] = [Nothing EXCEPT ![id] = [a \in Holders |-> @[a] + 0]]
  BY <1>1, <1>2 DEF HandleMintDistribution
<1>4. [a \in Holders |-> Nothing[id][a] + 0] = Nothing[id]
  BY DEF Nothing
<1> QED BY <1>3, <1>4 DEF Nothing

\* Every other step but the next block leaves height and schedule alone.
LEMMA ScheduleSteps ==
    ASSUME [Next]_vars
    PROVE  \/ \E id \in TokenIds, dist \in Distributions :
                  HandleMintDistribution(id, dist) /\ height' = height
           \/ NextBlock
           \/ UNCHANGED <<height, toBeUnlocked>>
<1>1. CASE Factory
  <2>1. CASE TokenCreateCommand \/ TokenMintCommand
    BY <2>1 DEF TokenCreateCommand, TokenMintCommand, Create, Mint
  <2>2. CASE TokenBurnCommand
    BY <2>2 DEF TokenBurnCommand, Burn, factoryVars
  <2>3. CASE FactoryTransferOwnershipCommand \/ FactorySetAttributesCommand
    BY <2>3 DEF FactoryTransferOwnershipCommand, TransferOwnership, FactorySetAttributesCommand,
       SetAttributes
  <2> QED BY <1>1, <2>1, <2>2, <2>3 DEF Factory, FactoryCommand
<1>2. CASE Transfer \/ Stake \/ Horizon \/ UNCHANGED vars
  BY <1>2 DEF Transfer, Stake, Horizon, vars, factoryVars
<1>3. CASE Distribution
  BY <1>3, AirdropsKeepFactories DEF Distribution, factoryVars
<1>4. CASE Sale
  BY <1>4, SalesKeepFactories DEF Sale, factoryVars
<1> QED BY <1>1, <1>2, <1>3, <1>4 DEF Next

\* The schedule of a height that is over is empty: a minted amount that was locked is
\* always on the schedule of a height that the block hook has yet to reach.
THEOREM NothingLeftBehind == Spec => []PastIsUnlocked
<1>1. Init => ScheduleInv
  BY FactoryAssumption DEF Init, FactoryInit, ScheduleInv, PastIsUnlocked
<1>2. ScheduleInv /\ [Next]_vars => ScheduleInv'
  <2> SUFFICES ASSUME ScheduleInv, [Next]_vars PROVE ScheduleInv'
    OBVIOUS
  <2>1. ASSUME NEW id \in TokenIds, NEW dist \in Distributions,
               HandleMintDistribution(id, dist), height' = height
        PROVE  ScheduleInv'
    BY <2>1, MintKeepsPast
  <2>2. CASE NextBlock
    <3>1. height' = height + 1
      BY <2>2 DEF NextBlock, BeforeTransactionsExecute
    <3>2. toBeUnlocked' = [toBeUnlocked EXCEPT ![height + 1] = Nothing]
      BY <2>2 DEF NextBlock, BeforeTransactionsExecute, VestingUnlock
    <3>3. ASSUME NEW h \in Heights, h <= height + 1, h # height + 1
          PROVE  h <= height
      BY <3>3, FactoryAssumption DEF ScheduleInv, Heights
    <3> QED BY <3>1, <3>2, <3>3 DEF ScheduleInv, PastIsUnlocked
  <2>3. CASE UNCHANGED <<height, toBeUnlocked>>
    BY <2>3 DEF ScheduleInv, PastIsUnlocked
  <2> QED BY <2>1, <2>2, <2>3, ScheduleSteps
<1>3. ScheduleInv => PastIsUnlocked
  BY DEF ScheduleInv
<1> QED BY <1>1, <1>2, <1>3, PTL DEF Spec

-------------------------------------------------------------------------------
(* Rows: what the holders have of one token *)

Rows == [TokenIds -> [Holders -> Nat]]

\* What a transfer leaves in a table of balances
TransferredIn(t, id, from, to, n) == [t EXCEPT ![id][from] = @ - n, ![id][to] = @ + n]

LEMMA TransferInTable ==
    ASSUME NEW t \in Rows, NEW id \in TokenIds, NEW from \in Holders, NEW to \in Holders,
           NEW n \in Nat, t[id][from] >= n,
           NEW u, u = TransferredIn(t, id, from, to, n)
    PROVE  u \in Rows
BY DEF TransferredIn, Rows

LEMMA TransferKeepsRows ==
    ASSUME available \in Rows, NEW id \in TokenIds, NEW from \in Holders, NEW to \in Holders,
           NEW n \in Nat, available[id][from] >= n,
           NEW t, t = Transferred(id, from, to, n)
    PROVE  t \in Rows
<1>1. t = TransferredIn(available, id, from, to, n)
  BY DEF Transferred, TransferredIn
<1> QED BY <1>1, TransferInTable

-------------------------------------------------------------------------------
(* The invariant *)

AirdropLists == Seq([address : Holders, amount : Nat])

BalancesTyped ==
    /\ available \in Rows /\ vestingLocked \in Rows /\ icoLocked \in Rows
    /\ supply \in [TokenIds -> Int]
    /\ staked \in [Holders -> Nat]
    /\ height \in Nat
    /\ toBeUnlocked \in [Heights -> Rows]

PoolsTyped ==
    /\ leftOver \in Holders \cup {None}
    /\ DOMAIN ico = Pools
    /\ \A pool \in Pools : ico[pool] # None =>
          ico[pool] \in [price : [num : Nat, den : Nat \ {0}], providerAddress : Holders]

AirdropsTyped ==
    /\ DOMAIN airdrop = AirdropKeys
    /\ \A k \in AirdropKeys : airdrop[k] # None => airdrop[k] \in AirdropLists

LedgerInv == BalancesTyped /\ PoolsTyped /\ AirdropsTyped

LEMMA LedgerInvInit == Init => LedgerInv
<1> SUFFICES ASSUME Init PROVE LedgerInv
  OBVIOUS
<1>1. Nothing \in Rows
  BY DEF Nothing, Rows
<1>2. BalancesTyped
  <2>1. \A id \in TokenIds : SumOver(InitBalance[id]) \in Int
    BY SumInt, LedgerAssumption DEF SumOver
  <2>2. SumOver(InitStake) \in Int
    BY SumInt, LedgerAssumption, LiquidPosAssumption DEF SumOver
  <2>3. supply \in [TokenIds -> Int]
    BY <2>1, <2>2 DEF Init
  <2> QED BY <1>1, <2>3, LedgerAssumption, FactoryAssumption, LiquidPosAssumption
          DEF Init, LedgerInit, FactoryInit, IcoInit, StakedInit, BalancesTyped, Rows
<1>3. PoolsTyped /\ AirdropsTyped
  BY IcoAssumption DEF Init, IcoInit, AirdropInit, PoolsTyped, AirdropsTyped
<1> QED BY <1>2, <1>3 DEF LedgerInv

\* A step that moves what is available between holders
LEMMA MovesKeepBalances ==
    ASSUME LedgerInv, available' \in Rows,
           UNCHANGED <<supply, staked, vestingLocked, icoLocked, toBeUnlocked, height>>
    PROVE  BalancesTyped'
BY DEF LedgerInv, BalancesTyped

LEMMA TransferKeepsLedger == ASSUME LedgerInv, Transfer PROVE LedgerInv'
<1>1. PICK id \in TokenIds, from \in Users, to \in Holders : TokenTransfer(id, from, to)
  BY DEF Transfer
<1>2. PICK n \in Transfers : /\ available[id][from] >= n
                             /\ available' = Transferred(id, from, to, n)
                             /\ supply' = supply
  BY <1>1 DEF TokenTransfer
<1>3. n \in Nat /\ from \in Holders /\ available \in Rows
  BY LedgerAssumption DEF LedgerInv, BalancesTyped
<1>4. available' \in Rows
  BY <1>2, <1>3, TransferKeepsRows
<1>5. BalancesTyped'
  BY <1>2, <1>4, MovesKeepBalances DEF Transfer, factoryVars, icoVars
<1>6. PoolsTyped' /\ AirdropsTyped'
  BY DEF Transfer, icoVars, airdropVars, LedgerInv, PoolsTyped, AirdropsTyped
<1> QED BY <1>5, <1>6 DEF LedgerInv

\* The hook of liquid_pos leaves no negative balance, if it found none but that of the
\* native token, which it does not touch.
LEMMA HookEffect ==
    ASSUME LedgerInv, NEW a \in Users, NEW n \in StakeAmounts, NEW balances \in Rows,
           HandleAfterCommandExecute(a, n, balances)
    PROVE  available' \in Rows /\ supply' \in [TokenIds -> Int]
<1>1. a \in Holders /\ LstTokenID \in TokenIds /\ n \in Int /\ Ratio \in Int
  BY LiquidPosAssumption, LedgerAssumption
<1>2. PICK m \in Int : m = LstAmount(n)
  BY <1>1 DEF LstAmount
<1>3. /\ balances[LstTokenID][a] + m >= 0
      /\ available' = [balances EXCEPT ![LstTokenID][a] = @ + m]
      /\ supply' = [supply EXCEPT ![LstTokenID] = @ + m]
  BY <1>2 DEF HandleAfterCommandExecute
<1>4. available' \in Rows
  BY <1>1, <1>2, <1>3 DEF Rows
<1>5. supply' \in [TokenIds -> Int]
  BY <1>1, <1>2, <1>3 DEF LedgerInv, BalancesTyped
<1> QED BY <1>4, <1>5

\* Staked tokens leave the balance if the command succeeds; the hook runs in any case.
LEMMA StakeEffect ==
    ASSUME LedgerInv, NEW a \in Users, NEW n \in StakeAmounts,
           StakeCommand(a, n) \/ FailedStakeCommand(a, n)
    PROVE  /\ available' \in Rows /\ supply' \in [TokenIds -> Int]
           /\ staked' \in [Holders -> Nat]
<1>1. a \in Holders /\ NativeTokenID \in TokenIds /\ n \in Int
  BY LiquidPosAssumption, LedgerAssumption
<1>2. available \in Rows /\ staked \in [Holders -> Nat]
  BY DEF LedgerInv, BalancesTyped
<1>3. CASE StakeCommand(a, n)
  <2>1. PICK left : left = [available EXCEPT ![NativeTokenID][a] = @ - n]
    OBVIOUS
  <2>2. available[NativeTokenID][a] - n >= 0
    BY <1>1, <1>2, <1>3 DEF StakeCommand, Rows
  <2>3. left \in Rows
    BY <1>1, <1>2, <2>1, <2>2 DEF Rows
  <2>4. HandleAfterCommandExecute(a, n, left)
    BY <1>3, <2>1 DEF StakeCommand
  <2>5. staked[a] + n >= 0 /\ staked' = [staked EXCEPT ![a] = @ + n]
    BY <1>1, <1>2, <1>3 DEF StakeCommand
  <2>6. staked' \in [Holders -> Nat]
    BY <1>1, <1>2, <2>5
  <2> QED BY <2>3, <2>4, <2>6, HookEffect
<1>4. CASE FailedStakeCommand(a, n)
  BY <1>2, <1>4, HookEffect DEF FailedStakeCommand
<1> QED BY <1>3, <1>4

LEMMA StakeKeepsLedger == ASSUME LedgerInv, Stake PROVE LedgerInv'
<1>1. PICK a \in Users, n \in StakeAmounts : StakeCommand(a, n) \/ FailedStakeCommand(a, n)
  BY DEF Stake
<1>2. /\ available' \in Rows /\ supply' \in [TokenIds -> Int] /\ staked' \in [Holders -> Nat]
  BY <1>1, StakeEffect
<1>3. UNCHANGED <<vestingLocked, icoLocked, toBeUnlocked, height>>
  BY DEF Stake, factoryVars, icoVars
<1>4. BalancesTyped'
  BY <1>2, <1>3 DEF LedgerInv, BalancesTyped
<1>5. PoolsTyped' /\ AirdropsTyped'
  BY DEF Stake, icoVars, airdropVars, LedgerInv, PoolsTyped, AirdropsTyped
<1> QED BY <1>4, <1>5 DEF LedgerInv

-------------------------------------------------------------------------------
(* Minting and vesting *)

\* The shape of a distribution
LEMMA DistributionFacts ==
    ASSUME NEW dist \in Distributions
    PROVE  /\ IsFiniteSet(DOMAIN dist)
           /\ \A i \in DOMAIN dist :
                 /\ dist[i].recipientAddress \in Holders
                 /\ dist[i].amount \in Nat /\ Amounts(dist)[i] \in Nat
                 /\ IsFiniteSet(DOMAIN dist[i].vesting)
                 /\ \A j \in DOMAIN dist[i].vesting : Amounts(dist[i].vesting)[j] \in Nat
<1> DEFINE Entry == [height : 0 .. LastVesting, amount : Nat]
           Item == [recipientAddress : Holders, amount : Nat, vesting : Seq(Entry)]
<1>1. dist \in Seq(Item)
  BY FactoryAssumption
<1>2. \A R : \A q \in Seq(R) : IsFiniteSet(DOMAIN q) /\ \A i \in DOMAIN q : q[i] \in R
  <2> SUFFICES ASSUME NEW R, NEW q \in Seq(R)
               PROVE  IsFiniteSet(DOMAIN q) /\ \A i \in DOMAIN q : q[i] \in R
    OBVIOUS
  <2>1. DOMAIN q = 1 .. Len(q) /\ Len(q) \in Nat
    OBVIOUS
  <2> QED BY <2>1, FS_Interval, ElementOfSeq
<1>3. IsFiniteSet(DOMAIN dist) /\ \A i \in DOMAIN dist : dist[i] \in Item
  <2> HIDE DEF Item
  <2> QED BY <1>1, <1>2
<1>4. ASSUME NEW i \in DOMAIN dist
      PROVE  /\ dist[i].recipientAddress \in Holders /\ dist[i].amount \in Nat
             /\ dist[i].vesting \in Seq(Entry)
  BY <1>3
<1>5. ASSUME NEW i \in DOMAIN dist
      PROVE  /\ IsFiniteSet(DOMAIN dist[i].vesting)
             /\ \A j \in DOMAIN dist[i].vesting : dist[i].vesting[j] \in Entry
  <2> HIDE DEF Entry
  <2> QED BY <1>2, <1>4
<1> QED BY <1>3, <1>4, <1>5 DEF Amounts

\* What a distribution mints and vests are natural numbers.
LEMMA MintedNat ==
    ASSUME NEW dist \in Distributions, NEW a \in Holders
    PROVE  /\ Minted(dist, a) \in Nat
           /\ \A h \in Heights : VestedAt(dist, a, h) \in Nat
           /\ Vested(dist, a) \in Nat
<1>1. IsFiniteSet(Shares(dist, a)) /\ Shares(dist, a) \subseteq DOMAIN dist
  BY DistributionFacts, FS_Subset DEF Shares
<1>2. Minted(dist, a) \in Nat
  BY <1>1, DistributionFacts, SumNat DEF Minted
<1>3. ASSUME NEW h \in Heights PROVE VestedAt(dist, a, h) \in Nat
  <2>1. ASSUME NEW i \in DOMAIN dist PROVE UnlockedAt(dist[i].vesting, h) \in Nat
    <3>1. PICK J : J = {j \in DOMAIN dist[i].vesting : dist[i].vesting[j].height = h}
      OBVIOUS
    <3>2. J \subseteq DOMAIN dist[i].vesting /\ IsFiniteSet(J)
      BY <3>1, DistributionFacts, FS_Subset
    <3>3. \A j \in J : Amounts(dist[i].vesting)[j] \in Nat
      BY <3>2, DistributionFacts
    <3> QED BY <3>1, <3>2, <3>3, SumNat DEF UnlockedAt
  <2>2. PICK u : u = [i \in DOMAIN dist |-> UnlockedAt(dist[i].vesting, h)]
    OBVIOUS
  <2>3. \A i \in Shares(dist, a) : u[i] \in Nat
    BY <1>1, <2>1, <2>2
  <2>4. SumFunctionOnSet(u, Shares(dist, a)) \in Nat
    BY <1>1, <2>3, SumNat
  <2> QED BY <2>2, <2>4 DEF VestedAt
<1>4. Vested(dist, a) \in Nat
  <2>1. IsFiniteSet(Heights)
    BY FS_Interval, FactoryAssumption DEF Heights
  <2>2. PICK v : v = [h \in Heights |-> VestedAt(dist, a, h)]
    OBVIOUS
  <2>3. \A h \in Heights : v[h] \in Nat
    BY <1>3, <2>2
  <2> QED BY <2>1, <2>2, <2>3, SumNat DEF Vested
<1> QED BY <1>2, <1>3, <1>4

\* What a mint changes
LEMMA MintEffect ==
    ASSUME LedgerInv, NEW id \in TokenIds, NEW dist \in Distributions,
           HandleMintDistribution(id, dist)
    PROVE  /\ available' \in Rows /\ vestingLocked' \in Rows /\ supply' \in [TokenIds -> Int]
           /\ toBeUnlocked' \in [Heights -> Rows]
           /\ \A i \in TokenIds \ {id} :
                 /\ available'[i] = available[i] /\ vestingLocked'[i] = vestingLocked[i]
                 /\ supply'[i] = supply[i]
                 /\ \A h \in Heights : toBeUnlocked'[h][i] = toBeUnlocked[h][i]
           /\ \A a \in Holders :
                 /\ available'[id][a] = available[id][a] + Minted(dist, a) - Vested(dist, a)
                 /\ vestingLocked'[id][a] = vestingLocked[id][a] + Vested(dist, a)
                 /\ \A h \in Heights :
                       toBeUnlocked'[h][id][a] = toBeUnlocked[h][id][a] + VestedAt(dist, a, h)
           /\ supply'[id] = supply[id] + SumFunctionOnSet(Amounts(dist), DOMAIN dist)
<1>1. PICK left : left = [a \in Holders |-> available[id][a] + Minted(dist, a) - Vested(dist, a)]
  OBVIOUS
<1>2. PICK locked : locked = [a \in Holders |-> vestingLocked[id][a] + Vested(dist, a)]
  OBVIOUS
<1>3. /\ available \in Rows /\ vestingLocked \in Rows /\ supply \in [TokenIds -> Int]
      /\ toBeUnlocked \in [Heights -> Rows]
  BY DEF LedgerInv, BalancesTyped
<1>4. /\ \A a \in Holders : left[a] >= 0
      /\ available' = [available EXCEPT ![id] = left]
      /\ vestingLocked' = [vestingLocked EXCEPT ![id] = locked]
  BY <1>1, <1>2 DEF HandleMintDistribution
<1>5. left \in [Holders -> Nat]
  <2>1. \A a \in Holders : available[id][a] + Minted(dist, a) - Vested(dist, a) \in Int
    BY <1>3, MintedNat DEF Rows
  <2> QED BY <1>1, <1>4, <2>1
<1>6. locked \in [Holders -> Nat]
  BY <1>2, <1>3, MintedNat DEF Rows
<1>7. /\ available' \in Rows /\ available'[id] = left
      /\ \A i \in TokenIds \ {id} : available'[i] = available[i]
  BY <1>3, <1>4, <1>5 DEF Rows
<1>8. /\ vestingLocked' \in Rows /\ vestingLocked'[id] = locked
      /\ \A i \in TokenIds \ {id} : vestingLocked'[i] = vestingLocked[i]
  BY <1>3, <1>4, <1>6 DEF Rows
<1>9. SumFunctionOnSet(Amounts(dist), DOMAIN dist) \in Int
  BY DistributionFacts, SumInt
<1>10. /\ supply' \in [TokenIds -> Int]
       /\ \A i \in TokenIds \ {id} : supply'[i] = supply[i]
       /\ supply'[id] = supply[id] + SumFunctionOnSet(Amounts(dist), DOMAIN dist)
  BY <1>3, <1>9 DEF HandleMintDistribution
<1>11. ASSUME NEW h \in Heights
       PROVE  /\ toBeUnlocked'[h] \in Rows
              /\ \A i \in TokenIds \ {id} : toBeUnlocked'[h][i] = toBeUnlocked[h][i]
              /\ \A a \in Holders :
                    toBeUnlocked'[h][id][a] = toBeUnlocked[h][id][a] + VestedAt(dist, a, h)
  <2>1. PICK row : row = [a \in Holders |-> toBeUnlocked[h][id][a] + VestedAt(dist, a, h)]
    OBVIOUS
  <2>2. toBeUnlocked[h] \in Rows
    BY <1>3
  <2>3. row \in [Holders -> Nat]
    BY <2>1, <2>2, MintedNat DEF Rows
  <2>4. toBeUnlocked'[h] = [toBeUnlocked[h] EXCEPT ![id] = row]
    BY <2>1 DEF HandleMintDistribution
  <2> QED BY <2>1, <2>2, <2>3, <2>4 DEF Rows
<1>12. toBeUnlocked' \in [Heights -> Rows]
  <2>1. toBeUnlocked' = [h \in Heights |-> toBeUnlocked'[h]]
    BY DEF HandleMintDistribution
  <2> QED BY <1>11, <2>1
<1> QED BY <1>1, <1>2, <1>7, <1>8, <1>10, <1>11, <1>12

LEMMA MintKeepsLedger ==
    ASSUME LedgerInv, NEW id \in TokenIds, NEW dist \in Distributions,
           HandleMintDistribution(id, dist), UNCHANGED <<height, staked, icoLocked>>
    PROVE  BalancesTyped'
BY MintEffect DEF LedgerInv, BalancesTyped

\* What is burnt was available.
LEMMA BurnKeepsLedger ==
    ASSUME LedgerInv, NEW sender \in Users, NEW id \in TokenIds, NEW n \in BurnAmounts,
           Burn(sender, id, n), UNCHANGED <<staked, icoLocked>>
    PROVE  BalancesTyped'
<1>1. n \in Nat /\ sender \in Holders
  BY FactoryAssumption, LedgerAssumption
<1>2. available \in Rows
  BY DEF LedgerInv, BalancesTyped
<1>3. /\ available[id][sender] >= n
      /\ available' = [available EXCEPT ![id][sender] = @ - n]
      /\ supply' = [supply EXCEPT ![id] = @ - n]
      /\ UNCHANGED factoryVars
  BY DEF Burn, CanBurn
<1>4. available' \in Rows
  BY <1>1, <1>2, <1>3 DEF Rows
<1>5. supply' \in [TokenIds -> Int]
  BY <1>1, <1>3 DEF LedgerInv, BalancesTyped
<1>6. UNCHANGED <<vestingLocked, toBeUnlocked, height, staked, icoLocked>>
  BY <1>3 DEF factoryVars
<1> QED BY <1>4, <1>5, <1>6 DEF LedgerInv, BalancesTyped

LEMMA FactoryKeepsLedger == ASSUME LedgerInv, Factory PROVE LedgerInv'
<1>1. UNCHANGED <<airdropVars, icoVars, staked>>
  BY DEF Factory
<1>2. PoolsTyped' /\ AirdropsTyped'
  BY <1>1 DEF icoVars, airdropVars, LedgerInv, PoolsTyped, AirdropsTyped
<1>3. CASE \E id \in TokenIds, dist \in Distributions :
               HandleMintDistribution(id, dist) /\ height' = height
  BY <1>1, <1>2, <1>3, MintKeepsLedger DEF icoVars, LedgerInv
<1>4. CASE TokenBurnCommand
  BY <1>1, <1>2, <1>4, BurnKeepsLedger DEF TokenBurnCommand, icoVars, LedgerInv
<1>5. CASE UNCHANGED <<available, supply, height, vestingLocked, toBeUnlocked>>
  <2>1. BalancesTyped'
    BY <1>1, <1>5 DEF icoVars, LedgerInv, BalancesTyped
  <2> QED BY <1>2, <2>1 DEF LedgerInv
<1>6. CASE TokenCreateCommand \/ TokenMintCommand
  BY <1>3, <1>6 DEF TokenCreateCommand, TokenMintCommand, Create, Mint
<1>7. CASE FactoryTransferOwnershipCommand \/ FactorySetAttributesCommand
  BY <1>5, <1>7 DEF FactoryTransferOwnershipCommand, TransferOwnership,
     FactorySetAttributesCommand, SetAttributes, ledgerVars
<1> QED BY <1>4, <1>6, <1>7 DEF Factory, FactoryCommand

\* What the block hook unlocks becomes available to the same holder.
LEMMA NextBlockKeepsLedger == ASSUME LedgerInv, NextBlock PROVE LedgerInv'
<1>1. /\ height < MaxHeight /\ height' = height + 1 /\ VestingUnlock(height + 1)
      /\ UNCHANGED <<supply, airdropVars, icoVars, staked>>
  BY DEF NextBlock, BeforeTransactionsExecute
<1>2. PICK h \in Heights : h = height + 1
  BY <1>1, FactoryAssumption DEF Heights, LedgerInv, BalancesTyped
<1>3. PICK unlocked \in Rows : unlocked = toBeUnlocked[h]
  BY DEF LedgerInv, BalancesTyped
<1>4. /\ \A i \in TokenIds, a \in Holders : vestingLocked[i][a] >= unlocked[i][a]
      /\ available' = [i \in TokenIds |-> [a \in Holders |-> available[i][a] + unlocked[i][a]]]
      /\ vestingLocked' = [i \in TokenIds |-> [a \in Holders |-> vestingLocked[i][a] - unlocked[i][a]]]
      /\ toBeUnlocked' = [toBeUnlocked EXCEPT ![h] = Nothing]
  BY <1>1, <1>2, <1>3 DEF VestingUnlock
<1>5. available \in Rows /\ vestingLocked \in Rows
  BY DEF LedgerInv, BalancesTyped
<1>6. available' \in Rows
  BY <1>4, <1>5 DEF Rows
<1>7. vestingLocked' \in Rows
  <2>1. \A i \in TokenIds, a \in Holders : vestingLocked[i][a] - unlocked[i][a] \in Nat
    BY <1>4, <1>5 DEF Rows
  <2> QED BY <1>4, <2>1 DEF Rows
<1>8. toBeUnlocked' \in [Heights -> Rows]
  <2>1. Nothing \in Rows
    BY DEF Nothing, Rows
  <2> QED BY <1>4, <2>1 DEF LedgerInv, BalancesTyped
<1>9. BalancesTyped'
  BY <1>1, <1>6, <1>7, <1>8 DEF LedgerInv, BalancesTyped, icoVars
<1>11. PoolsTyped' /\ AirdropsTyped'
  BY <1>1 DEF icoVars, airdropVars, LedgerInv, PoolsTyped, AirdropsTyped
<1> QED BY <1>9, <1>11 DEF LedgerInv

-------------------------------------------------------------------------------
(* Lists of recipients *)

OpenLists == Seq([address : Holders, amount : Int])
EditLists == Seq([address : Holders, amountDelta : Int])

\* What AfterEdits computes for the first n changes
EditRun(list, edits, n, run) ==
    run = [m \in 0 .. n |-> IF m = 0 THEN list ELSE Edited(run[m - 1], edits[m])]

LEMMA EditRunExists ==
    ASSUME NEW list, NEW edits, NEW n \in Nat
    PROVE  EditRun(list, edits, n, CHOOSE run : EditRun(list, edits, n, run))
<1> DEFINE Good == {k \in 0 .. n : \E run : EditRun(list, edits, k, run)}
<1>1. 0 \in Good
  <2>1. EditRun(list, edits, 0, [m \in 0 .. 0 |-> list])
    BY DEF EditRun
  <2> QED BY <2>1
<1>2. ASSUME NEW k \in 0 .. n - 1, k \in Good PROVE k + 1 \in Good
  <2>1. PICK run : EditRun(list, edits, k, run)
    BY <1>2
  <2>2. PICK next : next = [m \in 0 .. k + 1 |->
                                IF m = k + 1 THEN Edited(run[k], edits[k + 1]) ELSE run[m]]
    OBVIOUS
  <2>3. \A m \in 0 .. k + 1 :
            next[m] = IF m = 0 THEN list ELSE Edited(next[m - 1], edits[m])
    <3>1. \A m \in 0 .. k : run[m] = IF m = 0 THEN list ELSE Edited(run[m - 1], edits[m])
      BY <2>1 DEF EditRun
    <3>2. next[k + 1] = Edited(run[k], edits[k + 1]) /\ \A m \in 0 .. k : next[m] = run[m]
      BY <2>2
    <3>3. ASSUME NEW m \in 0 .. k + 1
          PROVE  next[m] = IF m = 0 THEN list ELSE Edited(next[m - 1], edits[m])
      <4>1. CASE m = k + 1
        <5>1. m # 0 /\ m - 1 = k /\ k \in 0 .. k
          BY <4>1
        <5> QED BY <3>2, <4>1, <5>1
      <4>2. CASE m \in 1 .. k
        <5>1. m - 1 \in 0 .. k /\ m \in 0 .. k /\ m # 0
          BY <4>2
        <5> QED BY <3>1, <3>2, <5>1
      <4>3. CASE m = 0
        <5>1. 0 \in 0 .. k
          OBVIOUS
        <5> QED BY <3>1, <3>2, <4>3, <5>1
      <4> QED BY <4>1, <4>2, <4>3
    <3> QED BY <3>3
  <2>4. EditRun(list, edits, k + 1, next)
    <3>1. DOMAIN next = 0 .. k + 1 /\ next = [m \in 0 .. k + 1 |-> next[m]]
      BY <2>2
    <3> HIDE <2>2
    <3> QED BY <2>3, <3>1 DEF EditRun
  <2> QED BY <2>4
<1>3. n \in Good
  <2> HIDE DEF Good
  <2> QED BY <1>1, <1>2, UpTo
<1> QED BY <1>3

\* The recursion of AfterEdits
LEMMA AfterEditsStep ==
    ASSUME NEW list, NEW edits, NEW n \in Nat
    PROVE  /\ AfterEdits(list, edits, 0) = list
           /\ AfterEdits(list, edits, n + 1) = Edited(AfterEdits(list, edits, n), edits[n + 1])
<1>1. \A k \in Nat : AfterEdits(list, edits, k) = (CHOOSE run : EditRun(list, edits, k, run))[k]
  BY DEF AfterEdits, EditRun
<1>2. PICK r0, r1, r2 :
          /\ r0 = CHOOSE run : EditRun(list, edits, 0, run)
          /\ r1 = CHOOSE run : EditRun(list, edits, n, run)
          /\ r2 = CHOOSE run : EditRun(list, edits, n + 1, run)
  OBVIOUS
<1>3. /\ EditRun(list, edits, 0, r0) /\ EditRun(list, edits, n, r1)
      /\ EditRun(list, edits, n + 1, r2)
  <2>1. 0 \in Nat /\ n + 1 \in Nat
    OBVIOUS
  <2> QED BY <1>2, <2>1, EditRunExists
<1>4. r0[0] = list
  BY <1>3 DEF EditRun
<1>5. /\ \A m \in 0 .. n : r1[m] = IF m = 0 THEN list ELSE Edited(r1[m - 1], edits[m])
      /\ \A m \in 0 .. n + 1 : r2[m] = IF m = 0 THEN list ELSE Edited(r2[m - 1], edits[m])
  BY <1>3 DEF EditRun
<1>6. r2[n + 1] = Edited(r2[n], edits[n + 1])
  BY <1>5
<1>7. r1[n] = r2[n]
  <2> DEFINE Good == {k \in 0 .. n : r1[k] = r2[k]}
  <2>1. 0 \in Good
    BY <1>5
  <2>2. ASSUME NEW k \in 0 .. n - 1, k \in Good PROVE k + 1 \in Good
    BY <1>5, <2>2
  <2>3. n \in Good
    <3> HIDE DEF Good
    <3> QED BY <2>1, <2>2, UpTo
  <2> QED BY <2>3
<1> QED BY <1>1, <1>2, <1>4, <1>6, <1>7

\* A set of indices has a least one.
LEMMA LeastIndex ==
    ASSUME NEW n \in Nat, NEW I \in SUBSET (1 .. n), I # {}
    PROVE  Min(I) \in I
<1> DEFINE D == {T \in SUBSET (0 .. n) : \E x \in I : T = 0 .. x}
<1>1. PICK T \in D : \A U \in SUBSET T : U # T => U \notin D
  <2>1. D # {}
    <3>1. PICK x \in I : TRUE
      OBVIOUS
    <3>2. 0 .. x \in D
      BY <3>1
    <3> QED BY <3>2
  <2>2. D \subseteq SUBSET (0 .. n) /\ IsFiniteSet(0 .. n)
    BY FS_Interval
  <2> HIDE DEF D
  <2> QED BY <2>1, <2>2, LeastSubset
<1>2. PICK x \in I : T = 0 .. x
  BY <1>1
<1>3. ASSUME NEW y \in I, ~ x <= y PROVE FALSE
  <2>1. x \in 0 .. n /\ y \in 0 .. n /\ y < x
    BY <1>3
  <2>2. 0 .. y \in SUBSET T /\ 0 .. y # T /\ 0 .. y \in D
    BY <1>2, <2>1
  <2> QED BY <1>1, <2>2
<1> QED BY <1>2, <1>3 DEF Min

\* The entry that a change finds
EntryIndex(list, address) == SelectInSeq(list, LAMBDA r : r.address = address)

LEMMA FoundEntry ==
    ASSUME NEW list \in OpenLists, NEW address, NEW i, i = EntryIndex(list, address)
    PROVE  i = 0 \/ (i \in DOMAIN list /\ list[i].address = address)
<1>1. PICK I : I = {k \in 1 .. Len(list) : list[k].address = address}
  OBVIOUS
<1>2. i = IF I # {} THEN Min(I) ELSE 0
  BY <1>1 DEF EntryIndex, SelectInSeq
<1>3. Len(list) \in Nat /\ DOMAIN list = 1 .. Len(list)
  BY DEF OpenLists
<1>4. CASE I # {}
  <2>1. I \in SUBSET (1 .. Len(list))
    BY <1>1
  <2>2. Min(I) \in I
    BY <1>3, <1>4, <2>1, LeastIndex
  <2> QED BY <1>1, <1>2, <1>3, <1>4, <2>2
<1> QED BY <1>2, <1>4

\* A change of a list appends an entry, removes one or raises one.
Raised(list, i, n) == [list EXCEPT ![i].amount = @ + n]

LEMMA EditCases ==
    ASSUME NEW list \in OpenLists, NEW e \in [address : Holders, amountDelta : Int]
    PROVE  \/ Edited(list, e) = Append(list, [address |-> e.address, amount |-> e.amountDelta])
           \/ \E i \in DOMAIN list :
                 /\ list[i].address = e.address
                 /\ \/ /\ list[i].amount + e.amountDelta = 0
                       /\ Edited(list, e) = RemoveAt(list, i)
                    \/ Edited(list, e) = Raised(list, i, e.amountDelta)
<1>1. PICK i : i = EntryIndex(list, e.address)
  OBVIOUS
<1>2. Edited(list, e) =
          IF i = 0 THEN Append(list, [address |-> e.address, amount |-> e.amountDelta])
          ELSE IF list[i].amount + e.amountDelta = 0 THEN RemoveAt(list, i)
          ELSE Raised(list, i, e.amountDelta)
  BY <1>1 DEF Edited, EntryIndex, Raised
<1>3. i = 0 \/ (i \in DOMAIN list /\ list[i].address = e.address)
  BY <1>1, FoundEntry
<1> QED BY <1>2, <1>3

\* What is left when the entry at i is removed
LEMMA RemovedAt ==
    ASSUME NEW R, NEW list \in Seq(R), NEW i \in 1 .. Len(list)
    PROVE  /\ RemoveAt(list, i) \in Seq(R)
           /\ Len(RemoveAt(list, i)) = Len(list) - 1
           /\ \A j \in 1 .. Len(list) - 1 :
                 RemoveAt(list, i)[j] = list[IF j < i THEN j ELSE j + 1]
<1>1. Len(list) \in Nat /\ i \in Int /\ \A j \in 1 .. Len(list) : list[j] \in R
  BY ElementOfSeq
<1>2. PICK a, b : a = SubSeq(list, 1, i - 1) /\ b = SubSeq(list, i + 1, Len(list))
  OBVIOUS
<1>3. /\ a \in Seq(R) /\ Len(a) = i - 1
      /\ \A j \in 1 .. i - 1 : a[j] = list[j]
  <2>1. 1 \in Int /\ i - 1 \in Int /\ \A j \in 1 .. i - 1 : list[j] \in R
    BY <1>1
  <2>2. /\ a \in Seq(R) /\ Len(a) = IF 1 <= i - 1 THEN (i - 1) - 1 + 1 ELSE 0
        /\ \A j \in 1 .. (i - 1) - 1 + 1 : a[j] = list[1 + j - 1]
    BY ONLY <1>2, <2>1, SubSeqProperties
  <2>3. (i - 1) - 1 + 1 = i - 1 /\ (~ 1 <= i - 1 => i - 1 = 0)
    BY <1>1
  <2>4. \A j \in 1 .. i - 1 : 1 + j - 1 = j
    BY <1>1
  <2> QED BY <2>2, <2>3, <2>4
<1>4. /\ b \in Seq(R) /\ Len(b) = Len(list) - i
      /\ \A j \in 1 .. Len(list) - i : b[j] = list[i + j]
  <2>1. i + 1 \in Int /\ Len(list) \in Int /\ \A j \in i + 1 .. Len(list) : list[j] \in R
    BY <1>1
  <2>2. /\ b \in Seq(R)
        /\ Len(b) = IF i + 1 <= Len(list) THEN Len(list) - (i + 1) + 1 ELSE 0
        /\ \A j \in 1 .. Len(list) - (i + 1) + 1 : b[j] = list[(i + 1) + j - 1]
    BY ONLY <1>2, <2>1, SubSeqProperties
  <2>3. /\ Len(list) - (i + 1) + 1 = Len(list) - i
        /\ ~ i + 1 <= Len(list) => Len(list) - i = 0
    BY <1>1
  <2>4. \A j \in 1 .. Len(list) - i : (i + 1) + j - 1 = i + j
    BY <1>1
  <2> QED BY <2>2, <2>3, <2>4
<1>5. PICK c : c = RemoveAt(list, i) /\ c = a \o b
  BY <1>2 DEF RemoveAt
<1>6. /\ c \in Seq(R) /\ Len(c) = Len(list) - 1
      /\ \A j \in 1 .. Len(list) - 1 : c[j] = IF j <= i - 1 THEN a[j] ELSE b[j - (i - 1)]
  <2>1. /\ c \in Seq(R) /\ Len(c) = Len(a) + Len(b)
        /\ \A j \in 1 .. Len(a) + Len(b) : c[j] = IF j <= Len(a) THEN a[j] ELSE b[j - Len(a)]
    <3>1. a \in Seq(R) /\ b \in Seq(R)
      BY <1>3, <1>4
    <3>2. /\ a \o b \in Seq(R) /\ Len(a \o b) = Len(a) + Len(b)
          /\ \A j \in 1 .. Len(a) + Len(b) :
                (a \o b)[j] = IF j <= Len(a) THEN a[j] ELSE b[j - Len(a)]
      BY ONLY <3>1, ConcatProperties
    <3> QED BY <1>5, <3>2
  <2>2. Len(a) + Len(b) = Len(list) - 1
    BY <1>1, <1>3, <1>4
  <2> QED BY <1>3, <2>1, <2>2
<1>7. ASSUME NEW j \in 1 .. Len(list) - 1
      PROVE  c[j] = list[IF j < i THEN j ELSE j + 1]
  <2>1. CASE j < i
    BY <1>1, <1>3, <1>6, <2>1
  <2>2. CASE ~ j < i
    <3>1. j - (i - 1) \in 1 .. Len(list) - i /\ i + (j - (i - 1)) = j + 1 /\ ~ j <= i - 1
      BY <1>1, <2>2
    <3> QED BY <1>4, <1>6, <2>2, <3>1
  <2> QED BY <2>1, <2>2
<1> QED BY <1>5, <1>6, <1>7

\* What is left when the entry at i is raised
LEMMA RaisedAt ==
    ASSUME NEW list \in OpenLists, NEW i \in DOMAIN list, NEW n \in Int
    PROVE  /\ Raised(list, i, n) \in OpenLists
           /\ DOMAIN Raised(list, i, n) = DOMAIN list
           /\ Raised(list, i, n)[i] = [address |-> list[i].address, amount |-> list[i].amount + n]
           /\ \A j \in DOMAIN list \ {i} : Raised(list, i, n)[j] = list[j]
<1>1. list[i] \in [address : Holders, amount : Int] /\ i \in 1 .. Len(list)
  <2>1. list \in Seq([address : Holders, amount : Int]) /\ i \in 1 .. Len(list)
    BY DEF OpenLists
  <2> QED BY ONLY <2>1, ElementOfSeq
<1>2. PICK e : e = [address |-> list[i].address, amount |-> list[i].amount + n]
  OBVIOUS
<1>3. Raised(list, i, n) = [list EXCEPT ![i] = e]
  <2>1. [list[i] EXCEPT !.amount = list[i].amount + n] = e
    BY <1>1, <1>2
  <2> QED BY <2>1 DEF Raised
<1>4. e \in [address : Holders, amount : Int]
  BY <1>1, <1>2
<1> QED BY <1>1, <1>2, <1>3, <1>4, ExceptSeq DEF OpenLists

\* A changed list is a list of the same kind.
LEMMA EditedTyped ==
    ASSUME NEW list \in OpenLists, NEW e \in [address : Holders, amountDelta : Int]
    PROVE  Edited(list, e) \in OpenLists
<1>1. CASE Edited(list, e) = Append(list, [address |-> e.address, amount |-> e.amountDelta])
  BY <1>1 DEF OpenLists
<1>2. ASSUME NEW i \in DOMAIN list PROVE RemoveAt(list, i) \in OpenLists
  BY RemovedAt DEF OpenLists
<1>3. ASSUME NEW i \in DOMAIN list PROVE Raised(list, i, e.amountDelta) \in OpenLists
  BY RaisedAt
<1> QED BY <1>1, <1>2, <1>3, EditCases

LEMMA AfterEditsTyped ==
    ASSUME NEW list \in OpenLists, NEW edits \in EditLists
    PROVE  \A n \in 0 .. Len(edits) : AfterEdits(list, edits, n) \in OpenLists
<1> DEFINE Good == {n \in 0 .. Len(edits) : AfterEdits(list, edits, n) \in OpenLists}
<1>1. 0 \in Good
  BY AfterEditsStep DEF EditLists
<1>2. ASSUME NEW n \in 0 .. Len(edits) - 1, n \in Good PROVE n + 1 \in Good
  <2>1. n \in Nat /\ n + 1 \in 0 .. Len(edits) /\ n + 1 \in 1 .. Len(edits)
    BY DEF EditLists
  <2>2. edits[n + 1] \in [address : Holders, amountDelta : Int]
    BY <2>1, ElementOfSeq DEF EditLists
  <2> QED BY <1>2, <2>1, <2>2, AfterEditsStep, EditedTyped
<1>3. Len(edits) \in Nat
  BY DEF EditLists
<1> HIDE DEF Good
<1>4. \A n \in 0 .. Len(edits) : n \in Good
  BY <1>1, <1>2, <1>3, UpTo
<1> QED BY <1>4 DEF Good

-------------------------------------------------------------------------------
(* Airdrops *)

LEMMA ListFacts ==
    ASSUME NEW list \in OpenLists
    PROVE  /\ IsFiniteSet(DOMAIN list) /\ DOMAIN list = 1 .. Len(list) /\ Len(list) \in Nat
           /\ \A i \in DOMAIN list : /\ list[i] \in [address : Holders, amount : Int]
                                     /\ Amounts(list)[i] = list[i].amount
                                     /\ Amounts(list)[i] \in Int
           /\ \A a : EntriesOf(list, a) \subseteq DOMAIN list /\ IsFiniteSet(EntriesOf(list, a))
<1> DEFINE R == [address : Holders, amount : Int]
<1>1. list \in Seq(R)
  BY DEF OpenLists
<1>2. DOMAIN list = 1 .. Len(list) /\ Len(list) \in Nat
  BY <1>1
<1>3. IsFiniteSet(DOMAIN list)
  BY <1>2, FS_Interval
<1>4. \A i \in DOMAIN list : list[i] \in R
  <2> HIDE DEF R
  <2> QED BY <1>1, <1>2, ElementOfSeq
<1>5. \A a : EntriesOf(list, a) \subseteq DOMAIN list /\ IsFiniteSet(EntriesOf(list, a))
  BY <1>3, FS_Subset DEF EntriesOf
<1> QED BY <1>2, <1>3, <1>4, <1>5 DEF Amounts

\* Lists whose amounts are not negative can be stored.
LEMMA OpenAndStored ==
    ASSUME NEW list
    PROVE  list \in AirdropLists <=>
              list \in OpenLists /\ \A i \in DOMAIN list : list[i].amount >= 0
<1> DEFINE N == [address : Holders, amount : Nat]
           R == [address : Holders, amount : Int]
<1>1. ASSUME list \in AirdropLists
      PROVE  list \in OpenLists /\ \A i \in DOMAIN list : list[i].amount >= 0
  <2>1. /\ list \in Seq(N) /\ DOMAIN list = 1 .. Len(list) /\ Len(list) \in Nat
        /\ list = [i \in 1 .. Len(list) |-> list[i]]
    BY <1>1 DEF AirdropLists
  <2>2. \A i \in DOMAIN list : list[i] \in N
    <3> HIDE DEF N
    <3> QED BY <2>1, ElementOfSeq
  <2>3. \A i \in DOMAIN list : list[i] \in R /\ list[i].amount >= 0
    BY <2>2
  <2>4. list \in Seq(R)
    <3> HIDE DEF R
    <3> QED BY <2>1, <2>3
  <2> QED BY <2>3, <2>4 DEF OpenLists
<1>2. ASSUME list \in OpenLists, \A i \in DOMAIN list : list[i].amount >= 0
      PROVE  list \in AirdropLists
  <2>1. \A i \in DOMAIN list : list[i] \in N
    BY <1>2, ListFacts
  <2>2. list \in Seq(R) /\ DOMAIN list = 1 .. Len(list) /\ Len(list) \in Nat
        /\ list = [i \in 1 .. Len(list) |-> list[i]]
    BY <1>2 DEF OpenLists
  <2>3. list \in Seq(N)
    <3> HIDE DEF N
    <3> QED BY <2>1, <2>2
  <2> QED BY <2>3 DEF AirdropLists
<1> QED BY <1>1, <1>2

LEMMA StoredList ==
    ASSUME LedgerInv, NEW k \in AirdropKeys, NEW list \in AirdropLists,
           airdrop' = [airdrop EXCEPT ![k] = list]
    PROVE  AirdropsTyped'
BY DEF LedgerInv, AirdropsTyped

LEMMA EditFacts ==
    ASSUME NEW edits \in RecipientLists \cup RecipientEdits
    PROVE  /\ edits \in EditLists /\ Len(edits) \in Nat /\ DOMAIN edits = 1 .. Len(edits)
           /\ \A i \in DOMAIN edits : edits[i] \in [address : Holders, amountDelta : Int]
<1> DEFINE E == [address : Holders, amountDelta : Int]
<1>1. edits \in Seq(E)
  BY ONLY AirdropAssumption, edits \in RecipientLists \cup RecipientEdits DEF AirdropAssumption
<1>2. DOMAIN edits = 1 .. Len(edits) /\ Len(edits) \in Nat
  BY <1>1
<1>3. \A i \in DOMAIN edits : edits[i] \in E
  <2> HIDE DEF E
  <2> QED BY <1>1, <1>2, ElementOfSeq
<1> QED BY <1>1, <1>2, <1>3 DEF EditLists

LEMMA AirdropCreateTyped ==
    ASSUME LedgerInv, NEW sender \in Users, NEW id \in TokenIds, NEW provider \in Users,
           NEW list \in RecipientLists, AirdropCreate(sender, id, provider, list)
    PROVE  AirdropsTyped'
<1> DEFINE N == [address : Holders, amount : Nat]
<1>1. DOMAIN list = 1 .. Len(list) /\ Len(list) \in Nat
  BY EditFacts
<1>2. \A i \in DOMAIN list : list[i] \in [address : Holders, amountDelta : Int]
  BY EditFacts
<1>3. \A i \in DOMAIN list : [address |-> list[i].address, amount |-> list[i].amountDelta] \in N
  BY <1>2 DEF AirdropCreate
<1>4. PICK stored : stored =
          [i \in DOMAIN list |-> [address |-> list[i].address, amount |-> list[i].amountDelta]]
  OBVIOUS
<1>5. stored \in Seq(N)
  <2> HIDE DEF N
  <2> QED BY <1>1, <1>3, <1>4
<1>6. stored \in AirdropLists
  BY <1>5 DEF AirdropLists
<1>7. PICK k \in AirdropKeys : k = <<id, provider>>
  BY LedgerAssumption DEF AirdropKeys
<1>8. airdrop' = [airdrop EXCEPT ![k] = stored]
  BY <1>4, <1>7 DEF AirdropCreate, RegisterAirdrop
<1> QED BY <1>6, <1>8, StoredList

LEMMA EditRecipientsTyped ==
    ASSUME LedgerInv, NEW sender \in Users, NEW id \in TokenIds, NEW edits \in RecipientEdits,
           EditRecipients(sender, id, edits)
    PROVE  AirdropsTyped'
<1>1. PICK k \in AirdropKeys : k = <<id, sender>>
  BY LedgerAssumption DEF AirdropKeys
<1>2. PICK list \in AirdropLists : list = airdrop[k]
  BY <1>1 DEF EditRecipients, AirdropExists, LedgerInv, AirdropsTyped
<1>3. edits \in EditLists /\ Len(edits) \in Nat /\ DOMAIN edits = 1 .. Len(edits)
  BY EditFacts
<1>4. PICK after : after = AfterEdits(list, edits, Len(edits))
  OBVIOUS
<1>5. after \in OpenLists
  BY <1>2, <1>3, <1>4, AfterEditsTyped, OpenAndStored
<1>6. after \in AirdropLists
  <2>1. CASE Len(edits) = 0
    BY <1>2, <1>4, <2>1, AfterEditsStep
  <2>2. CASE Len(edits) # 0
    <3>1. Len(edits) \in DOMAIN edits
      BY <1>3, <2>2
    <3>2. \A i \in DOMAIN after : after[i].amount >= 0
      BY <1>1, <1>2, <1>4, <3>1 DEF EditRecipients
    <3> QED BY <1>5, <3>2, OpenAndStored
  <2> QED BY <2>1, <2>2
<1>7. airdrop' = [airdrop EXCEPT ![k] = after]
  BY <1>1, <1>2, <1>4 DEF EditRecipients
<1> QED BY <1>6, <1>7, StoredList

\* What a list owes, to each and in all, is a natural number.
LEMMA OwedTotal ==
    ASSUME NEW list \in AirdropLists
    PROVE  /\ \A a \in Holders : Owed(list, a) \in Nat
           /\ TotalAirdrop(list) \in Nat
<1>1. list \in OpenLists /\ \A i \in DOMAIN list : Amounts(list)[i] \in Nat
  BY OpenAndStored, ListFacts
<1>7. ASSUME NEW a \in Holders PROVE Owed(list, a) \in Nat
  <2>1. \A i \in EntriesOf(list, a) : Amounts(list)[i] \in Nat
    BY <1>1, ListFacts
  <2> QED BY <1>1, <2>1, ListFacts, SumNat DEF Owed
<1>8. TotalAirdrop(list) \in Nat
  BY <1>1, ListFacts, SumNat DEF TotalAirdrop
<1> QED BY <1>7, <1>8

\* The provider has what it pays.
LEMMA DistributeKeepsLedger ==
    ASSUME LedgerInv, NEW sender \in Users, NEW id \in TokenIds, Distribute(sender, id),
           UNCHANGED <<icoVars, staked>>
    PROVE  LedgerInv'
<1>1. PICK k \in AirdropKeys : k = <<id, sender>>
  BY LedgerAssumption DEF AirdropKeys
<1>2. PICK list \in AirdropLists : list = airdrop[k]
  BY <1>1 DEF Distribute, AirdropExists, LedgerInv, AirdropsTyped
<1>3. PICK owed \in [Holders -> Nat] : owed = [a \in Holders |-> Owed(list, a)]
  <2>1. [a \in Holders |-> Owed(list, a)] \in [Holders -> Nat]
    BY OwedTotal
  <2> QED BY <2>1
<1>4. PICK total \in Nat : total = TotalAirdrop(list)
  BY OwedTotal
<1>5. available \in Rows /\ sender \in Holders
  BY LedgerAssumption DEF LedgerInv, BalancesTyped
<1>6. available[id][sender] >= total
  BY <1>1, <1>2, <1>4 DEF Distribute, ProviderCanPay
<1>7. PICK paid : paid = [a \in Holders |-> available[id][a] + Owed(list, a) - IF a = sender THEN total ELSE 0]
  OBVIOUS
<1>8. available' = [available EXCEPT ![id] = paid]
  BY <1>1, <1>2, <1>4, <1>7 DEF Distribute
<1>9. paid \in [Holders -> Nat]
  <2>1. \A a \in Holders : paid[a] = available[id][a] + owed[a] - IF a = sender THEN total ELSE 0
    BY <1>3, <1>7
  <2>2. \A a \in Holders : paid[a] \in Nat
    BY <1>5, <1>6, <2>1 DEF Rows
  <2> QED BY <1>7, <2>2
<1>12. available' \in Rows
  BY <1>5, <1>8, <1>9 DEF Rows
<1>13. BalancesTyped'
  BY <1>12, MovesKeepBalances DEF Distribute, factoryVars, icoVars
<1>14. AirdropsTyped'
  <2>1. <<>> \in AirdropLists
    BY DEF AirdropLists
  <2>2. airdrop' = [airdrop EXCEPT ![k] = <<>>]
    BY <1>1 DEF Distribute, PaidRecipients
  <2> QED BY <2>1, <2>2, StoredList
<1>15. PoolsTyped'
  BY DEF icoVars, LedgerInv, PoolsTyped
<1> QED BY <1>13, <1>14, <1>15 DEF LedgerInv

LEMMA DistributionKeepsLedger == ASSUME LedgerInv, Distribution PROVE LedgerInv'
<1>1. UNCHANGED <<icoVars, staked>>
  BY DEF Distribution
<1>2. CASE AirdropsTyped' /\ UNCHANGED <<available, supply, factoryVars>>
  <2>1. BalancesTyped'
    BY <1>1, <1>2 DEF icoVars, factoryVars, LedgerInv, BalancesTyped
  <2>2. PoolsTyped'
    BY <1>1 DEF icoVars, LedgerInv, PoolsTyped
  <2> QED BY <1>2, <2>1, <2>2 DEF LedgerInv
<1>3. CASE AirdropCreateCommand
  <2>1. UNCHANGED <<available, supply, factoryVars>>
    BY <1>3 DEF AirdropCreateCommand, AirdropCreate, ledgerVars
  <2> QED BY <1>2, <1>3, <2>1, AirdropCreateTyped DEF AirdropCreateCommand
<1>4. CASE AirdropEditRecipientsCommand
  <2>1. UNCHANGED <<available, supply, factoryVars>>
    BY <1>4 DEF AirdropEditRecipientsCommand, EditRecipients, ledgerVars
  <2> QED BY <1>2, <1>4, <2>1, EditRecipientsTyped DEF AirdropEditRecipientsCommand
<1>5. CASE AirdropDistributeCommand
  BY <1>1, <1>5, DistributeKeepsLedger DEF AirdropDistributeCommand
<1> QED BY <1>3, <1>4, <1>5 DEF Distribution, AirdropCommand

-------------------------------------------------------------------------------
(* ICO pools *)

LEMMA PoolFacts ==
    ASSUME NEW pool \in Pools
    PROVE  /\ pool \in Holders /\ pool[1] \in TokenIds /\ pool[2] \in TokenIds
           /\ pool[1] # pool[2]
BY IcoAssumption

\* A sale leaves the configuration, the airdrops and the stakes alone.
LEMMA SaleTyped ==
    ASSUME LedgerInv, Sale
    PROVE  /\ UNCHANGED <<supply, staked, vestingLocked, toBeUnlocked, height>>
           /\ AirdropsTyped'
<1>1. UNCHANGED <<supply, factoryVars>>
  <2>1. \A sender, recipient, pool, n, m, inexact :
            IcoSwapInternal(sender, recipient, pool, n, m, inexact) => UNCHANGED <<supply, factoryVars>>
    <3> SUFFICES ASSUME NEW sender, NEW recipient, NEW pool, NEW n, NEW m, NEW inexact,
                        IcoSwapInternal(sender, recipient, pool, n, m, inexact)
                 PROVE  UNCHANGED <<supply, factoryVars>>
      OBVIOUS
    <3>1. UNCHANGED <<initialized, supply, factoryVars, leftOver, ico, icoLocked>>
      BY Zenon DEF IcoSwapInternal
    <3> QED BY ONLY <3>1
  <2>2. \A sender, recipient, pool, n :
           /\ ExactInputSingle(sender, recipient, pool, n) => UNCHANGED <<supply, factoryVars>>
           /\ ExactOutputSingle(sender, recipient, pool, n) => UNCHANGED <<supply, factoryVars>>
    BY <2>1 DEF ExactInputSingle, ExactOutputSingle
  <2>3. CASE IcoCreateCommand
    BY <2>3 DEF IcoCreateCommand, IcoCreate
  <2>4. CASE IcoChangePriceCommand
    BY <2>4 DEF IcoChangePriceCommand, IcoChangePrice, ledgerVars
  <2>5. CASE IcoDepositCommand \/ IcoWithdrawCommand
    BY <2>5 DEF IcoDepositCommand, IcoDeposit, IcoWithdrawCommand, IcoWithdraw
  <2>6. CASE IcoTreasurifyCommand
    BY <2>6 DEF IcoTreasurifyCommand, IcoTreasurify
  <2>7. CASE IcoSingleCommand \/ IcoTransferCommand
    BY <2>2, <2>7 DEF IcoSingleCommand, IcoTransferCommand, SwapByTransfer
  <2> QED BY <2>3, <2>4, <2>5, <2>6, <2>7 DEF Sale, IcoCommand
<1>2. UNCHANGED <<airdropVars, staked>>
  BY DEF Sale
<1> QED BY <1>1, <1>2 DEF factoryVars, airdropVars, LedgerInv, AirdropsTyped

\* What is at the address of a pool before it is created goes elsewhere or is locked.
LEMMA ClearedRows ==
    ASSUME LedgerInv, NEW pool \in Pools, NEW cleared, cleared = Cleared(pool)
    PROVE  cleared \in Rows
<1>1. available \in Rows /\ pool \in Holders
  BY PoolFacts DEF LedgerInv, BalancesTyped
<1>3. CASE leftOver = None
  <2>1. cleared = [id \in TokenIds |-> [available[id] EXCEPT ![pool] =
                        IF id \in {pool[1], pool[2]} THEN 0 ELSE @]]
    BY <1>3 DEF Cleared
  <2> QED BY <1>1, <2>1 DEF Rows
<1>4. CASE leftOver # None
  <2>1. leftOver \in Holders
    BY <1>4 DEF LedgerInv, PoolsTyped
  <2>2. cleared = [id \in TokenIds |-> IF id \in {pool[1], pool[2]}
                     THEN [available[id] EXCEPT ![pool] = @ - available[id][pool],
                                                ![leftOver] = @ + available[id][pool]]
                     ELSE available[id]]
    BY <1>4 DEF Cleared
  <2> QED BY <1>1, <2>1, <2>2 DEF Rows
<1> QED BY <1>3, <1>4

LEMMA IcoCreateKeepsLedger ==
    ASSUME LedgerInv, NEW sender \in Users, NEW pool \in Pools, NEW provider \in Users,
           NEW price \in Prices, NEW amount \in IcoAmounts,
           IcoCreate(sender, pool, provider, price, amount), Sale
    PROVE  LedgerInv'
<1>1. PICK cleared : cleared = Cleared(pool)
  OBVIOUS
<1>2. /\ cleared[pool[2]][sender] >= amount
      /\ available' = TransferredIn(cleared, pool[2], sender, pool, amount)
      /\ icoLocked' = IF leftOver # None THEN icoLocked
                      ELSE [id \in TokenIds |-> [icoLocked[id] EXCEPT ![pool] =
                              @ + IF id \in {pool[1], pool[2]} THEN available[id][pool] ELSE 0]]
      /\ ico' = [ico EXCEPT ![pool] = [price |-> price, providerAddress |-> provider]]
      /\ leftOver' = leftOver
  BY <1>1 DEF IcoCreate, TransferredIn
<1>3. /\ sender \in Holders /\ provider \in Holders /\ amount \in Nat
      /\ price \in [num : Nat, den : Nat \ {0}]
  BY LedgerAssumption, IcoAssumption
<1>4. /\ pool \in Holders /\ pool[2] \in TokenIds /\ available \in Rows /\ icoLocked \in Rows
  BY PoolFacts DEF LedgerInv, BalancesTyped
<1>5. cleared \in Rows
  BY <1>1, ClearedRows
<1>6. available' \in Rows
  BY <1>2, <1>3, <1>4, <1>5, TransferInTable
<1>7. icoLocked' \in Rows
  BY <1>2, <1>4 DEF Rows
<1>9. UNCHANGED <<supply, staked, vestingLocked, toBeUnlocked, height>> /\ AirdropsTyped'
  BY SaleTyped
<1>10. BalancesTyped'
  BY <1>6, <1>7, <1>9 DEF LedgerInv, BalancesTyped
<1>12. PoolsTyped'
  BY <1>2, <1>3 DEF LedgerInv, PoolsTyped
<1> QED BY <1>9, <1>10, <1>12 DEF LedgerInv

\* Deposits, withdrawals and what goes to the left-over address are transfers.
LEMMA PoolTransferKeepsLedger ==
    ASSUME LedgerInv, Sale, NEW id \in TokenIds, NEW from \in Holders, NEW to \in Holders,
           NEW n \in Nat, available[id][from] >= n,
           available' = Transferred(id, from, to, n), UNCHANGED icoVars
    PROVE  LedgerInv'
<1>1. available \in Rows
  BY DEF LedgerInv, BalancesTyped
<1>2. available' \in Rows
  BY <1>1, TransferKeepsRows
<1>3. UNCHANGED <<supply, staked, vestingLocked, toBeUnlocked, height>> /\ AirdropsTyped'
  BY SaleTyped
<1>4. BalancesTyped'
  BY <1>2, <1>3, MovesKeepBalances DEF icoVars
<1>5. PoolsTyped'
  BY DEF icoVars, LedgerInv, PoolsTyped
<1> QED BY <1>3, <1>4, <1>5 DEF LedgerInv

LEMMA IcoSwapKeepsLedger ==
    ASSUME LedgerInv, Sale, NEW sender \in Holders, NEW recipient \in Users, NEW pool \in Pools,
           NEW amountIn \in Nat, NEW amountOut \in Nat, NEW inexact, ICOExists(pool),
           IcoSwapInternal(sender, recipient, pool, amountIn, amountOut, inexact)
    PROVE  LedgerInv'
<1>1. PICK provider \in Holders : provider = ico[pool].providerAddress
  BY DEF ICOExists, LedgerInv, PoolsTyped
<1>2. /\ sender \in Holders /\ recipient \in Holders /\ pool \in Holders
      /\ pool[1] \in TokenIds /\ pool[2] \in TokenIds /\ pool[1] # pool[2]
      /\ available \in Rows
  BY PoolFacts, LedgerAssumption DEF LedgerInv, BalancesTyped
<1>3. PICK first, last \in TokenIds : first = pool[1] /\ last = pool[2] /\ first # last
  BY <1>2
<1>4. available' = [available EXCEPT ![first][sender] = @ - amountIn,
                                     ![first][provider] = @ + amountIn,
                                     ![last][pool] = @ - amountOut,
                                     ![last][recipient] = @ + amountOut]
  BY <1>1, <1>3 DEF IcoSwapInternal
<1>5. available[first][sender] >= amountIn /\ available[last][pool] >= amountOut
  BY <1>3 DEF IcoSwapInternal
<1>6. PICK paid \in Rows : /\ paid = TransferredIn(available, first, sender, provider, amountIn)
                           /\ paid[last] = available[last]
  <2>1. TransferredIn(available, first, sender, provider, amountIn) \in Rows
    BY <1>2, <1>3, <1>5, TransferInTable
  <2> QED BY <1>2, <1>3, <2>1 DEF TransferredIn, Rows
<1>7. available' \in Rows
  <2>1. available' = TransferredIn(paid, last, pool, recipient, amountOut)
    BY <1>4, <1>6 DEF TransferredIn
  <2> QED BY <1>2, <1>3, <1>5, <1>6, <2>1, TransferInTable
<1>8. UNCHANGED <<leftOver, ico, icoLocked>>
  BY DEF IcoSwapInternal
<1>9. UNCHANGED <<supply, staked, vestingLocked, toBeUnlocked, height>> /\ AirdropsTyped'
  BY SaleTyped
<1>10. BalancesTyped'
  BY <1>7, <1>8, <1>9, MovesKeepBalances
<1>11. PoolsTyped'
  BY <1>8 DEF LedgerInv, PoolsTyped
<1> QED BY <1>9, <1>10, <1>11 DEF LedgerInv

\* What a swap of a single pool takes and gives
LEMMA QuotesNat ==
    ASSUME LedgerInv, NEW pool \in Pools, ICOExists(pool), NEW n \in Nat
    PROVE  /\ ico[pool].price.num \in Nat /\ ico[pool].price.den \in Nat \ {0}
           /\ ico[pool].price.num > 0 => QuoteExactInputSingle(ico[pool].price, n) \in Nat
           /\ QuoteExactOutputSingle(ico[pool].price, n) \in Nat
<1>1. PICK num \in Nat, den \in Nat \ {0} : num = ico[pool].price.num /\ den = ico[pool].price.den
  BY DEF LedgerInv, PoolsTyped, ICOExists
<1>a. PICK k \in Nat : k = Read(n)
  BY ReadIs
<1>2. k * den \in Nat /\ k * num \in Nat
  OBVIOUS
<1>3. num > 0 => Rounded(k * den, num) \in Nat
  BY <1>2, RoundedIs
<1>4. Rounded(k * num, den) \in Nat
  BY <1>2, RoundedIs
<1> QED BY <1>1, <1>a, <1>3, <1>4 DEF QuoteExactInputSingle, QuoteExactOutputSingle

LEMMA SwapsKeepLedger ==
    ASSUME LedgerInv, Sale, NEW sender \in Holders, NEW recipient \in Users, NEW pool \in Pools,
           NEW n \in Nat
    PROVE  /\ ExactInputSingle(sender, recipient, pool, n) => LedgerInv'
           /\ ExactOutputSingle(sender, recipient, pool, n) => LedgerInv'
<1>1. ASSUME ExactInputSingle(sender, recipient, pool, n) PROVE LedgerInv'
  <2>1. PICK m \in Nat : m = QuoteExactInputSingle(ico[pool].price, n)
    BY <1>1, QuotesNat DEF ExactInputSingle
  <2>2. PICK inexact : IcoSwapInternal(sender, recipient, pool, n, m, inexact)
    BY <1>1, <2>1 DEF ExactInputSingle
  <2> QED BY <1>1, <2>1, <2>2, IcoSwapKeepsLedger DEF ExactInputSingle
<1>2. ASSUME ExactOutputSingle(sender, recipient, pool, n) PROVE LedgerInv'
  <2>1. PICK m \in Nat : m = QuoteExactOutputSingle(ico[pool].price, n)
    BY <1>2, QuotesNat DEF ExactOutputSingle
  <2>2. PICK inexact : IcoSwapInternal(sender, recipient, pool, m, n, inexact)
    BY <1>2, <2>1 DEF ExactOutputSingle
  <2> QED BY <1>2, <2>1, <2>2, IcoSwapKeepsLedger DEF ExactOutputSingle
<1> QED BY <1>1, <1>2

LEMMA SaleKeepsLedger == ASSUME LedgerInv, Sale PROVE LedgerInv'
<1>1. CASE IcoCreateCommand
  BY <1>1, IcoCreateKeepsLedger DEF IcoCreateCommand
<1>2. CASE IcoChangePriceCommand
  <2>1. PICK sender \in Users, pool \in Pools, price \in Prices : IcoChangePrice(sender, pool, price)
    BY <1>2 DEF IcoChangePriceCommand
  <2>2. /\ ico[pool] # None /\ ico' = [ico EXCEPT ![pool].price = price]
        /\ UNCHANGED <<available, supply, leftOver, icoLocked>>
    BY <2>1 DEF IcoChangePrice, IsProvider, ICOExists, ledgerVars
  <2>3. price \in [num : Nat, den : Nat \ {0}]
    BY IcoAssumption
  <2>4. PoolsTyped'
    BY <2>2, <2>3 DEF LedgerInv, PoolsTyped
  <2>5. UNCHANGED <<supply, staked, vestingLocked, toBeUnlocked, height>> /\ AirdropsTyped'
    BY SaleTyped
  <2>6. BalancesTyped'
    BY <2>2, <2>5 DEF LedgerInv, BalancesTyped
  <2> QED BY <2>4, <2>5, <2>6 DEF LedgerInv
<1>3. CASE IcoDepositCommand
  <2>1. PICK sender \in Users, pool \in Pools, n \in IcoAmounts : IcoDeposit(sender, pool, n)
    BY <1>3 DEF IcoDepositCommand
  <2>2. n \in Nat /\ sender \in Holders /\ pool \in Holders /\ pool[2] \in TokenIds
    BY PoolFacts, LedgerAssumption, IcoAssumption
  <2> QED BY <2>1, <2>2, PoolTransferKeepsLedger DEF IcoDeposit
<1>4. CASE IcoWithdrawCommand
  <2>1. PICK sender \in Users, pool \in Pools, n \in IcoAmounts : IcoWithdraw(sender, pool, n)
    BY <1>4 DEF IcoWithdrawCommand
  <2>2. n \in Nat /\ sender \in Holders /\ pool \in Holders /\ pool[2] \in TokenIds
    BY PoolFacts, LedgerAssumption, IcoAssumption
  <2> QED BY <2>1, <2>2, PoolTransferKeepsLedger DEF IcoWithdraw
<1>5. CASE IcoTreasurifyCommand
  <2>1. PICK pool \in Pools, id \in TokenIds : IcoTreasurify(pool, id)
    BY <1>5 DEF IcoTreasurifyCommand
  <2>2. pool \in Holders /\ leftOver \in Holders
    BY <2>1, PoolFacts DEF IcoTreasurify, LedgerInv, PoolsTyped
  <2>3. PICK n \in Nat : n = available[id][pool]
    BY <2>2 DEF LedgerInv, BalancesTyped, Rows
  <2>4. available[id][pool] >= n
    BY <2>3
  <2> QED BY <2>1, <2>2, <2>3, <2>4, PoolTransferKeepsLedger DEF IcoTreasurify
<1>6. CASE IcoSingleCommand
  BY <1>6, SwapsKeepLedger, IcoAssumption, LedgerAssumption DEF IcoSingleCommand
<1>7. CASE IcoTransferCommand
  BY <1>7, SwapsKeepLedger, LedgerAssumption, PoolFacts DEF IcoTransferCommand, SwapByTransfer
<1> QED BY <1>1, <1>2, <1>3, <1>4, <1>5, <1>6, <1>7 DEF Sale, IcoCommand

-------------------------------------------------------------------------------
(* Every step *)

LEMMA LedgerInvNext == LedgerInv /\ [Next]_vars => LedgerInv'
<1> SUFFICES ASSUME LedgerInv, [Next]_vars PROVE LedgerInv'
  OBVIOUS
<1>1. CASE UNCHANGED vars
  BY <1>1 DEF vars, ledgerVars, factoryVars, airdropVars, icoVars,
     LedgerInv, BalancesTyped, PoolsTyped, AirdropsTyped
<1> QED BY <1>1, TransferKeepsLedger, StakeKeepsLedger, FactoryKeepsLedger, DistributionKeepsLedger,
           SaleKeepsLedger, NextBlockKeepsLedger DEF Next, Horizon

LEMMA LedgerInvariant == Spec => []LedgerInv
BY LedgerInvInit, LedgerInvNext, PTL DEF Spec

-------------------------------------------------------------------------------
(* Vesting *)

Future(h0) == {h \in Heights : h > h0}
\* What the schedule unlocks, height by height
ScheduleOf(id, a) == [h \in Heights |-> toBeUnlocked[h][id][a]]

LEMMA FutureFacts ==
    ASSUME NEW h0
    PROVE  IsFiniteSet(Heights) /\ IsFiniteSet(Future(h0)) /\ Future(h0) \subseteq Heights
<1>1. IsFiniteSet(Heights)
  BY FS_Interval, FactoryAssumption DEF Heights
<1> QED BY <1>1, FS_Subset DEF Future

\* What is locked and what is scheduled, cell by cell
Covered(id, a) == vestingLocked[id][a] = SumFunctionOnSet(ScheduleOf(id, a), Future(height))

LEMMA CoveredCells ==
    ASSUME LedgerInv
    PROVE  VestedMatchesSchedule <=> \A id \in TokenIds, a \in Holders : Covered(id, a)
<1>1. \A id \in TokenIds, a \in Holders : available[id][a] >= 0
  BY DEF LedgerInv, BalancesTyped, Rows
<1> QED BY <1>1 DEF VestedMatchesSchedule, Covered, ScheduleOf, Future

\* What vests of a mint is locked and scheduled.
LEMMA MintCovers ==
    ASSUME LedgerInv, NEW id \in TokenIds, NEW dist \in Distributions,
           HandleMintDistribution(id, dist), height' = height, NEW a \in Holders, Covered(id, a)
    PROVE  Covered(id, a)'
<1>1. PICK old, new, v :
          /\ old = ScheduleOf(id, a)
          /\ new = [h \in Heights |-> toBeUnlocked'[h][id][a]]
          /\ v = [h \in Heights |-> VestedAt(dist, a, h)]
  OBVIOUS
<1>2. \A h \in Heights : /\ old[h] \in Int /\ v[h] \in Int /\ new[h] = old[h] + v[h]
                         /\ h \notin Future(height) => v[h] = 0
  <2> SUFFICES ASSUME NEW h \in Heights
               PROVE  /\ old[h] \in Int /\ v[h] \in Int /\ new[h] = old[h] + v[h]
                      /\ h \notin Future(height) => v[h] = 0
    OBVIOUS
  <2>1. old[h] \in Int
    BY <1>1 DEF ScheduleOf, LedgerInv, BalancesTyped, Rows
  <2>2. v[h] \in Int
    BY <1>1, MintedNat
  <2>3. new[h] = old[h] + v[h]
    BY <1>1, MintEffect DEF ScheduleOf
  <2>4. h \notin Future(height) => v[h] = 0
    BY <1>1 DEF Future, VestedAt, VestsLater
  <2> QED BY <2>1, <2>2, <2>3, <2>4
<1>3. SumFunctionOnSet(v, Heights) = SumFunctionOnSet(v, Future(height))
  BY <1>2, FutureFacts, SumDrop
<1>4. SumFunctionOnSet(new, Future(height)) =
          SumFunctionOnSet(old, Future(height)) + SumFunctionOnSet(v, Future(height))
  BY <1>2, FutureFacts, SumPlus
<1>5. vestingLocked'[id][a] = vestingLocked[id][a] + SumFunctionOnSet(v, Heights)
  BY <1>1, MintEffect DEF Vested
<1>6. vestingLocked[id][a] = SumFunctionOnSet(old, Future(height))
  BY <1>1 DEF Covered
<1>7. vestingLocked'[id][a] = SumFunctionOnSet(new, Future(height'))
  BY <1>3, <1>4, <1>5, <1>6
<1> QED BY <1>1, <1>7 DEF Covered, ScheduleOf

\* The block hook unlocks what the next height has and clears it.
LEMMA NextBlockCovers ==
    ASSUME LedgerInv, NextBlock, NEW id \in TokenIds, NEW a \in Holders, Covered(id, a)
    PROVE  Covered(id, a)'
<1>1. height < MaxHeight /\ height' = height + 1 /\ VestingUnlock(height + 1)
  BY DEF NextBlock, BeforeTransactionsExecute
<1>2. PICK next \in Heights : next = height + 1 /\ height \in Nat
  BY <1>1, FactoryAssumption DEF Heights, LedgerInv, BalancesTyped
<1>3. PICK old, new : /\ old = ScheduleOf(id, a)
                      /\ new = [h \in Heights |-> toBeUnlocked'[h][id][a]]
  OBVIOUS
<1>4. toBeUnlocked' = [toBeUnlocked EXCEPT ![next] = Nothing]
  BY <1>1, <1>2 DEF VestingUnlock
<1>5. vestingLocked'[id][a] = vestingLocked[id][a] - old[next]
  BY <1>1, <1>2, <1>3 DEF VestingUnlock, ScheduleOf
<1>6. \A h \in Heights : old[h] \in Int /\ (h # next => new[h] = old[h])
  <2>1. \A h \in Heights : old[h] \in Int
    BY <1>3 DEF ScheduleOf, LedgerInv, BalancesTyped, Rows
  <2>2. \A h \in Heights : h # next => new[h] = old[h]
    BY <1>3, <1>4 DEF ScheduleOf, LedgerInv, BalancesTyped
  <2> QED BY <2>1, <2>2
<1>7. next \in Future(height) /\ Future(height) \ {next} = Future(height')
  BY <1>1, <1>2, FactoryAssumption DEF Future, Heights
<1>8. SumFunctionOnSet(old, Future(height)) = old[next] + SumFunctionOnSet(old, Future(height'))
  BY <1>6, <1>7, FutureFacts, SumRemove
<1>9. SumFunctionOnSet(old, Future(height')) = SumFunctionOnSet(new, Future(height'))
  <2>1. PICK later : later = Future(height')
    OBVIOUS
  <2>2. IsFiniteSet(later) /\ \A h \in later : old[h] = new[h]
    BY <1>6, <1>7, <2>1, FutureFacts
  <2>3. SumFunctionOnSet(old, later) = SumFunctionOnSet(new, later)
    BY ONLY <2>2, SumCongruence
  <2> QED BY <2>1, <2>3
<1>10. SumFunctionOnSet(old, Future(height')) \in Int /\ old[next] \in Int
  BY <1>6, FutureFacts, SumInt
<1>11. vestingLocked[id][a] = SumFunctionOnSet(old, Future(height))
  BY <1>3 DEF Covered
<1>12. vestingLocked'[id][a] = SumFunctionOnSet(new, Future(height'))
  BY <1>5, <1>8, <1>9, <1>10, <1>11
<1> QED BY <1>3, <1>12 DEF Covered, ScheduleOf

\* Only minting and the block hook touch what vests.
LEMMA VestingSteps ==
    ASSUME [Next]_vars
    PROVE  \/ \E id \in TokenIds, dist \in Distributions :
                  HandleMintDistribution(id, dist) /\ height' = height
           \/ NextBlock
           \/ UNCHANGED <<height, toBeUnlocked, vestingLocked>>
<1>1. CASE Factory
  <2>1. CASE TokenCreateCommand \/ TokenMintCommand
    BY <2>1 DEF TokenCreateCommand, TokenMintCommand, Create, Mint
  <2>2. CASE TokenBurnCommand
    BY <2>2 DEF TokenBurnCommand, Burn, factoryVars
  <2>3. CASE FactoryTransferOwnershipCommand \/ FactorySetAttributesCommand
    BY <2>3 DEF FactoryTransferOwnershipCommand, TransferOwnership, FactorySetAttributesCommand,
       SetAttributes
  <2> QED BY <1>1, <2>1, <2>2, <2>3 DEF Factory, FactoryCommand
<1>2. CASE Transfer \/ Stake \/ Horizon \/ UNCHANGED vars
  BY <1>2 DEF Transfer, Stake, Horizon, vars, factoryVars
<1>3. CASE Distribution
  BY <1>3, AirdropsKeepFactories DEF Distribution, factoryVars
<1>4. CASE Sale
  BY <1>4, SalesKeepFactories DEF Sale, factoryVars
<1> QED BY <1>1, <1>2, <1>3, <1>4 DEF Next

LEMMA VestingInit == Init => VestedMatchesSchedule
<1> SUFFICES ASSUME Init, NEW id \in TokenIds, NEW a \in Holders PROVE Covered(id, a)
  BY LedgerInvInit, CoveredCells
<1>1. \A h \in Heights : ScheduleOf(id, a)[h] = 0
  BY DEF Init, FactoryInit, ScheduleOf, Nothing
<1>2. SumFunctionOnSet(ScheduleOf(id, a), Future(height)) = 0
  BY <1>1, FutureFacts, SumZero
<1>3. vestingLocked[id][a] = 0
  BY DEF Init, FactoryInit, Nothing
<1> QED BY <1>2, <1>3 DEF Covered

LEMMA VestingNext ==
    LedgerInv /\ VestedMatchesSchedule /\ [Next]_vars => VestedMatchesSchedule'
<1> SUFFICES ASSUME LedgerInv, LedgerInv', VestedMatchesSchedule, [Next]_vars,
                    NEW id \in TokenIds, NEW a \in Holders
             PROVE  Covered(id, a)'
  <2>1. LedgerInv' =>
            (VestedMatchesSchedule' <=> \A id \in TokenIds, a \in Holders : Covered(id, a)')
    <3>1. LedgerInv' => \A id \in TokenIds, a \in Holders : available'[id][a] >= 0
      BY DEF LedgerInv, BalancesTyped, Rows
    <3> QED BY <3>1 DEF VestedMatchesSchedule, Covered, ScheduleOf, Future
  <2> QED BY <2>1, LedgerInvNext
<1>1. \A i \in TokenIds, x \in Holders : Covered(i, x)
  BY CoveredCells
<1>2. ASSUME NEW i \in TokenIds, NEW dist \in Distributions, HandleMintDistribution(i, dist),
             height' = height
      PROVE  Covered(id, a)'
  <2>1. CASE i = id
    BY <1>1, <1>2, <2>1, MintCovers
  <2>2. CASE i # id
    <3>1. /\ vestingLocked'[id] = vestingLocked[id]
          /\ \A h \in Heights : toBeUnlocked'[h][id] = toBeUnlocked[h][id]
      BY <1>2, <2>2, MintEffect
    <3>2. ScheduleOf(id, a)' = ScheduleOf(id, a)
      BY <3>1 DEF ScheduleOf
    <3>3. Future(height') = Future(height)
      BY <1>2
    <3> QED BY <1>1, <3>1, <3>2, <3>3 DEF Covered
  <2> QED BY <2>1, <2>2
<1>3. CASE NextBlock
  BY <1>1, <1>3, NextBlockCovers
<1>4. CASE UNCHANGED <<height, toBeUnlocked, vestingLocked>>
  BY <1>1, <1>4 DEF Covered, ScheduleOf, Future
<1> QED BY <1>2, <1>3, <1>4, VestingSteps

\* What is locked for vesting is what the schedule of the heights to come unlocks, for
\* every holder: no amount stays locked for ever, and nobody spends what is locked.
THEOREM VestedScheduled == Spec => []VestedMatchesSchedule
BY VestingInit, VestingNext, LedgerInvariant, PTL DEF Spec

\* The unlock of the next block, VestingUnlock.unlock in the hook before its transactions,
\* finds everything locked that it unlocks. It never throws, which would stop the chain.
THEOREM NextUnlockSucceeds ==
    Spec => [](height < MaxHeight =>
                  \A id \in TokenIds, a \in Holders :
                      vestingLocked[id][a] >= toBeUnlocked[height + 1][id][a])
<1> DEFINE Succeeds == height < MaxHeight =>
              \A id \in TokenIds, a \in Holders :
                  vestingLocked[id][a] >= toBeUnlocked[height + 1][id][a]
<1>1. LedgerInv /\ VestedMatchesSchedule => Succeeds
  <2> SUFFICES ASSUME LedgerInv, VestedMatchesSchedule, height < MaxHeight,
                      NEW id \in TokenIds, NEW a \in Holders
               PROVE  vestingLocked[id][a] >= toBeUnlocked[height + 1][id][a]
    OBVIOUS
  <2>1. PICK next \in Future(height) : next = height + 1
    BY FactoryAssumption DEF Future, Heights, LedgerInv, BalancesTyped
  <2>2. PICK old : old = ScheduleOf(id, a)
    OBVIOUS
  <2>3. \A h \in Future(height) : old[h] \in Nat
    BY <2>2 DEF Future, ScheduleOf, LedgerInv, BalancesTyped, Rows
  <2>4. old[next] <= SumFunctionOnSet(old, Future(height))
    BY <2>3, FutureFacts, SumBounds
  <2>5. old[next] = toBeUnlocked[next][id][a] /\ old[next] \in Int
    BY <2>2, <2>3, FutureFacts DEF ScheduleOf
  <2>6. vestingLocked[id][a] = SumFunctionOnSet(old, Future(height))
    BY <2>2, CoveredCells DEF Covered
  <2>7. vestingLocked[id][a] \in Int
    BY DEF LedgerInv, BalancesTyped, Rows
  <2> QED BY <2>1, <2>4, <2>5, <2>6, <2>7
<1>2. Spec => []Succeeds
  BY <1>1, VestedScheduled, LedgerInvariant, PTL
<1> QED BY <1>2

-------------------------------------------------------------------------------
(* The price of an ICO pool *)

Books == [sold : Int, earned : Int, swaps : Nat, inexact : Nat]

BooksTyped ==
    /\ book \in [Pools -> Books]
    /\ \A pool \in Pools : ico[pool] = None => book[pool] = ClosedBook

\* The price and the book of one pool
Gap(price, b) == price.den * b.earned - price.num * b.sold
SoldAt(price, b) ==
    /\ OffBy(Unit(price), Gap(price, b), b.swaps, b.inexact)
    /\ OffBy(Unit(price), -Gap(price, b), b.swaps, b.inexact)

LEMMA PoolSellsAtPriceIs ==
    PoolSellsAtPrice <=> \A pool \in Pools : ico[pool] # None => SoldAt(ico[pool].price, book[pool])
BY DEF PoolSellsAtPrice, WithinRounding, SoldAt, OffBy, Unit, Gap

\* One swap moves the book by what its quote is off.
LEMMA OneSwap ==
    ASSUME NEW price \in [num : Nat, den : Nat \ {0}],
           NEW b \in Books, SoldAt(price, b),
           NEW n \in Int, NEW m \in Int, NEW y \in Nat, NEW e \in Int, e = price.den * n - price.num * m,
           OffBy(Unit(price), e, 1, y), OffBy(Unit(price), -e, 1, y),
           NEW c, c = [sold |-> b.sold + m, earned |-> b.earned + n, swaps |-> b.swaps + 1,
                       inexact |-> b.inexact + y]
    PROVE  SoldAt(price, c)
<1>1. PICK num, den, sold, earned, swaps, inexact, k \in Int :
          /\ num = price.num /\ den = price.den /\ k = Unit(price)
          /\ sold = b.sold /\ earned = b.earned /\ swaps = b.swaps /\ inexact = b.inexact
  <2>1. /\ price.num \in Int /\ price.den \in Int /\ Unit(price) \in Int
        /\ b.sold \in Int /\ b.earned \in Int /\ b.swaps \in Int /\ b.inexact \in Int
    BY DEF Unit, Books
  <2> QED BY ONLY <2>1
<1>2. PICK g \in Int : g = den * earned - num * sold
  <2>1. den * earned - num * sold \in Int
    OBVIOUS
  <2> QED BY ONLY <2>1
<1>3. OffBy(k, g, swaps, inexact) /\ OffBy(k, -g, swaps, inexact)
  BY <1>1, <1>2 DEF SoldAt, Gap
<1>4. den * (earned + n) - num * (sold + m) = g + e
  <2>1. PICK x1, x2, y1, y2 \in Int : /\ x1 = den * earned /\ x2 = den * n
                                      /\ y1 = num * sold /\ y2 = num * m
    <3>1. den * earned \in Int /\ den * n \in Int /\ num * sold \in Int /\ num * m \in Int
      OBVIOUS
    <3> QED BY ONLY <3>1
  <2>2. den * (earned + n) = x1 + x2 /\ num * (sold + m) = y1 + y2
    BY <1>1, <2>1
  <2> QED BY <1>1, <1>2, <2>1, <2>2
<1>5. PICK h, u, z \in Int : h = g + e /\ u = swaps + 1 /\ z = inexact + y
  <2>1. g + e \in Int /\ swaps + 1 \in Int /\ inexact + y \in Int
    OBVIOUS
  <2> QED BY ONLY <2>1
<1>6. OffBy(k, h, u, z)
  <2>1. OffBy(k, g, swaps, inexact) /\ OffBy(k, e, 1, y) /\ y \in Int
    BY <1>1, <1>3
  <2> QED BY ONLY <1>5, <2>1, OffByAdds, k \in Int, g \in Int, swaps \in Int, inexact \in Int,
          e \in Int, h \in Int, u \in Int, z \in Int
<1>7. OffBy(k, -h, u, z)
  <2>1. PICK f, d \in Int : f = -g /\ d = -e
    OBVIOUS
  <2>2. -h = f + d
    BY <1>5, <2>1
  <2>3. OffBy(k, f, swaps, inexact) /\ OffBy(k, d, 1, y) /\ y \in Int /\ -h \in Int
    BY <1>1, <1>3, <2>1
  <2> QED BY ONLY <1>5, <2>2, <2>3, OffByAdds, k \in Int, f \in Int, swaps \in Int,
          inexact \in Int, d \in Int, u \in Int, z \in Int
<1>8. c.sold = sold + m /\ c.earned = earned + n /\ c.swaps = u /\ c.inexact = z
  BY <1>1, <1>5
<1>9. Gap(price, c) = h
  BY <1>1, <1>4, <1>5, <1>8 DEF Gap
<1> QED BY <1>1, <1>6, <1>7, <1>8, <1>9 DEF SoldAt

\* What a step does to the books of the pools
Swapped(pool, n, m, y) ==
    /\ ICOExists(pool) /\ UNCHANGED ico
    /\ book' = [book EXCEPT ![pool] = [sold |-> @.sold + m, earned |-> @.earned + n,
                                       swaps |-> @.swaps + 1, inexact |-> @.inexact + y]]

SwapsAtPrice(pool, n, m, y) ==
    LET price == ico[pool].price
        e == price.den * n - price.num * m
    IN  OffBy(Unit(price), e, 1, y) /\ OffBy(Unit(price), -e, 1, y)

LEMMA SwapSteps ==
    ASSUME LedgerInv, NEW sender, NEW recipient, NEW pool \in Pools, NEW k \in Nat,
           \/ ExactInputSingle(sender, recipient, pool, k)
           \/ ExactOutputSingle(sender, recipient, pool, k)
    PROVE  \E n, m, y \in Nat : Swapped(pool, n, m, y) /\ SwapsAtPrice(pool, n, m, y)
<1>1. ICOExists(pool)
  BY DEF ExactInputSingle, ExactOutputSingle
<1>2. PICK num \in Nat, den \in Nat \ {0} : num = ico[pool].price.num /\ den = ico[pool].price.den
  BY <1>1, QuotesNat
<1>3. PICK l \in Nat : l = Unit(ico[pool].price) /\ num <= l /\ den <= l
  BY <1>2 DEF Unit
<1>4. CASE ExactInputSingle(sender, recipient, pool, k)
  <2>1. PICK m \in Nat : m = Rounded(Read(k) * den, num)
    BY <1>1, <1>2, <1>4, QuotesNat DEF ExactInputSingle, QuoteExactInputSingle
  <2>2. PICK y : y = BeyondNumber(k, den)
    OBVIOUS
  <2>3. Swapped(pool, k, m, y)
    BY <1>1, <1>2, <1>4, <2>1, <2>2
       DEF ExactInputSingle, QuoteExactInputSingle, IcoSwapInternal, Swapped
  <2>4. num \in Nat \ {0} /\ den \in Nat
    BY <1>2, <1>4 DEF ExactInputSingle
  <2>5. PICK gap \in Int : gap = num * m - k * den
    <3>1. num * m - k * den \in Int
      BY <2>4
    <3> QED BY ONLY <3>1
  <2>6. y \in Nat /\ OffBy(l, gap, 1, y) /\ OffBy(l, -gap, 1, y)
    BY <1>3, <2>1, <2>2, <2>4, <2>5, QuoteClose
  <2>7. den * k - num * m = -gap /\ -(-gap) = gap
    <3>1. PICK a, b \in Int : a = num * m /\ b = k * den
      BY <2>4
    <3>2. den * k = b
      BY <2>4, <3>1
    <3> QED BY <2>5, <3>1, <3>2
  <2>8. SwapsAtPrice(pool, k, m, y)
    BY <1>2, <1>3, <2>6, <2>7 DEF SwapsAtPrice
  <2> QED BY <2>3, <2>6, <2>8
<1>5. CASE ExactOutputSingle(sender, recipient, pool, k)
  <2>1. PICK n \in Nat : n = Rounded(Read(k) * num, den)
    BY <1>1, <1>2, QuotesNat DEF QuoteExactOutputSingle
  <2>2. PICK y : y = BeyondNumber(k, num)
    OBVIOUS
  <2>3. Swapped(pool, n, k, y)
    BY <1>1, <1>2, <1>5, <2>1, <2>2
       DEF ExactOutputSingle, QuoteExactOutputSingle, IcoSwapInternal, Swapped
  <2>5. PICK gap \in Int : gap = den * n - k * num
    <3>1. den * n - k * num \in Int
      OBVIOUS
    <3> QED BY ONLY <3>1
  <2>6. y \in Nat /\ OffBy(l, gap, 1, y) /\ OffBy(l, -gap, 1, y)
    BY <1>3, <2>1, <2>2, <2>5, QuoteClose
  <2>7. den * n - num * k = gap
    <3>1. num * k = k * num
      OBVIOUS
    <3> QED BY <2>5, <3>1
  <2>8. SwapsAtPrice(pool, n, k, y)
    BY <1>2, <1>3, <2>6, <2>7 DEF SwapsAtPrice
  <2> QED BY <2>3, <2>6, <2>8
<1> QED BY <1>4, <1>5

PriceInv == BooksTyped /\ PoolSellsAtPrice

LEMMA SwappedKeepsPrice ==
    ASSUME LedgerInv, PriceInv, NEW pool \in Pools, NEW n \in Nat, NEW m \in Nat, NEW y \in Nat,
           Swapped(pool, n, m, y), SwapsAtPrice(pool, n, m, y)
    PROVE  PriceInv'
<1>1. PICK price \in [num : Nat, den : Nat \ {0}] : price = ico[pool].price
  BY DEF LedgerInv, PoolsTyped, Swapped, ICOExists
<1>2. PICK b \in Books : b = book[pool]
  BY DEF PriceInv, BooksTyped
<1>3. PICK c : c = [sold |-> b.sold + m, earned |-> b.earned + n, swaps |-> b.swaps + 1,
                    inexact |-> b.inexact + y]
  OBVIOUS
<1>4. c \in Books
  BY <1>3 DEF Books
<1>5. book' = [book EXCEPT ![pool] = c] /\ ico' = ico /\ ico[pool] # None
  BY <1>2, <1>3 DEF Swapped, ICOExists
<1>6. SoldAt(price, b)
  BY <1>1, <1>2, <1>5, PoolSellsAtPriceIs DEF PriceInv
<1>7. PICK e \in Int : e = price.den * n - price.num * m
  <2>1. price.den * n - price.num * m \in Int
    BY <1>1
  <2> QED BY ONLY <2>1
<1>8. OffBy(Unit(price), e, 1, y) /\ OffBy(Unit(price), -e, 1, y)
  BY <1>1, <1>7 DEF SwapsAtPrice
<1>9. SoldAt(price, c)
  <2>1. n \in Int /\ m \in Int /\ y \in Nat
    OBVIOUS
  <2> QED BY ONLY <1>3, <1>6, <1>7, <1>8, <2>1, OneSwap,
          price \in [num : Nat, den : Nat \ {0}], b \in Books
<1>10. BooksTyped'
  BY <1>4, <1>5 DEF PriceInv, BooksTyped
<1>11. \A q \in Pools : ico'[q] # None => SoldAt(ico'[q].price, book'[q])
  BY <1>1, <1>5, <1>9, PoolSellsAtPriceIs DEF PriceInv, BooksTyped
<1>12. PoolSellsAtPrice'
  BY <1>11 DEF PoolSellsAtPrice, WithinRounding, SoldAt, OffBy, Unit, Gap
<1> QED BY <1>10, <1>12 DEF PriceInv

\* A pool that is created, or that gets a new price, starts with a closed book.
LEMMA PricedKeepsPrice ==
    ASSUME LedgerInv, PriceInv, NEW pool \in Pools, NEW price \in Prices, NEW provider,
           ico' = [ico EXCEPT ![pool] = [price |-> price, providerAddress |-> provider]],
           book' = [book EXCEPT ![pool] = ClosedBook]
    PROVE  PriceInv'
<1>1. price \in [num : Nat, den : Nat \ {0}]
  BY IcoAssumption
<1>2. ClosedBook \in Books
  BY DEF ClosedBook, Books
<1>3. DOMAIN ico = Pools /\ book \in [Pools -> Books]
  BY DEF LedgerInv, PoolsTyped, PriceInv, BooksTyped
<1>4. BooksTyped'
  BY <1>2, <1>3 DEF PriceInv, BooksTyped
<1>5. SoldAt(price, ClosedBook)
  <2>1. PICK num, den, l \in Int : num = price.num /\ den = price.den /\ l = Unit(price)
    BY <1>1 DEF Unit
  <2>2. Gap(price, ClosedBook) = 0 /\ -Gap(price, ClosedBook) = 0
    BY <2>1 DEF Gap, ClosedBook
  <2>3. OffBy(l, 0, 0, 0)
    <3>1. 20 * 0 - 11 * 0 * l = 0 /\ Exact * 0 = 0
      BY IcoQuoterAssumption
    <3> QED BY <3>1 DEF OffBy
  <2> QED BY <2>1, <2>2, <2>3 DEF SoldAt, ClosedBook
<1>6. \A q \in Pools : ico'[q] # None => SoldAt(ico'[q].price, book'[q])
  BY <1>3, <1>5, PoolSellsAtPriceIs DEF PriceInv
<1>7. PoolSellsAtPrice'
  BY <1>6 DEF PoolSellsAtPrice, WithinRounding, SoldAt, OffBy, Unit, Gap
<1> QED BY <1>4, <1>7 DEF PriceInv

LEMMA PriceInvNext == LedgerInv /\ PriceInv /\ [Next]_vars => PriceInv'
<1> SUFFICES ASSUME LedgerInv, PriceInv, [Next]_vars PROVE PriceInv'
  OBVIOUS
<1>1. CASE UNCHANGED <<ico, book>>
  BY <1>1 DEF PriceInv, BooksTyped, PoolSellsAtPrice
<1>2. CASE Sale
  <2>1. ASSUME NEW sender, NEW recipient, NEW pool \in Pools, NEW k \in Nat,
               \/ ExactInputSingle(sender, recipient, pool, k)
               \/ ExactOutputSingle(sender, recipient, pool, k)
        PROVE  PriceInv'
    BY <2>1, SwapSteps, SwappedKeepsPrice
  <2>2. CASE IcoSingleCommand \/ IcoTransferCommand
    BY <2>1, <2>2, IcoAssumption, LedgerAssumption
       DEF IcoSingleCommand, IcoTransferCommand, SwapByTransfer
  <2>3. CASE IcoCreateCommand
    <3>1. PICK sender \in Users, pool \in Pools, provider \in Users, price \in Prices, n \in IcoAmounts :
              IcoCreate(sender, pool, provider, price, n)
      BY <2>3 DEF IcoCreateCommand
    <3>2. ico' = [ico EXCEPT ![pool] = [price |-> price, providerAddress |-> provider]]
      BY <3>1 DEF IcoCreate
    <3>3. book[pool] = ClosedBook /\ book' = book
      BY <3>1 DEF IcoCreate, ICONotCreatedYet, PriceInv, BooksTyped
    <3>4. book' = [book EXCEPT ![pool] = ClosedBook]
      BY <3>3 DEF PriceInv, BooksTyped
    <3> QED BY <3>2, <3>4, PricedKeepsPrice
  <2>4. CASE IcoChangePriceCommand
    <3>1. PICK sender \in Users, pool \in Pools, price \in Prices : IcoChangePrice(sender, pool, price)
      BY <2>4 DEF IcoChangePriceCommand
    <3>2. ico[pool] \in [price : [num : Nat, den : Nat \ {0}], providerAddress : Holders]
      BY <3>1 DEF IcoChangePrice, IsProvider, ICOExists, LedgerInv, PoolsTyped
    <3>3. ico' = [ico EXCEPT ![pool] = [ico[pool] EXCEPT !.price = price]]
      BY <3>1 DEF IcoChangePrice
    <3>4. [ico[pool] EXCEPT !.price = price] =
              [price |-> price, providerAddress |-> ico[pool].providerAddress]
      BY <3>2
    <3>5. book' = [book EXCEPT ![pool] = ClosedBook]
      BY <3>1 DEF IcoChangePrice
    <3> QED BY <3>3, <3>4, <3>5, PricedKeepsPrice
  <2>5. CASE IcoDepositCommand \/ IcoWithdrawCommand \/ IcoTreasurifyCommand
    <3>1. UNCHANGED icoVars
      BY <2>5 DEF IcoDepositCommand, IcoDeposit, IcoWithdrawCommand, IcoWithdraw,
         IcoTreasurifyCommand, IcoTreasurify
    <3> QED BY <1>1, <3>1 DEF icoVars
  <2> QED BY <1>2, <2>2, <2>3, <2>4, <2>5 DEF Sale, IcoCommand
<1>3. CASE Transfer \/ Stake \/ Factory \/ Distribution \/ NextBlock \/ Horizon \/ UNCHANGED vars
  <2>1. UNCHANGED icoVars
    BY <1>3 DEF Transfer, Stake, Factory, Distribution, NextBlock, Horizon, vars
  <2> QED BY <1>1, <2>1 DEF icoVars
<1> QED BY <1>2, <1>3 DEF Next

\* However many swaps of every kind are made at a price, the provider of a pool earns what
\* the sold tokens are worth, but for eleven twentieths of a token of either side per swap
\* and two parts in Exact of the amounts that no Number holds: what the quotes of exact
\* inputs and of exact outputs are off by does not add up to more, at any price.
THEOREM SoldAtPrice == Spec => []PoolSellsAtPrice
<1>1. Init => PriceInv
  <2>1. ClosedBook \in Books
    BY DEF ClosedBook, Books
  <2> QED BY <2>1 DEF Init, IcoInit, PriceInv, BooksTyped, PoolSellsAtPrice
<1>2. PriceInv => PoolSellsAtPrice
  BY DEF PriceInv
<1> QED BY <1>1, <1>2, PriceInvNext, LedgerInvariant, PTL DEF Spec

-------------------------------------------------------------------------------
(* The promises of an airdrop *)

LEMMA AppendedOwes ==
    ASSUME NEW list \in OpenLists, NEW r \in [address : Holders, amount : Int], NEW a
    PROVE  Owed(Append(list, r), a) = Owed(list, a) + IF r.address = a THEN r.amount ELSE 0
<1>a. PICK new : new = Append(list, r)
  OBVIOUS
<1> SUFFICES Owed(new, a) = Owed(list, a) + IF r.address = a THEN r.amount ELSE 0
  BY <1>a
<1>1. PICK n \in Nat : n = Len(list) /\ DOMAIN list = 1 .. n
  BY ListFacts
<1>2. /\ new \in OpenLists /\ Len(new) = n + 1 /\ new[n + 1] = r
      /\ \A i \in 1 .. n : new[i] = list[i]
  <2> DEFINE R == [address : Holders, amount : Int]
  <2>1. list \in Seq(R) /\ r \in R
    BY DEF OpenLists
  <2>2. new \in Seq(R)
    <3> HIDE DEF R
    <3> QED BY <1>a, <2>1, AppendProperties
  <2>3. /\ Len(new) = n + 1 /\ new[n + 1] = r /\ \A i \in 1 .. n : new[i] = list[i]
    <3> HIDE DEF R
    <3> QED BY <1>1, <1>a, <2>1, AppendProperties
  <2> QED BY <2>2, <2>3 DEF OpenLists
<1>3. DOMAIN new = 1 .. n + 1
  BY <1>2, ListFacts
<1>4. PICK f, g, S : f = Amounts(list) /\ g = Amounts(new) /\ S = EntriesOf(list, a)
  OBVIOUS
<1>5. IsFiniteSet(S) /\ S \subseteq 1 .. n /\ \A i \in S : f[i] \in Int /\ g[i] = f[i]
  <2>1. \A i \in 1 .. n : i \in DOMAIN new /\ i \in DOMAIN list
    BY <1>1, <1>3
  <2> QED BY <1>1, <1>2, <1>4, <2>1, ListFacts DEF Amounts
<1>6. SumFunctionOnSet(g, S) = SumFunctionOnSet(f, S) /\ SumFunctionOnSet(f, S) \in Int
  BY <1>5, SumCongruence, SumInt
<1>7. g[n + 1] = r.amount /\ r.amount \in Int /\ n + 1 \notin S /\ n + 1 \in DOMAIN new
  BY <1>2, <1>3, <1>4, <1>5 DEF Amounts
<1>8. CASE r.address = a
  <2>1. EntriesOf(new, a) = S \cup {n + 1}
    BY <1>1, <1>2, <1>3, <1>4, <1>8 DEF EntriesOf
  <2>2. SumFunctionOnSet(g, S \cup {n + 1}) = g[n + 1] + SumFunctionOnSet(g, S)
    BY <1>5, <1>7, SumAdd
  <2> QED BY <1>4, <1>6, <1>7, <1>8, <2>1, <2>2 DEF Owed
<1>9. CASE r.address # a
  <2>1. EntriesOf(new, a) = S
    BY <1>1, <1>2, <1>3, <1>4, <1>9 DEF EntriesOf
  <2> QED BY <1>4, <1>6, <1>9, <2>1 DEF Owed
<1> QED BY <1>8, <1>9

LEMMA RaisedOwes ==
    ASSUME NEW list \in OpenLists, NEW i \in DOMAIN list, NEW n \in Int, NEW a,
           NEW new, new = Raised(list, i, n)
    PROVE  Owed(new, a) = Owed(list, a) + IF list[i].address = a THEN n ELSE 0
<1>1. /\ new \in OpenLists /\ DOMAIN new = DOMAIN list
      /\ new[i].address = list[i].address /\ new[i].amount = list[i].amount + n
      /\ \A j \in DOMAIN list \ {i} : new[j] = list[j]
  <2>1. /\ new \in OpenLists /\ DOMAIN new = DOMAIN list
        /\ new[i] = [address |-> list[i].address, amount |-> list[i].amount + n]
        /\ \A j \in DOMAIN list \ {i} : new[j] = list[j]
    BY ONLY RaisedAt, list \in OpenLists, i \in DOMAIN list, n \in Int, new = Raised(list, i, n)
  <2> QED BY <2>1
<1>2. PICK f, g, S : f = Amounts(list) /\ g = Amounts(new) /\ S = EntriesOf(list, a)
  OBVIOUS
<1>3. EntriesOf(new, a) = S
  BY <1>1, <1>2 DEF EntriesOf
<1>4. IsFiniteSet(S) /\ S \subseteq DOMAIN list
  BY <1>2, ListFacts
<1>5. \A j \in S : f[j] \in Int /\ g[j] \in Int
  BY <1>1, <1>2, <1>4, ListFacts
<1>6. \A j \in S : j # i => g[j] = f[j]
  BY <1>1, <1>2, <1>4 DEF Amounts
<1>7. g[i] = f[i] + n /\ f[i] \in Int
  BY <1>1, <1>2, ListFacts
<1>8. SumFunctionOnSet(f, S) \in Int
  BY <1>4, <1>5, SumInt
<1>9. CASE list[i].address = a
  <2>1. i \in S
    BY <1>2, <1>9 DEF EntriesOf
  <2>2. SumFunctionOnSet(g, S) = SumFunctionOnSet(f, S) - f[i] + g[i]
    BY <1>4, <1>5, <1>6, <2>1, SumUpdate
  <2> QED BY <1>2, <1>3, <1>7, <1>8, <1>9, <2>2 DEF Owed
<1>10. CASE list[i].address # a
  <2>1. i \notin S
    BY <1>2, <1>10 DEF EntriesOf
  <2>2. SumFunctionOnSet(g, S) = SumFunctionOnSet(f, S)
    BY <1>4, <1>6, <2>1, SumCongruence
  <2> QED BY <1>2, <1>3, <1>8, <1>10, <2>2 DEF Owed
<1> QED BY <1>9, <1>10

LEMMA RemovedOwes ==
    ASSUME NEW list \in OpenLists, NEW i \in DOMAIN list, NEW a,
           NEW new, new = RemoveAt(list, i)
    PROVE  Owed(new, a) = Owed(list, a) - IF list[i].address = a THEN list[i].amount ELSE 0
<1>1. PICK n \in Nat : n = Len(list) /\ DOMAIN list = 1 .. n /\ i \in 1 .. n
  BY ListFacts
<1>2. /\ new \in OpenLists /\ DOMAIN new = 1 .. n - 1
      /\ \A j \in 1 .. n - 1 : new[j] = list[IF j < i THEN j ELSE j + 1]
  <2> DEFINE R == [address : Holders, amount : Int]
  <2>1. list \in Seq(R)
    BY DEF OpenLists
  <2>2. /\ new \in Seq(R) /\ Len(new) = n - 1
        /\ \A j \in 1 .. n - 1 : new[j] = list[IF j < i THEN j ELSE j + 1]
    <3> HIDE DEF R
    <3> QED BY <1>1, <2>1, RemovedAt
  <2>3. new \in OpenLists
    BY <2>2 DEF OpenLists
  <2> QED BY <2>2, <2>3, ListFacts
<1>3. PICK b : b = [j \in 1 .. n - 1 |-> IF j < i THEN j ELSE j + 1]
  OBVIOUS
<1>4. PICK f, g, S, T :
          f = Amounts(new) /\ g = Amounts(list) /\ S = EntriesOf(new, a) /\ T = EntriesOf(list, a)
  OBVIOUS
<1>5. IsFiniteSet(S) /\ S \subseteq 1 .. n - 1 /\ IsFiniteSet(T) /\ T \subseteq 1 .. n
  BY <1>1, <1>2, <1>4, ListFacts
<1>6. \A j \in 1 .. n - 1 : b[j] \in (1 .. n) \ {i} /\ new[j] = list[b[j]]
  BY <1>1, <1>2, <1>3
<1>7. \A j \in S : f[j] \in Int /\ g[b[j]] = f[j]
  <2> SUFFICES ASSUME NEW j \in S PROVE f[j] \in Int /\ g[b[j]] = f[j]
    OBVIOUS
  <2>1. j \in DOMAIN new /\ b[j] \in DOMAIN list /\ new[j] = list[b[j]]
    BY <1>1, <1>2, <1>5, <1>6
  <2> QED BY <1>2, <1>4, <2>1, ListFacts
<1>8. \A x, y \in S : b[x] = b[y] => x = y
  BY <1>1, <1>3, <1>5
<1>9. {b[j] : j \in S} = T \ {i}
  <2>1. ASSUME NEW j \in S PROVE b[j] \in T \ {i}
    BY <1>1, <1>2, <1>4, <1>5, <1>6 DEF EntriesOf
  <2>2. ASSUME NEW t \in T, t # i PROVE \E j \in S : t = b[j]
    <3>1. PICK j \in 1 .. n - 1 : j = IF t < i THEN t ELSE t - 1
      BY <1>1, <1>5, <2>2
    <3>2. b[j] = t
      BY <1>1, <1>3, <1>5, <2>2, <3>1
    <3>3. j \in S
      BY <1>2, <1>4, <1>6, <3>2 DEF EntriesOf
    <3> QED BY <3>2, <3>3
  <2> QED BY <2>1, <2>2
<1>10. SumFunctionOnSet(g, T \ {i}) = SumFunctionOnSet(f, S)
  <2>1. SumFunctionOnSet(g, {b[x] : x \in S}) = SumFunctionOnSet(f, S)
    <3>1. IsFiniteSet(S)
      BY <1>5
    <3> QED BY ONLY <3>1, <1>7, <1>8, SumReindex
  <2> QED BY <1>9, <2>1
<1>11. \A j \in T : g[j] \in Int
  BY <1>1, <1>4, <1>5, ListFacts
<1>12. SumFunctionOnSet(f, S) \in Int
  BY <1>5, <1>7, SumInt
<1>13. g[i] = list[i].amount /\ g[i] \in Int
  BY <1>4, ListFacts
<1>14. CASE list[i].address = a
  <2>1. i \in T
    BY <1>4, <1>14 DEF EntriesOf
  <2>2. SumFunctionOnSet(g, T) = g[i] + SumFunctionOnSet(g, T \ {i})
    <3>1. IsFiniteSet(T)
      BY <1>5
    <3> QED BY ONLY <3>1, <1>11, <2>1, SumRemove
  <2> QED BY <1>4, <1>10, <1>12, <1>13, <1>14, <2>2 DEF Owed
<1>15. CASE list[i].address # a
  <2>1. T \ {i} = T
    BY <1>4, <1>15 DEF EntriesOf
  <2> QED BY <1>4, <1>10, <1>12, <1>15, <2>1 DEF Owed
<1> QED BY <1>14, <1>15

\* One change changes what is owed to its address, by its amount.
LEMMA EditedOwes ==
    ASSUME NEW list \in OpenLists, NEW e \in [address : Holders, amountDelta : Int], NEW a
    PROVE  Owed(Edited(list, e), a) = Owed(list, a) + IF e.address = a THEN e.amountDelta ELSE 0
<1>1. CASE Edited(list, e) = Append(list, [address |-> e.address, amount |-> e.amountDelta])
  <2>1. PICK r : r = [address |-> e.address, amount |-> e.amountDelta]
    OBVIOUS
  <2>2. r \in [address : Holders, amount : Int] /\ r.address = e.address /\ r.amount = e.amountDelta
    BY <2>1
  <2>3. Owed(Append(list, r), a) = Owed(list, a) + IF r.address = a THEN r.amount ELSE 0
    BY <2>2, AppendedOwes
  <2> QED BY <1>1, <2>1, <2>2, <2>3
<1>2. ASSUME NEW i \in DOMAIN list, list[i].address = e.address,
             Edited(list, e) = Raised(list, i, e.amountDelta)
      PROVE  Owed(Edited(list, e), a) = Owed(list, a) + IF e.address = a THEN e.amountDelta ELSE 0
  BY <1>2, RaisedOwes
<1>3. ASSUME NEW i \in DOMAIN list, list[i].address = e.address,
             list[i].amount + e.amountDelta = 0, Edited(list, e) = RemoveAt(list, i)
      PROVE  Owed(Edited(list, e), a) = Owed(list, a) + IF e.address = a THEN e.amountDelta ELSE 0
  <2>1. list[i].amount \in Int /\ e.amountDelta \in Int
    BY ListFacts
  <2>2. Owed(list, a) \in Int
    <3>1. \A j \in EntriesOf(list, a) : Amounts(list)[j] \in Int
      BY ListFacts
    <3> QED BY <3>1, ListFacts, SumInt DEF Owed
  <2>3. Owed(Edited(list, e), a) = Owed(list, a) - IF e.address = a THEN list[i].amount ELSE 0
    BY <1>3, RemovedOwes
  <2> QED BY <1>3, <2>1, <2>2, <2>3
<1> QED BY <1>1, <1>2, <1>3, EditCases

\* What the first n changes change
ChangeTo(edits, a, n) == SumFunctionOnSet(Deltas(edits), {i \in 1 .. n : edits[i].address = a})

LEMMA ChangeSteps ==
    ASSUME NEW edits \in RecipientLists \cup RecipientEdits, NEW a
    PROVE  /\ ChangeTo(edits, a, 0) = 0 /\ ChangeTo(edits, a, Len(edits)) = Change(edits, a)
           /\ \A n \in 0 .. Len(edits) : ChangeTo(edits, a, n) \in Int
           /\ \A n \in 0 .. Len(edits) - 1 : ChangeTo(edits, a, n + 1) = ChangeTo(edits, a, n) +
                 IF edits[n + 1].address = a THEN edits[n + 1].amountDelta ELSE 0
<1>1. /\ Len(edits) \in Nat /\ DOMAIN edits = 1 .. Len(edits)
      /\ \A i \in DOMAIN edits : edits[i].amountDelta \in Int
  BY EditFacts
<1>2. PICK f : f = Deltas(edits)
  OBVIOUS
<1>3. \A i \in 1 .. Len(edits) : f[i] = edits[i].amountDelta /\ f[i] \in Int
  BY <1>1, <1>2 DEF Deltas
<1>4. ChangeTo(edits, a, 0) = 0
  <2>1. {i \in 1 .. 0 : edits[i].address = a} = {}
    OBVIOUS
  <2> QED BY <2>1, SumEmpty DEF ChangeTo
<1>5. ChangeTo(edits, a, Len(edits)) = Change(edits, a)
  BY <1>1 DEF ChangeTo, Change, EntriesOf
<1>6. ASSUME NEW n \in 0 .. Len(edits)
      PROVE  /\ IsFiniteSet({i \in 1 .. n : edits[i].address = a})
             /\ \A i \in 1 .. n : f[i] \in Int
             /\ ChangeTo(edits, a, n) \in Int
  <2>1. IsFiniteSet(1 .. n)
    BY <1>1, FS_Interval
  <2>2. IsFiniteSet({i \in 1 .. n : edits[i].address = a})
    BY <2>1, FS_Subset
  <2>3. \A i \in 1 .. n : f[i] \in Int
    BY <1>1, <1>3
  <2> QED BY <1>2, <2>2, <2>3, SumInt DEF ChangeTo
<1>7. ASSUME NEW n \in 0 .. Len(edits) - 1
      PROVE  ChangeTo(edits, a, n + 1) = ChangeTo(edits, a, n) +
                IF edits[n + 1].address = a THEN edits[n + 1].amountDelta ELSE 0
  <2>1. PICK S, T : /\ S = {i \in 1 .. n : edits[i].address = a}
                    /\ T = {i \in 1 .. n + 1 : edits[i].address = a}
    OBVIOUS
  <2>2. n \in 0 .. Len(edits) /\ n + 1 \in 1 .. Len(edits) /\ n + 1 \notin S
    BY <1>1, <2>1
  <2>3. SumFunctionOnSet(f, S) \in Int /\ IsFiniteSet(S) /\ \A i \in S : f[i] \in Int
    BY <1>2, <1>6, <2>1, <2>2 DEF ChangeTo
  <2>a. /\ ChangeTo(edits, a, n) = SumFunctionOnSet(f, S)
        /\ ChangeTo(edits, a, n + 1) = SumFunctionOnSet(f, T)
    BY <1>2, <2>1 DEF ChangeTo
  <2>4. CASE edits[n + 1].address = a
    <3>1. T = S \cup {n + 1}
      BY <1>1, <2>1, <2>4
    <3>2. SumFunctionOnSet(f, S \cup {n + 1}) = f[n + 1] + SumFunctionOnSet(f, S)
      BY <1>3, <2>2, <2>3, SumAdd
    <3> QED BY <1>3, <2>2, <2>3, <2>4, <2>a, <3>1, <3>2
  <2>5. CASE edits[n + 1].address # a
    <3>1. T = S
      BY <1>1, <2>1, <2>5
    <3> QED BY <2>3, <2>5, <2>a, <3>1
  <2> QED BY <2>4, <2>5
<1> QED BY <1>4, <1>5, <1>6, <1>7

LEMMA OwedInt ==
    ASSUME NEW list \in OpenLists, NEW a
    PROVE  Owed(list, a) \in Int
<1>1. \A j \in EntriesOf(list, a) : Amounts(list)[j] \in Int
  BY ListFacts
<1> QED BY <1>1, ListFacts, SumInt DEF Owed

\* All the changes of a command change what is owed by their sum.
LEMMA AllEditsOwe ==
    ASSUME NEW list \in OpenLists, NEW edits \in RecipientEdits, NEW a
    PROVE  Owed(AfterEdits(list, edits, Len(edits)), a) = Owed(list, a) + Change(edits, a)
<1> DEFINE Good == {n \in 0 .. Len(edits) :
              Owed(AfterEdits(list, edits, n), a) = Owed(list, a) + ChangeTo(edits, a, n)}
<1>1. Len(edits) \in Nat /\ edits \in EditLists /\ DOMAIN edits = 1 .. Len(edits)
  BY EditFacts
<1>2. Owed(list, a) \in Int
  BY OwedInt
<1>3. 0 \in Good
  BY <1>1, <1>2, AfterEditsStep, ChangeSteps
<1>4. ASSUME NEW n \in 0 .. Len(edits) - 1, n \in Good PROVE n + 1 \in Good
  <2>1. n \in Nat /\ n \in 0 .. Len(edits) /\ n + 1 \in 0 .. Len(edits) /\ n + 1 \in DOMAIN edits
    BY <1>1
  <2>2. PICK before, e : before = AfterEdits(list, edits, n) /\ e = edits[n + 1]
    OBVIOUS
  <2>3. before \in OpenLists /\ e \in [address : Holders, amountDelta : Int]
    BY <1>1, <2>1, <2>2, AfterEditsTyped, EditFacts
  <2>4. AfterEdits(list, edits, n + 1) = Edited(before, e)
    BY <2>1, <2>2, AfterEditsStep
  <2>5. Owed(Edited(before, e), a) = Owed(before, a) + IF e.address = a THEN e.amountDelta ELSE 0
    BY <2>3, EditedOwes
  <2>6. ChangeTo(edits, a, n + 1) = ChangeTo(edits, a, n) + IF e.address = a THEN e.amountDelta ELSE 0
    BY <2>2, ChangeSteps
  <2>7. ChangeTo(edits, a, n) \in Int /\ e.amountDelta \in Int
    BY <2>1, <2>3, ChangeSteps
  <2>8. Owed(before, a) = Owed(list, a) + ChangeTo(edits, a, n)
    BY <1>4, <2>2
  <2> QED BY <1>2, <2>1, <2>4, <2>5, <2>6, <2>7, <2>8
<1> HIDE DEF Good
<1>5. Len(edits) \in Good
  <2>1. \A n \in 0 .. Len(edits) : n \in Good
    BY <1>1, <1>3, <1>4, UpTo
  <2>2. Len(edits) \in 0 .. Len(edits)
    BY <1>1
  <2> QED BY <2>1, <2>2
<1> QED BY <1>5, ChangeSteps DEF Good

DueTyped == due \in [AirdropKeys -> [Holders -> Int]]

\* What the list of one key owes and what is due, for everybody
Kept(k) == \A a \in Holders : due[k][a] = IF airdrop[k] = None THEN 0 ELSE Owed(airdrop[k], a)

PromiseInv == DueTyped /\ \A k \in AirdropKeys : Kept(k)

LEMMA PromiseInvIs == PromiseInv => EachPromisePaidOnce
BY DEF PromiseInv, Kept, EachPromisePaidOnce

\* A step changes the list and what is due of one key.
LEMMA OneKeyKept ==
    ASSUME LedgerInv, PromiseInv, NEW k \in AirdropKeys, NEW list \in OpenLists, NEW row,
           row \in [Holders -> Int], \A a \in Holders : row[a] = Owed(list, a),
           airdrop' = [airdrop EXCEPT ![k] = list], due' = [due EXCEPT ![k] = row]
    PROVE  PromiseInv'
<1>1. DOMAIN airdrop = AirdropKeys /\ due \in [AirdropKeys -> [Holders -> Int]]
  BY DEF LedgerInv, AirdropsTyped, PromiseInv, DueTyped
<1>a. list # None
  BY AirdropAssumption DEF OpenLists
<1>2. DueTyped'
  BY <1>1 DEF DueTyped
<1>3. ASSUME NEW j \in AirdropKeys PROVE Kept(j)'
  <2>1. CASE j = k
    BY <1>1, <1>a, <2>1 DEF Kept
  <2>2. CASE j # k
    <3>1. airdrop'[j] = airdrop[j] /\ due'[j] = due[j]
      BY <1>1, <2>2
    <3> QED BY <3>1 DEF PromiseInv, Kept
  <2> QED BY <2>1, <2>2
<1> QED BY <1>2, <1>3 DEF PromiseInv

LEMMA CreateKeepsPromises ==
    ASSUME LedgerInv, PromiseInv, NEW sender \in Users, NEW id \in TokenIds,
           NEW provider \in Users, NEW list \in RecipientLists,
           AirdropCreate(sender, id, provider, list)
    PROVE  PromiseInv'
<1>1. PICK k \in AirdropKeys : k = <<id, provider>>
  BY LedgerAssumption DEF AirdropKeys
<1>2. PICK stored : stored =
          [i \in DOMAIN list |-> [address |-> list[i].address, amount |-> list[i].amountDelta]]
  OBVIOUS
<1>3. airdrop[k] = None /\ airdrop' = [airdrop EXCEPT ![k] = stored]
  BY <1>1, <1>2 DEF AirdropCreate, RegisterAirdrop, AirdropExists
<1>4. \A a \in Holders : Change(list, a) \in Int
  BY ChangeSteps, EditFacts
<1>5. PICK row : row = [a \in Holders |-> due[k][a] + Change(list, a)]
  OBVIOUS
<1>6. due' = [due EXCEPT ![k] = row]
  BY <1>1, <1>5 DEF AirdropCreate
<1>7. due[k] \in [Holders -> Int] /\ \A a \in Holders : due[k][a] = 0
  BY <1>3 DEF PromiseInv, DueTyped, Kept
<1>8. ASSUME NEW a \in Holders PROVE Owed(stored, a) = Change(list, a)
  <2>1. EntriesOf(stored, a) = EntriesOf(list, a)
    BY <1>2 DEF EntriesOf
  <2>2. IsFiniteSet(EntriesOf(list, a))
    <3>1. IsFiniteSet(DOMAIN list)
      BY EditFacts, FS_Interval
    <3> QED BY <3>1, FS_Subset DEF EntriesOf
  <2>3. \A i \in EntriesOf(list, a) : Amounts(stored)[i] = Deltas(list)[i]
    BY <1>2 DEF EntriesOf, Amounts, Deltas
  <2> QED BY <2>1, <2>2, <2>3, SumCongruence DEF Owed, Change
<1>9. row \in [Holders -> Int] /\ \A a \in Holders : row[a] = Owed(stored, a)
  BY <1>4, <1>5, <1>7, <1>8
<1>10. stored \in OpenLists
  <2> DEFINE R == [address : Holders, amount : Int]
  <2>1. /\ DOMAIN list = 1 .. Len(list) /\ Len(list) \in Nat
        /\ \A i \in DOMAIN list : list[i] \in [address : Holders, amountDelta : Int]
    BY EditFacts
  <2>2. \A i \in DOMAIN list : [address |-> list[i].address, amount |-> list[i].amountDelta] \in R
    BY <2>1
  <2>3. stored \in Seq(R)
    <3> HIDE DEF R
    <3> QED BY <1>2, <2>1, <2>2
  <2> QED BY <2>3 DEF OpenLists
<1> QED BY <1>3, <1>6, <1>9, <1>10, OneKeyKept

LEMMA EditKeepsPromises ==
    ASSUME LedgerInv, PromiseInv, NEW sender \in Users, NEW id \in TokenIds,
           NEW edits \in RecipientEdits, EditRecipients(sender, id, edits)
    PROVE  PromiseInv'
<1>1. PICK k \in AirdropKeys : k = <<id, sender>>
  BY LedgerAssumption DEF AirdropKeys
<1>2. airdrop[k] # None
  BY <1>1 DEF EditRecipients, AirdropExists
<1>3. PICK list \in OpenLists : list = airdrop[k]
  BY <1>2, OpenAndStored DEF LedgerInv, AirdropsTyped
<1>4. PICK after : after = AfterEdits(list, edits, Len(edits))
  OBVIOUS
<1>5. after \in OpenLists
  <2>1. edits \in EditLists /\ Len(edits) \in 0 .. Len(edits)
    BY EditFacts
  <2> QED BY <1>4, <2>1, AfterEditsTyped
<1>6. PICK row : row = [a \in Holders |-> due[k][a] + Change(edits, a)]
  OBVIOUS
<1>7. airdrop' = [airdrop EXCEPT ![k] = after] /\ due' = [due EXCEPT ![k] = row]
  BY <1>1, <1>3, <1>4, <1>6 DEF EditRecipients
<1>8. due[k] \in [Holders -> Int] /\ \A a \in Holders : due[k][a] = Owed(list, a)
  BY <1>2, <1>3 DEF PromiseInv, DueTyped, Kept
<1>9. \A a \in Holders : Change(edits, a) \in Int /\ Owed(after, a) = Owed(list, a) + Change(edits, a)
  BY <1>4, AllEditsOwe, ChangeSteps, EditFacts
<1>10. row \in [Holders -> Int] /\ \A a \in Holders : row[a] = Owed(after, a)
  BY <1>6, <1>8, <1>9
<1> QED BY <1>5, <1>7, <1>10, OneKeyKept

LEMMA DistributeKeepsPromises ==
    ASSUME LedgerInv, PromiseInv, NEW sender \in Users, NEW id \in TokenIds, Distribute(sender, id)
    PROVE  PromiseInv'
<1>1. PICK k \in AirdropKeys : k = <<id, sender>>
  BY LedgerAssumption DEF AirdropKeys
<1>2. PICK list : list = airdrop[k] /\ list # None
  BY <1>1 DEF Distribute, AirdropExists
<1>3. PICK row : row = [a \in Holders |-> due[k][a] - Owed(list, a)]
  OBVIOUS
<1>4. airdrop' = [airdrop EXCEPT ![k] = <<>>] /\ due' = [due EXCEPT ![k] = row]
  BY <1>1, <1>2, <1>3 DEF Distribute, PaidRecipients
<1>5. due[k] \in [Holders -> Int] /\ \A a \in Holders : due[k][a] = Owed(list, a)
  BY <1>2 DEF PromiseInv, DueTyped, Kept
<1>6. \A a \in Holders : Owed(<<>>, a) = 0
  <2>1. \A a \in Holders : EntriesOf(<<>>, a) = {}
    BY DEF EntriesOf
  <2> QED BY <2>1, SumEmpty DEF Owed
<1>7. row \in [Holders -> Int] /\ \A a \in Holders : row[a] = Owed(<<>>, a)
  BY <1>3, <1>5, <1>6
<1>8. <<>> \in OpenLists
  BY DEF OpenLists
<1> QED BY <1>4, <1>7, <1>8, OneKeyKept

LEMMA PromiseInvNext == LedgerInv /\ PromiseInv /\ [Next]_vars => PromiseInv'
<1> SUFFICES ASSUME LedgerInv, PromiseInv, [Next]_vars PROVE PromiseInv'
  OBVIOUS
<1>1. CASE Distribution
  BY <1>1, CreateKeepsPromises, EditKeepsPromises, DistributeKeepsPromises
     DEF Distribution, AirdropCommand, AirdropCreateCommand, AirdropEditRecipientsCommand,
         AirdropDistributeCommand
<1>2. CASE Transfer \/ Stake \/ Factory \/ Sale \/ NextBlock \/ Horizon \/ UNCHANGED vars
  <2>1. UNCHANGED airdropVars
    BY <1>2 DEF Transfer, Stake, Factory, Sale, NextBlock, Horizon, vars
  <2> QED BY <2>1 DEF airdropVars, PromiseInv, DueTyped, Kept
<1> QED BY <1>1, <1>2 DEF Next

\* Every promise of an airdrop is paid once: creating, editing (where an entry that comes to
\* zero leaves the list and the later ones move up) and distributing keep the list equal to
\* what was promised to each recipient less what was paid.
THEOREM PromisesPaidOnce == Spec => []EachPromisePaidOnce
<1>1. Init => PromiseInv
  BY DEF Init, AirdropInit, PromiseInv, DueTyped, Kept
<1> QED BY <1>1, PromiseInvNext, PromiseInvIs, LedgerInvariant, PTL DEF Spec
================================================================================
