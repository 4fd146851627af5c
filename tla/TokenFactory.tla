---------------------------- MODULE TokenFactory ----------------------------
(***************************************************************************)
(* token_factory: tokens that accounts create and own, and the vesting of  *)
(* what they mint. A minted amount that vests is locked and written to the *)
(* unlock schedule of a height; the hook before the transactions of that   *)
(* block unlocks it.                                                       *)
(***************************************************************************)
EXTENDS TokenLedger, SequencesExt

CONSTANTS
    None,            \* no owner
    MaxTokenId,      \* stands for 4294967295
    FirstTokenId,    \* the default of the nextTokenId store
    SkippedTokenIDs, \* config.skippedTokenID
    StartHeight,
    MaxHeight,       \* the bound of the model
    LastVesting,     \* the last height at which something vests
    Distributions,   \* what creators and owners ask to mint
    BurnAmounts,
    AttributesArrays, \* what tokens are created with, sequences of records [key, attributes]
    Attributes       \* what owners attach to a token later, such records

ASSUME FactoryAssumption ==
    /\ None \notin Holders
    /\ FirstTokenId \in Nat /\ MaxTokenId \in Nat
    /\ TokenIds = 0 .. MaxTokenId
    /\ SkippedTokenIDs \subseteq TokenIds
    /\ StartHeight \in Nat /\ MaxHeight \in Nat /\ LastVesting \in Nat
    /\ MaxHeight <= LastVesting
    /\ BurnAmounts \subseteq Nat
    /\ Distributions \subseteq
          Seq([recipientAddress : Holders, amount : Nat,
               vesting : Seq([height : 0 .. LastVesting, amount : Nat])])

VARIABLES
    height,         \* the height of the block in execution
    nextTokenId,    \* NextAvailableTokenIdStore
    owner,          \* FactoryStore: the owner of the factory of a token, or None
    attributesArray, \* FactoryStore: the attributes of the token
    toBeUnlocked,   \* VestingUnlockStore: per height, token and holder
    vestingLocked   \* locked by the vesting part of the module, per token and holder

factoryVars == <<height, nextTokenId, owner, attributesArray, toBeUnlocked, vestingLocked>>

Heights == 0 .. LastVesting
Nothing == [id \in TokenIds |-> [a \in Holders |-> 0]]

FactoryInit ==
    /\ height = StartHeight
    /\ nextTokenId = FirstTokenId
    /\ owner = [id \in TokenIds |-> None]
    /\ attributesArray = [id \in TokenIds |-> <<>>]
    /\ toBeUnlocked = [h \in Heights |-> Nothing]
    /\ vestingLocked = Nothing

-------------------------------------------------------------------------------
(* Minting *)

Amounts(list) == [i \in DOMAIN list |-> list[i].amount]

\* Factory._verifyHandleMintDistribution
VerifyDistribution(dist) ==
    \A i \in DOMAIN dist : LET vesting == dist[i].vesting IN
        vesting # <<>> =>
            /\ \A j \in DOMAIN vesting : vesting[j].amount > 0
            /\ SumFunctionOnSet(Amounts(vesting), DOMAIN vesting) = dist[i].amount

Shares(dist, a) == {i \in DOMAIN dist : dist[i].recipientAddress = a}

\* What dist mints to a.
Minted(dist, a) == SumFunctionOnSet(Amounts(dist), Shares(dist, a))

\* Mutant: what vests at the height of this very block is locked.
VestsFromNow(h) == h >= height
\* Only what vests after this block is locked.
VestsLater(h) == h > height

\* What an entry of a distribution unlocks at height h.
UnlockedAt(vesting, h) ==
    SumFunctionOnSet(Amounts(vesting), {j \in DOMAIN vesting : vesting[j].height = h})

\* What dist adds to the schedule of height h for a: the entries of one recipient
\* and one height are merged, in the distribution and in the store.
VestedAt(dist, a, h) ==
    IF ~VestsLater(h) THEN 0
    ELSE SumFunctionOnSet([i \in DOMAIN dist |-> UnlockedAt(dist[i].vesting, h)],
                          Shares(dist, a))

Vested(dist, a) == SumFunctionOnSet([h \in Heights |-> VestedAt(dist, a, h)], Heights)

\* Factory._handleMintDistribution, with Factory._lock
HandleMintDistribution(id, dist) ==
    LET total == SumFunctionOnSet(Amounts(dist), DOMAIN dist)
        left == [a \in Holders |-> available[id][a] + Minted(dist, a) - Vested(dist, a)]
    IN  /\ supply[id] + total <= MaxSupply
        /\ \A a \in Holders : left[a] >= 0
        /\ supply' = [supply EXCEPT ![id] = @ + total]
        /\ available' = [available EXCEPT ![id] = left]
        /\ vestingLocked' = [vestingLocked EXCEPT ![id] =
                                [a \in Holders |-> @[a] + Vested(dist, a)]]
        /\ toBeUnlocked' = [h \in Heights |-> [toBeUnlocked[h] EXCEPT ![id] =
                                [a \in Holders |-> @[a] + VestedAt(dist, a, h)]]]

-------------------------------------------------------------------------------
(* Operations *)

\* FactoryStore.getMutableFactory and getImmutableFactory throw where nothing is stored.
FactoryExists(id) == owner[id] # None

\* Factory._checkIsFactoryOwner
IsFactoryOwner(sender, id) == owner[id] = sender

\* Mutant: the configuration is not asked.
IsAnyNextTokenId(id) == id = nextTokenId
\* Factory.getNextAvailableTokenId: the first id from nextTokenId on that the
\* configuration does not skip.
IsNextTokenId(id) ==
    /\ id >= nextTokenId /\ id \notin SkippedTokenIDs
    /\ \A j \in nextTokenId .. id - 1 : j \in SkippedTokenIDs

\* Factory._checkNextTokenIdAtMaxCapacity
NextTokenIdAtMaxCapacity == ~\E id \in TokenIds : IsNextTokenId(id)

\* Mutant: a token that exists is taken over.
IsTakenTokenId(id) == IsNextTokenId(id)
\* The id of the token that is created: the first one from there on that the token
\* module does not know. The configuration is not asked a second time.
IsCreatedTokenId(id) ==
    /\ IsTokenIDAvailable(id)
    /\ \E first \in TokenIds :
          /\ IsNextTokenId(first) /\ first <= id
          /\ \A j \in first .. id - 1 : ~IsTokenIDAvailable(j)

\* Factory._registerFactory
RegisterFactory(sender, id, array) ==
    /\ ~FactoryExists(id)
    /\ owner' = [owner EXCEPT ![id] = sender]
    /\ attributesArray' = [attributesArray EXCEPT ![id] = array]

\* Factory.create. Where no id is left up to MaxTokenId, the writing of it throws.
Create(sender, dist, array) ==
    \E id \in TokenIds :
        /\ VerifyDistribution(dist)
        /\ ~NextTokenIdAtMaxCapacity
        /\ IsCreatedTokenId(id)
        /\ initialized' = initialized \cup {id}
        /\ HandleMintDistribution(id, dist)
        /\ RegisterFactory(sender, id, array)
        /\ nextTokenId' = id + 1
        /\ UNCHANGED height

\* Factory.mint
Mint(sender, id, dist) ==
    /\ VerifyDistribution(dist)
    /\ IsFactoryOwner(sender, id)
    /\ HandleMintDistribution(id, dist)
    /\ UNCHANGED <<initialized, height, nextTokenId, owner, attributesArray>>

\* Factory.verifyBurn
CanBurn(sender, id, n) == available[id][sender] >= n

\* Factory.burn
Burn(sender, id, n) ==
    /\ IsFactoryOwner(sender, id)
    /\ CanBurn(sender, id, n)
    /\ available' = [available EXCEPT ![id][sender] = @ - n]
    /\ supply' = [supply EXCEPT ![id] = @ - n]
    /\ UNCHANGED <<initialized, factoryVars>>

\* Factory.transferOwnership
TransferOwnership(sender, id, ownerAddress) ==
    /\ IsFactoryOwner(sender, id)
    /\ owner' = [owner EXCEPT ![id] = ownerAddress]
    /\ UNCHANGED <<ledgerVars, height, nextTokenId, attributesArray, toBeUnlocked, vestingLocked>>

\* Factory._setAttributes: in the place of the first with the key, or at the end.
WithAttributes(array, new) ==
    LET i == SelectInSeq(array, LAMBDA attr : attr.key = new.key)
    IN  IF i > 0 THEN [array EXCEPT ![i] = new] ELSE Append(array, new)

\* Factory.setAttributes
SetAttributes(sender, id, new) ==
    /\ IsFactoryOwner(sender, id)
    /\ attributesArray' = [attributesArray EXCEPT ![id] = WithAttributes(@, new)]
    /\ UNCHANGED <<ledgerVars, height, nextTokenId, owner, toBeUnlocked, vestingLocked>>

-------------------------------------------------------------------------------
(* The next block: executeVestingUnlock *)

\* VestingUnlock.unlock. TokenMethod.unlock throws when less is locked, and then
\* no further block can be produced.
VestingUnlock(h) ==
    LET due == toBeUnlocked[h]
    IN  /\ \A id \in TokenIds, a \in Holders : vestingLocked[id][a] >= due[id][a]
        /\ available' = [id \in TokenIds |-> [a \in Holders |-> available[id][a] + due[id][a]]]
        /\ vestingLocked' = [id \in TokenIds |->
                                [a \in Holders |-> vestingLocked[id][a] - due[id][a]]]
        /\ toBeUnlocked' = [toBeUnlocked EXCEPT ![h] = Nothing]

BeforeTransactionsExecute ==
    /\ height < MaxHeight
    /\ height' = height + 1
    /\ VestingUnlock(height + 1)
    /\ UNCHANGED <<initialized, supply, nextTokenId, owner, attributesArray>>

-------------------------------------------------------------------------------
(* Commands: a command is executed where its verification holds *)

TokenCreateCommand ==
    \E sender \in Users, dist \in Distributions, array \in AttributesArrays :
        Create(sender, dist, array)

TokenMintCommand ==
    \E sender \in Users, id \in TokenIds, dist \in Distributions :
        FactoryExists(id) /\ Mint(sender, id, dist)

TokenBurnCommand ==
    \E sender \in Users, id \in TokenIds, n \in BurnAmounts :
        FactoryExists(id) /\ Burn(sender, id, n)

FactoryTransferOwnershipCommand ==
    \E sender \in Users, id \in TokenIds, to \in Users :
        FactoryExists(id) /\ TransferOwnership(sender, id, to)

FactorySetAttributesCommand ==
    \E sender \in Users, id \in TokenIds, new \in Attributes :
        FactoryExists(id) /\ SetAttributes(sender, id, new)

FactoryCommand ==
    \/ TokenCreateCommand
    \/ TokenMintCommand
    \/ TokenBurnCommand
    \/ FactoryTransferOwnershipCommand
    \/ FactorySetAttributesCommand
===============================================================================
