# Swaptoshi core in TLA+

Specifications of the on-chain modules of swaptoshi-core (`src/app/modules`),
the TLC instances that check them, and theorems checked with TLAPS. Paths below
are relative to the root of the repository.

## The system

Swaptoshi is a blockchain application on klayr-sdk. Everything that follows is
a deterministic state machine: a block carries transactions, each of which runs
one command between hooks (`verifyTransaction`, `beforeCommandExecute`,
`afterCommandExecute`), and block hooks run before and after them. There are no
threads and no messages between accounts. What is hard is the *sequence*: commands of
many accounts in any order leave cached sums, queues and positions behind that later
commands and later heights must take apart again, in integer arithmetic, and without a
rollback once a block hook has begun. Callbacks nest (a pool is paid by the swap of the
pool before it), and a node keeps something in memory that the state of the chain does
not (the handlers of fee conversion), past restarts and reverted blocks.

| component | state it keeps | operations | what makes it correct |
|---|---|---|---|
| governance, proposals and queue (`governance/stores/instances/proposal.ts`, `queue.ts`) | proposals, next id, queue per height, voter lists, deposits locked in the token module | create, vote, set attributes; at the end of a block: start, quorum check, end, execution of the actions | each proposal goes through its planned heights once; a deposit is returned or forfeited exactly once; an accepted proposal had the majority; funding before configuration |
| governance, votes (`delegated_vote.ts`, `boosted_account.ts`, `internal_method.ts`) | casted votes, vote score, delegations in both directions, boosts | vote, delegate, revoke, boost, stake hook | the cached turnout and vote summary of a proposal are what the scores, votes, delegations and boosts of this moment say; delegations form no cycle |
| governance, configuration (`base_governable_config.ts`, `config.ts`, `registry.ts`) | one configuration per module, on chain | initialise, set by path with verification | only valid configurations are stored; nodes agree; what a configuration switches is switched on every node |
| governance, treasury reward (`internal_method.ts`) | none of its own | mint and tax per block from a bracket | treasury and generator share one reward |
| liquid_pos (`liquid_pos/internal_method.ts`) | none of its own (the LST supply) | mint and burn after a stake command, whatever came of it | nobody else owns its token; the supply has room for it |
| token_factory, factory and vesting (`token_factory/stores/instances/factory.ts`, `vesting_unlock.ts`) | factories with their attributes, next token id, unlock schedule per height | create, mint with vesting, burn, transfer ownership, set attributes, unlock | ids are fresh; what is locked is unlocked once, at its height |
| token_factory, airdrop (`airdrop.ts`) | recipients per token and provider | create, edit recipients, distribute | each promise is paid once |
| token_factory, ICO (`ico_pool.ts`, `ico_router.ts`, `ico_quoter.ts`) | price per pool, pool balances | create, change price, deposit, withdraw, treasurify, four swaps, swap by transfer | a pool sells at its price, but for the rounding of quotes; a purchase with a path leaves nothing in between |
| fee_conversion (`internal_method.ts`) | none on chain; handlers in memory | verify, execute | the fee is there when the command runs, and the token for the command still is |
| dex (`dex/stores/factory`, `dex/stores/library`) | pools, ticks, tick bitmap, observations, positions, NFT attributes | mint, burn, collect, flash, swap, initialise, grow observations, observe, routes, quotes, treasurify, swap by transfer | liquidity of a pool is that of the positions in range; ticks, bitmap and positions agree; what is owed is backed; an observation is what happened; a quote comes true |

The modules meet in four places: the balances of the token module; the hooks around
commands (liquid_pos and governance both follow the PoS stake command, fee_conversion
runs before a command, a transfer to a pool becomes a swap after it); the dex as a way
for fee_conversion and the ICO router to buy what they need; and the governable
configuration, by which an executed proposal changes the parameters of every module.
`src/app/modules.ts` fixes the order of the hooks.

## What is modelled

Six specifications, each with an instance: governance; the token modules over one
ledger; a pool with its position manager; the oracle of a pool; transactions with
routes, purchases and fee conversion; and nodes that share a chain of configurations.

| module | what it is |
|---|---|
| `VoteWeight` | arithmetic of votes: boost multiplier, amounts or percentages, participants, turnout bias |
| `Governance` | proposals, votes, delegation, boosting, the stake hook, the queue, deposits and balances |
| `ProposalLifecycle` | the abstract promise: one path of statuses, each step at its planned height, none left behind |
| `TreasuryReward` | brackets, mint and tax of a block |
| `GovernableConfig` | configurations as functions on the paths of their leaves: defaults, `verify`, set by path, the handlers that follow |
| `ConfiguredNodes` | nodes that forge, execute, revert and restart on a chain whose blocks change configurations |
| `TokenLedger` | the token module of the SDK as the others use it: tokens that exist, supply, available balances, transfers |
| `TokenFactory` | token ids, creation, minting with vesting, burning, ownership, attributes, the unlock hook |
| `Airdrop`, `Ico`, `LiquidPos` | airdrops; ICO pools with direct swaps (`IcoQuoter`: the price); liquid staking tokens |
| `TokenModules` | the composition of these over one ledger, and the properties |
| `PoolMath`, `BigIntBase` | the arithmetic of a pool, each rounding that of the code; integers that wrap |
| `BitMath`, `TickBitmap`, `PoolTicksCounter` | search of a word by halves; the bitmap of ticks; the count of crossed ticks |
| `Pool` | a dex pool: ticks, bitmap, positions, fee growth, flash, and the swap as a loop |
| `PositionManager` | the position manager and its NFTs over a pool, what an NFT is worth, and the properties |
| `PriceLog` | the abstract promise of the oracle: a log of every second that is never cut |
| `Oracle`, `OracleLibrary` | the ring of observations; the readers made of it |
| `PoolOracle` | the oracle in the life of a pool, with the binary search as a loop, and the properties |
| `Path`, `SwapRouter` | routes over pools with nested callbacks, and their quotes |
| `IcoRouter` | purchases at an ICO by way of the dex |
| `FeeConversion` | a transaction on its way through all hooks: conversion, fees, command, swap by transfer |
| `MC*` + `*.cfg` | instances for TLC |
| `GovernanceProofs`, `QuoterProofs`, `TokenProofs`, `ConfigProofs`, `PoolProofs`, `RouteProofs` | theorems |
| `StepProofs` | the arithmetic of one step of a swap, for a pool and for a hop of a route |
| `SumProofs` | the equations of `SumFunctionOnSet` that those about sums rest on |

### Governance: state and code

A variable is a store of the code or a balance of the SDK's token module:
`casted`, `voters`, `score`, `outgoing`/`incoming`, `boost`, `queue`, `nextId`
are the stores of the same meaning in `governance/stores`; a proposal is split
into `status`, `schedule` (its planned heights), `tally` (turnout and
voteSummary) and `proposals` (the other fields, of which only the attributes change).
`available`, `locked` and `staked` are the balance of an account, the amount locked by
governance and the amount locked by PoS.

A transaction is one action: each command contains its `verify` as a guard and
everything its `execute` changes. `EndTransactions` is the block hook up to the loading
of the queue (`addTreasuryReward`, `executeQueuedProposal`). The queue is then executed
one entry a step (`ExecuteStarted`, `PassQuorum`, `FailQuorum`, `ExecuteEnded`,
`SkipEntry` for the early returns) and, within an entry that executes a proposal, one
action a step (`BeginOutcome`, `ExecuteFunding`, `ExecuteConfig`, `FailAction`,
`FinishOutcome`), because an action that throws leaves the earlier ones in force.
`NextBlock` produces the next block. Token `unlock` throws when less is locked: here it
is a guard, so a deposit released twice would be a deadlock, which every run looks for.
The deposit is stored as a `uint64`, so a configured deposit that is no natural number
makes a creation throw; `_verifyConfig` does not check it, and the guard of the creation
is where it bites.

Where the code walks a store entry by entry the model states the result:

* `updateProposalVoteSummaryByVoter` follows outgoing delegations to their end
  (`Root`) and then changes every proposal the account there votes on
  (`ShiftVote`); only ACTIVE proposals are changed, as in `addVote` and
  `subtractVote`. Recursions are recursive functions.
* `_checkForCycles` searches the delegators of the sender, theirs and so on for
  the delegatee: `Downstream` is the least set closed under `incoming`. The
  code recurses on a finite store that has no cycle (theorem `NoCycle`), so the
  search ends.
* Lists of addresses that are searched and never ordered are sets.

Abstractions, and why they lose nothing the properties tell apart:

* `decimal.js` and `bignumber.js` work with about 20 significant digits; here a
  fraction of votes is exact and rounded once, half up, as `toFixed(0)` does (the
  quotes of an ICO keep their digits, see below). The square
  roots of the turnout bias are cleared by squaring (counts are not negative).
* A configuration is a record of the fields that governance reads; the treasury
  address does not change. The full configurations are in `GovernableConfig`.
* The unlocking period of PoS is left out: unstaked tokens are free at once.
  Governance never looks at them in between.
* The execution of a command that fails changes nothing (the SDK restores the state),
  so only the successful ones are actions, with one exception: `afterCommandExecute`
  runs after failed commands too, and the hooks of governance and liquid_pos go by the
  parameters of a stake command, not by its result. `FailedStake` is that case. The
  score of an account is thus what its stake commands asked for, and no more than that:
  `TurnoutIsVotedScore` says that votes follow the scores, the run `scores` that scores
  do not follow the stakes. Fees and events are left out.

### Configured nodes: state and code

A node has the file it was started with, the blocks it executed with the store each
left (`stores`), and its `handlers` in memory. `Start` is the verification of the file,
`Forge` and `Execute` run a block (a forger runs it twice, as `generateBlock` and
`executeBlock` do), `Revert` drops the last store and leaves the memory, `Restart`
empties the memory. A block at height 1 initialises the configurations from the file
(`initializeGovernableConfig`); any block may execute one proposal (`RunActions`: a
fold over its actions that stops at the first that throws, with those before it in
force). What a block leaves is a set of one state,
in which TLC computes each intermediate state once. `steady` is history: a node
neither restarted above height 0 nor reverted.

A configuration is a function from paths to values. Leaves that no rule of the code is
about are left out, a table of fees is one leaf with paths for its commands, and paths
into the objects of an array (`feeAmountTickSpacing.0.fee`) are not modelled. The
dependencies of the modules are taken as `app/modules.ts` adds them, and the files of
all nodes are equal at genesis. `governGovernanceConfig` is true by default.

### Token modules: state and code

`initialized`, `supply` and `available` are the token module's. What a module
locks is a variable of that module's specification: `vestingLocked`, `icoLocked`
and, for PoS, `staked`. `owner` and `attributesArray` are the factory store,
`nextTokenId` the counter of `next_available_token_id.ts`, `toBeUnlocked` the vesting
schedule per height (amounts of one height, token and holder are added up, as their
unlocks are). `airdrop` holds the ordered list of recipients, since distribution and
edits walk it; `ico` the price and provider of a pool, `leftOver` the configured
address. Two variables are history and read by no action: `due`, what an airdrop
has promised and not paid, and `book`, what a pool has sold and earned at its
present price.

Each command is one action whose guard holds what its `verify` and its `execute`
demand, those of the token methods that throw included: the SDK undoes a
transaction that throws. The block hook has no such protection: `NextBlock`
unlocks what is due without asking whether so much is locked, and
`VestedMatchesSchedule` is what makes that harmless. A transfer to the address
of an ICO pool is a swap (`executeSwapByTransfer`), so the plain `Transfer`
leaves out those addresses. The hook does not ask whether the transfer succeeded, so in
`SwapByTransfer` either the sender pays or, after a transfer that failed, the pool itself.
`FailedStakeCommand` is the stake command that PoS refuses and whose hook mints or burns
all the same; `due` and the schedule of vesting do not depend on it, and no text says
what the liquid tokens stand for, so nothing is claimed of their backing.

A price is a fraction. An amount on its way into a quote is `Number(amount)`, then a
decimal: `AsNumber` is any table of what amounts are read as that never falls, is exact
up to `Exact` (2^53) and else two parts in `Exact` off at most. A result of decimal.js
has 20 digits: `Scales` says how many are left behind the point, and both roundings,
that of the division and `toFixed(0)`, are half up (`Rounded`). `PoolSellsAtPrice` adds
up what that allows: 11/20 of a token a swap (half of one by `toFixed`, and at most a
tenth of that by the digits before it), and the two parts in 2^53 of the amounts no
Number holds.
The pair of tokens stands for the address of an ICO pool. Purchases with a path through
the dex are in `IcoRouter`, which `FeeConversion` composes with the pools.

### A pool of the dex: state and code

`slot0`, `liquidity`, `feeGrowth`, `ticks`, `bitmap`, `positions` are the stores of a
pool; `balance` is what the token module has at its address. `swap` holds the local
variables of the swap in progress, and one iteration of its loop is one action
(`SwapStep`), so that the invariants speak of what each iteration meets, not only of
what a swap leaves. The transaction is atomic: while `swap` is not `None`, only the
swap goes on. It ends with `SwapEnd`, or with `SwapRevert`, which restores the ticks;
a revert is possible after any iteration, for the limits on amounts and the deadlines
that a sender gives are not in this module. `flash` lends and is paid
back in one action: it keeps the pool it read over its callback, without the lock of
the reentrancy guard, which is why nothing else may be nested in it here.

`positions` are by the key of the code (`PositionKey`): the two ticks in decimal, one
after the other; their owner is always the position manager. `nfts` are the attributes
and owners of the NFTs, `nextIndex` the index of the nft module. Each command of the
manager is one action with the call to the pool inside it, the payment by the callback
included. `unpaid` and `commands` are history. `TotalOf` is what `total`
of the manager reports, with formulas of its own, and `CountInitializedTicksCrossed`
what the quoter reports of a swap; `WorthIsWhatIsPaid` and `CrossingsAreCounted`
compare both with what happens.

Words of the bitmap have `WordSize` bits, at most 16, in the place of 256. Words are
numbers; flipping adds or subtracts the bit, masks are remainders, and the highest and
the lowest bit are found by four halvings, `Upper` and `Lower`, in the place of eight.

The 96 and 128 fraction bits of prices and fee growth are small numbers (`Q96`,
`Q128`), products wrap at `Q128` or its square where the code's types do, and
`SqrtRatio` is a table. What is kept is the rounding of every single division, its
direction and its place, since that is what solvency depends on. Wallets outside of the
pool can pay whatever is asked.

### The oracle: state and code

`ring` is the `observations` store with the index, the cardinality and the next
cardinality of `slot0`. Timestamps wrap at `TimeUnit` for 2^32. `SwapTo`,
`MintLiquidity` and `BurnLiquidity` do what `DEXPool` does to the oracle and to the
sums outside of the ends of one range. `observe` is a call with a loop: `Observe` starts
it and answers at once where the code does, `SearchStep` is an iteration of
`binarySearch`. `log`, `marks`, `answer` and `minted` are history. The refinement
mapping reads `kept` of `PriceLog` from the initialised entries of the ring.

Liquidities divide `OneX128`, so that sums are exact, and time stays below a whole turn
of the timestamps from the oldest observation. The product of an interpolation wraps at
2^160 (`SecondsRange`) in the code, before it is divided. `PriceLog` excepts that case and
no other (`Overflows`): the seconds per liquidity between two observations may then be
anything, the tick is still exact. The instance reaches it, with a gap of four seconds
without liquidity; in the code it takes one of 2^16 seconds.

### Routes and transactions: state and code

A pool in `SwapRouter` has one position over all prices, so that a swap is one
iteration of the loop that `Pool` has. `call` is the route in progress with a stack of
frames, one for each nested callback of an exact output. A frame holds the pool as the
outer `swap` has read it, which is what the code saves over at the end. `SwapIn`,
`SwapOut`, `PayOut`, `ReturnOut` are one swap up to its callback, one payment, one
return; `Finish` is what `swap_router.ts` checks at the end, `Revert` what a throw
undoes. `purchase` is the second leg of a purchase at an ICO.

`tx` is a transaction between its hooks; its `stage` says which hook is next: the plan
that `verifyTransaction` made, the conversion before the command, the fee of the fee
module (external), the base fees of `verifyBaseFee`, the command, the hooks after it. A
hook that throws makes the transaction invalid and leaves nothing; a command that throws
leaves its fee and what the hooks before it did. `Meanwhile` donates, treasurifies and
configures a treasury. Deadlines are left out; the state machine and the fee module of
the framework are external; `icoDexPathEnabled` is taken as set.

### Bounds

`MaxProposals` and `MaxHeight` bound governance (a proposal is created only if its
execution height is within `MaxHeight`, so that its whole life is seen). At
`MaxHeight` the action `Horizon` stutters; any other stop is reported as a
deadlock. Two proposals suffice for overlapping queues; three accounts for a delegatee
with two delegators. Schedules take 2 to 4 blocks, with equal heights (start in the
block of the creation, quorum and end in one block) and distinct ones. `ScoreBounds` bounds
what stake commands, which may fail any number of times, make of a score: 0 and 1, and in
`scores` also -1. The `delegation`
run has direct and self delegation with boosts of whole multiples of a score: with
fractions the sum of parts may differ from the whole by rounding. Longer cycles are the
matter of theorem `NoCycle`.

In `TokenModules`, `MaxHeight` bounds the blocks (vesting heights before, at and
after it are in the distributions), `MaxSupply` stands for the limit of a supply
and is small enough to be met, `TokenIds` runs out in the `vesting` run, and
`MaxSwaps` bounds the swaps at one price. Transfers and burns are of one token.
In `sale` amounts have two digits, of which a Number holds 1, 2 and the even ones, and
decimals keep two digits too; the pool has nothing there to pay with after a transfer that
failed, a case that the theorem covers.
A distribution that gives one holder two amounts for one height, a list that has one
recipient twice and one with the provider on it are among the inputs.

For the pool, `MaxCommands` bounds the commands after the creation of the pool and
`MaxSwaps` the swaps among them; `MaxNfts` is two, so that two NFTs share a range
or have overlapping ones. Three ranges, `[-2, 2)`, `[-2, 0)` and `[0, 2)`, give a tick
at which one begins and one ends, and the price at the boundary; swaps go both
ways, by exact input and exact output, with and without a limit, paid by callback
or by transfer, and are large enough to leave all liquidity behind and to run to the
last tick over words that are empty. The fee is a quarter and the protocol takes a
quarter of that on one token, so that both cases of every division occur. `Q128` is
small enough for roundings to matter and large enough for no sum that the code's types
hold to overflow. In `position_keys` ranges lie around `-1`, `10` and `-11`, `0`.

The oracle starts just before the timestamps wrap, grows to 3 and 4 observations and
wraps its ring. Routes: `MaxTransactions` and `MaxEvents` are two each, over a triangle
of pools with two fees, two ICOs, a donation, a treasury configured on the way, and
routes that use a pool twice. Configurations: three heights, one block replaced, one
restart of one node, proposals that fail at once, half way and not at all.

## The runs

| run | instance | what it shows |
|---|---|---|
| `lifecycle` | 2 accounts, 2 proposals, 6 blocks, funding and configuration actions, quorum by percentage, equal stakes so that votes can tie, a deposit pool that can be removed | deposits match pending proposals; votes end with their proposal; accepted means majority, for good; configuration only after all funding; refinement of `ProposalLifecycle`; every proposal settles |
| `delegation` | two accounts that may delegate to a third and it to itself, stake commands that succeed or fail, boosts around the end of the proposal | vote summary and turnout are exactly the boosted, or plain, scores of voters and delegators, each counted once; delegators hold no vote; the delegation store is symmetric and acyclic |
| `vesting` | 2 holders, 5 ids of which one is taken and one is the LST's, tokens that vest over 3 heights, stake commands that succeed or fail | the schedule is what is locked, so that the block hook never throws; nothing is left behind at a height that is over; ids are fresh; the LST has no owner |
| `sale` | one ICO pool, with and without a left-over address, two prices that do not divide, amounts that a Number holds and others; airdrops whose list has a recipient twice, who may be the provider, edited and paid in any order; a token of another kind at the pool | a pool sells at its price but for the rounding of each quote; every promise is paid once |
| `pool` | one pool, 3 overlapping ranges, 2 NFTs, 5 commands of which 3 are swaps, a flash loan | liquidity, ticks and bitmap are those of the positions, in every iteration of every swap; the pool can pay every claim at any time; NFTs share a position exactly; collects pay but for rounding; what is reported is what is paid; crossings are counted; every swap ends |
| `oracle` | one pool, one range, a ring of up to 4 observations, timestamps that wrap, a gap over which the interpolation overflows | an observation is what a complete log tells, but for that overflow (refinement of `PriceLog`); snapshots count the time in the range; library readers; every search ends |
| `routes` | a triangle of pools, two ICOs, swap commands, purchases, transfers, fees paid by conversion | quotes come true; routes and purchases settle or leave no trace; pools stay backed; a verified conversion pays the fee and leaves the token of the swap |
| `config` | 2 nodes, 3 heights, a replaced block, a restart, 3 proposals | stored configurations are valid; nodes agree; rewards are on schedule; handlers follow while a node is steady; steady nodes, those that neither restart nor revert, catch up |
| `chain`, `scores`, `position_keys`, `restart` | small | disagreements, below |

Fairness. `EveryProposalSettles` is checked under weak fairness of `BlockStep`, the end
of a block, a step of its queue or the next block: the hook runs every queue entry in a
loop without waiting, and a chain that produces no blocks has no state to speak of. No
command is fair. `EverySwapEnds` assumes weak fairness of the loop of the swap and what
comes after it, `EveryObserveAnswers` of an iteration of the search: loops within one
call. `EveryNodeCatchesUp` assumes that each node that can start, execute or revert
eventually does, and that generators have slots. `routes` has no liveness property: a
route has at most as many steps as its path has hops.

### Disagreements found

1. `chain`: the end of a chain a -> b -> c of delegations that casts its first
   vote counts a but not b (`delegated_vote.ts:149` descends into b instead of
   counting it); the revocation by b subtracts b too, and the `uint64` turnout
   becomes negative.
2. `position_keys`: the key of a position is its two ticks in decimal with nothing
   between them (`position.ts:13`), so the ranges (-1, 10) and (-11, 0) have one
   position. Liquidity and fee growth of both are mixed, and a collect pays one NFT
   less than it is promised. The theorems about the pool assume that it does not
   happen (`KeysDiffer`).
3. `restart`: handlers of fee conversion are registered by `afterSetConfig` only, so a
   node that starts again above height 1 has none and refuses what others accept; a
   block that is reverted leaves the handlers it changed.
4. `scores`: `updateVoteScoreAfterStake` (`governance/internal_method.ts:36`) runs after a
   stake command that failed, too, and moves score and tallies by what it asked for. A
   command that takes back more than was staked fails, and leaves a `uint64` score
   below zero; one that could not be paid adds votes with nothing staked.

Not checked by a run of its own, most of it because no text says otherwise, but worth
knowing.

Governance:

* A vote that ends with no more votes for it than against it, without turnout bias or
  with the bias satisfied, leaves the proposal ACTIVE for ever, and votes can still
  be cast on it (`queue.ts:166-182`). `Settled` counts it as an end, and
  `Pending` as no longer pending.
* A delegatee that votes on a second proposal adds its incoming scores to the first one
  again (`proposal.ts:255`); `TurnoutIsVotedScore` holds with one open proposal.
* `verifyBoostVote` compares a target height with a maximum duration
  (`boosted_account.ts:59`); above that height nobody can boost.
* Attributes of a proposal, or of a token, can be set by their owner at any time; the
  first entry with the key is updated, and duplicates in the list of a creation are not
  refused.

Configuration:

* `verify` accepts brackets above 100 %, a tick spacing of 0, a protocol fee that pools
  refuse (only 0 and 4 to 10 are valid) and colours whose upper end exceeds the maximum.
* Configurations that are not governed never call `afterSetConfig`.
* A forger runs the hooks twice, so the *order* of its handlers may differ from that of
  other nodes after a proposal that removes and adds; `executeHandlers` takes the first.
  `HandlersFollowWhileSteady` compares sets.

Tokens:

* liquid_pos mints and burns by the parameters of a stake command, also of one that
  failed (`liquid_pos/internal_method.ts:39`): its token does not stand for stake.
* The quotes of an ICO take amounts through `Number` (`ico_quoter.ts:51`, `62`), so
  above 2^53 they are of a neighbouring amount; no text says at which precision an ICO
  sells, and `PoolSellsAtPrice` says how much it may be.
* liquid_pos brings its token into being at the first stake. Until then its id is
  free for token_factory, and only `skippedTokenID` keeps it: that list is empty by
  default, and it is asked for the first candidate only (`factory.ts:230`): the loop over
  ids that are taken (`factory.ts:80`) may end at a skipped one. The instance and the
  theorems assume a reserved id (`LstIsReserved`), with which it does not.
* ICO tokens that are at the pool's address before its creation are locked when no
  left-over address is configured, and `treasurify` never releases them.
* A buyer of an ICO by a single swap can state no limit: a change of price in the same
  block counts. A price of zero is accepted; then only exact output swaps work, for
  nothing. The ICO's quote of an exact output with a path reads the wrong end of it.

Dex and its hooks:

* A pool that charges a protocol fee gives it away before the payment by callback
  arrives: without any of the input token it rejects the swap. While no treasury is
  configured the share is locked, and nothing releases it later.
* A collect takes the whole amount that was asked off the NFT, even when its position
  has one unit less by rounding; `CollectsArePaid` allows for one unit per command.
* An exact output that goes through one pool twice saves the outer swap's pool over the
  inner one's (`RoutesKeepPoolsBacked` leaves it out).
* Hooks after a command run whatever came of it, and `executeSwapByTransfer` does not ask
  whether the transfer succeeded: the pool swaps what it never got (`SwapsWhatWasSent`
  in the same property; `FeeConversion` and `Ico` have such swaps, the swaps by transfer
  of `Pool` are after one that succeeded). A swap by transfer has no minimum, and what it does not use at
  the last price stays in the pool.
* `verifyBaseFee` looks at the whole fee, `payFee` only has what the bytes leave.
  `collectTreasury` has no entry in `minTransactionFee` and `baseFee` of the default
  configuration (`dex/constants/config.ts:30-55`), so that `BigInt(undefined)` throws
  and every such transaction is refused.
* The cross-chain hooks wait for a command `transferCrossChain`; that of the token
  module has another name. They are not modelled.
* A conversion is quoted for an exact output before it happens, so a swap whose own pool
  it moves was quoted at older prices. A configured path that ends with the token itself,
  or the native token, can never be converted. One of more than one pool, which the
  configuration accepts (`fee_conversion/config.ts:29`), is read from the middle of its
  second pool (`fee_conversion/internal_method.ts:237`, `VerifyPath`) and never used: for
  two pools `computeAddress` throws and the transaction is refused, although it could pay.
* Between two observations further apart than 2^16 seconds without liquidity in range
  (more with some) the `Uint160` product of the interpolation wraps (`oracle.ts:212`) and
  `observe` answers wrong seconds per liquidity. `PriceLog` promises nothing there
  (`Overflows`), and the instance gets there.
* `consult` and the reader of a block's starting tick convert to 24 bits before they
  divide, which throws for long windows. `increaseObservationCardinalityNext`,
  `snapshotCumulativesInside`, `observe` and `flash` are reached by other modules only.
* The count of crossed ticks rounds toward zero where the bitmap rounds down: it may be
  one too many when an end lies between two ticks.
* The flag of supported tokens of the dex is not updated after a change of the
  configuration, and the first block without it reads a record that is not stored; this
  and the texts of NFT metadata are not modelled.

## The theorems

For every value of the constants under the assumptions of the modules, which are types
of the constants, finiteness where sums are taken (`Accounts`, `Holders`, `NftIds`, `Ranges`), and
that `None` is none of the values it stands beside. What a theorem needs beyond these
stands in its statement. The proofs are in six modules over `StepProofs` and
`SumProofs`. The library's induction theorems take an operator and cannot be
instantiated, so inductions are made with sets: `SumProofs` takes the least subset, or
number, that would be an exception. `SumUnfold`, `SumRemove` and `SumUpdate` say that a
sum over a finite set is that without an element plus the element, whatever order the
fold of the community modules picks; `UpTo` is what recursive functions on
`0 .. n` need.

**Governance.** `GraphInv` (types of both sides of the delegation store, symmetry, no
cycle) is needed as a whole: the check for cycles walks `incoming`, the absence of
cycles is about `outgoing`, and only symmetry ties them. If a new edge from a to b
closed a set of accounts under `outgoing`, its part outside the set that shows b not to
be downstream of a would be closed before. `NoCycle`, `SidesAgree`. `QueueInv` adds that
the queue names created proposals only, that ids from `nextId` on are unused, that
votes are on active proposals which list the voter, and that only accepted proposals
are executed. `VotesEndWithProposal`, `StructureTyped`; `DelegatorsAreSilent` and
`MajorityStands` follow with one induction each.

`LifeInv` says that the queue holds what lies ahead of every proposal, once, at its
planned height, and nothing of what lies behind it; `Ahead` follows from a rank of the
status. With it each step of the queue is a step of `ProposalLifecycle`
(`LifecycleImplemented`), and no height passes a planned step. `DepositInv` adds that
the amount locked for an account is the sum of the deposits of its pending proposals
(`DepositsBacked`); hence the unlock of the block hook never throws
(`UnlockNeverThrows`).

`AgendaInv` says that what is left of an accepted proposal's actions has its funding
before its configurations. The code filters twice and concatenates; `ActionsOfType` is a
recursive function, so what it keeps is an induction over the length of the list
(`ConfigFollowsFunding`).

**Counting votes.** `VoteTypes /\ AllCounted(K)` says, for a measure K of an account
(its vote score, or its boosted score), that the turnout or the summary of every pending
proposal is, per decision, the sum of K over its *ballots*: voters on it and those that delegate
to them. Each command moves an account from one set of ballots to another, or changes
its measure where it stands; the proof says for each which (`Moved`), and that the code
adds and subtracts that account's measure at the end of its delegation (`Root`). This
is true of the code only where

* no delegatee delegates on (`Direct`): on a longer chain the first vote and a later
  revocation do not count the same accounts (run `chain`);
* an account votes on one proposal at a time (`OneVote`), see `proposal.ts:255` above;
* for the summary, boosts add whole multiples (`WholeBoosts`), so that the rounded
  score is a sum of scores.

`TurnoutCounted` and `SummaryCounted` are stated under these; `DirectStays` and
`OneProposalOneVote` derive the first two from the constants, and the run `delegation`
has such constants, boosts included.

**Tokens.** `IdsInv`: every token is of the genesis, the LST, or below the counter
(`FreshIds`, and with `LstIsReserved` also `LstIsNobodys`). `NothingLeftBehind`: a mint
writes to later heights only. `LedgerInv` is types and, per token, supply = available +
vesting + ICO, by one lemma per change of a row: it is what the other theorems know
of balances. `VestedScheduled` goes cell by cell, token and
holder: what a mint locks is what it writes to the heights to come, what a block unlocks
is one term of the sum; `NextUnlockSucceeds`. `PriceInv` bounds what a pool has earned
at its present price against what it has sold, and knows books of other prices as closed
(`SoldAtPrice`). One quote is the matter of `QuoterProofs`, for every table `AsNumber`
and `Scales` that its assumption allows: `QuoteIsNear` for its distance from the price,
`ReadGrows` and `RoundedGrows` for what more is quoted; `OffByAdds` adds quotes up. `PromiseInv` follows a list through appends, raises and removals, each
of which moves the entries after it (`PromisesPaidOnce`).

**Configurations.** `ChainInv`: every store is what its block made of the store before,
all from one genesis file. The actions of a block are a recursive function, so what
they keep is an induction over it: configurations stay valid (`ConfigTyped`), two runs
from equal stores with different handlers end in equal stores (`SameActions`), and
handlers that follow still follow (`Tracks`, twice for a forger). `NodesAgree` is then
an induction over heights, `RewardsScheduled` compares the search for a bracket with its
definition, `HandlersFollow` holds for any proposals, also those that fail half way.

**The bitmap.** A word is `Composed(hi, bit, lo)`, and flipping changes `bit` alone. The
halving searches know after each step that the value is the accumulator shifted by what
has been counted (`UpperKnown`, `LowerKnown`), so they end at the highest and the lowest
bit. `SearchDown` and `SearchUp`: `nextInitializedTickWithinOneWord` returns a multiple
of the spacing in the same word, says truly whether it is set, and leaves no set bit
between. They are for words of up to 16 bits.

**The pool.** `PoolInv` = types, with the price between those of its tick and the next;
`TickSums` (the net and gross liquidity of every tick are sums over positions that start
and end there); `BitsOfTicks` (a bit is set exactly where gross liquidity is positive);
`InRange` (the liquidity is the sum over positions around the tick); `SwapInv` (the same
for the local state of a swap, and the ticks to restore). The invariant was checked by
TLC on the `pool` instance before it was proved. A mint or burn moves one position
(`TicksMoved`, `BitsMoved`, `LiquidityMoved`). For an iteration of the loop:

1. `NextTickDown` and `NextTickUp`, from the bitmap: no tick with liquidity lies between
   the tick and the one the swap is sent to.
2. `StepBetween`, for all four cases of `computeSwapStep`: the new price never passes its
   target, by the rounding of every division on the way.
3. So the tick of the new price is the target, or lies before it (`Fallen`, `Risen`), and
   sums over positions around either differ by the net liquidity of the target alone
   (`SumBetween`, `SumCrossing`).

`TicksMatchPositions` and `LiquidityInRange` follow, for any number of words, ticks,
positions and swaps, with any limits and amounts. `NftInv` says that the weights of the
NFTs of a range sum to its position and that indices from `nextIndex` on are free
(`NftsShare`). All four need `KeysDiffer`, that no two ranges have the same key; the run
`position_keys` shows that without it they are false, and for the multiples of a tick
spacing it depends on the ranges in use.

**Routes.** `RouteIInv` is about a swap, purchase or transaction that is under way, and
relates the present state to `before`, the one a revert would restore:

* `RouteInv`: what is left of a route is an end of its path (`Along`), nobody off the
  path but the sender and the receiver has been touched (`Untouched`), and the sender has
  given x of the first token and got y of the last one (`Gains`), where the phase of the
  route says what x and y are. For an exact output the amount is known only after the
  nested callbacks, so the frame at the bottom of the stack is what ties it to the
  order (`OutputSoFar`).
* `KeptInv`: of every token there is as much as before, by one lemma per transfer, with a
  protocol fee paid or locked.
* `ResultInv`, `PurchaseInv`, `BoughtInv`: what ended well kept its bound and left
  nothing with the router; what failed has restored everything; the leg of a purchase
  delivered what the ICO is then paid with. `TxInv` and `AfterInv` say the same of
  the stages of a transaction.

A hop is one `computeSwapStep` over the whole range of prices, with the facts of
`StepProofs` that also carry a pool's swap (`StepBetween`): it takes no more than an exact
input, gives no more than an exact output and ends between its price and its limit. `SwapsSettle` is the part of `RouteSettles` about
swaps, for all constants. `RoutesSettle` is the whole property, with what the ICO is paid within the rounding of its
quote, and what the recipient gets at least what the ICO quotes for the least that was to
come; under `OrdersSuit`: no
ICO is its own provider or the sender's, and no purchase is for an ICO or of a token that
is on its own path. Otherwise payment and delivery are of the same balance and the
property, which compares balances, says something else; the run `routes` satisfies it.

`RoutesBacked` is `RoutesKeepPoolsBacked` for all constants: after a route no pool has less
beyond what it owes to its liquidity, at its price and with its fees, than before. `HopOwes`
is the arithmetic, for one hop: what `getAmount0Delta` and `getAmount1Delta` round up for the
swap covers what the same prices are worth rounded down for a position (`WorthFalls0` and
its three likes, `WorthMoves`), and fee growth, divided by the liquidity, stored modulo 2^256
and multiplied again, gives providers no more than the fee without the protocol's share
(`GrowthOwed`). `BackInv` carries that through the callbacks. It speaks of the pools that do
not wait (`PoolBacked`), and of those that do: a pool that has given, and stores its state
only on return, is backed on the side it gives from (`HasGiven`), and will be on the other
once it has what it demands (`Awaits`). The rest of an exact output goes through none of the
pools that wait, which is where `~Repeats` is needed: the return of an outer swap would
overwrite what an inner one stored. A pool that pays for its own swap, after a transfer to
it, holds what was sent beyond what it owes (`HasBeenSent`), if the transfer succeeded.
TLC checked `BackInv` on the routes before it was proved.

Only model-checked, and why:

* liveness, which the prover does not have;
* `PoolIsSolvent`, `CollectsArePaid` and `WorthIsWhatIsPaid`, which relate sums of
  roundings, modulo 2^256, over the history of a pool; `CrossingsAreCounted`, which
  compares a count of bits over words with a loop;
* the oracle (`ImplementsPriceLog`, `SnapshotCountsTimeInside`, `LibraryReadsHistory`),
  whose log is read by folds over sequences of any length;
* `ConversionPaysFee`, and that a quoted route succeeds (`RouteMatchesQuote`): both need
  pools that can pay, which an exact output through one pool twice or a swap by transfer
  of what never came takes from them (above), so they are not true for all constants.

## Plan

What is left, in this order.

1. A theorem about the oracle: an invariant that ties the ring to the log entry by entry,
   from which the binary search and the refinement of `PriceLog` follow.
2. Solvency of a pool: the claims of positions in terms of fee growth without wrapping,
   each rounding bounded by itself.
3. `Governance` with configurations that switch boosting off while accounts are boosted,
   and a bound on the rounding drift of boosted stakes.

Out of scope: the full-width fixed-point arithmetic (values of 160 and 256 bits, the
logarithms of prices), NFT rendering and transfers, schemas, endpoints that only read,
events, the cross-chain hooks, the node's plugins and commands, and the SDK.
