--------------------------------- MODULE Ico ---------------------------------
(***************************************************************************)
(* The ICO pools of token_factory: a provider sells tokenOut for tokenIn   *)
(* at a fixed price. The pool for a pair of tokens has an address made of  *)
(* their ids; here the pair is the address.                                *)
(***************************************************************************)
EXTENDS TokenFactory, IcoQuoter

CONSTANTS
    Pools,      \* pool addresses, pairs <<tokenIn, tokenOut>>
    LeftOvers,  \* config.icoLeftOverAddress: addresses, or None
    Prices,     \* tokenIn per tokenOut, as records [num, den]
    IcoAmounts, \* the amounts of commands
    MaxSwaps    \* bounds the swaps of a pool at one price in the model

ASSUME IcoAssumption ==
    /\ Pools \subseteq (TokenIds \X TokenIds) \cap Holders
    /\ \A pool \in Pools : pool[1] # pool[2]
    /\ LeftOvers \subseteq Holders \cup {None}
    /\ Prices \subseteq [num : Nat, den : Nat \ {0}]
    /\ IcoAmounts \cup Transfers \subseteq 0 .. MaxAmount

VARIABLES
    leftOver,   \* config.icoLeftOverAddress
    ico,        \* ICOStore: price and provider of a pool, or None
    icoLocked,  \* locked by the ico part of the module, per token and holder
    book        \* history: what a pool sold and earned at its present price

icoVars == <<leftOver, ico, icoLocked, book>>

ClosedBook == [sold |-> 0, earned |-> 0, swaps |-> 0, inexact |-> 0]

IcoInit ==
    /\ leftOver \in LeftOvers
    /\ ico = [pool \in Pools |-> None]
    /\ icoLocked = Nothing
    /\ book = [pool \in Pools |-> ClosedBook]

\* The tokens of a pair that are at the pool address before the pool is created
\* go to the left-over address, or are locked if there is none.
Cleared(pool) ==
    IF leftOver = None
    THEN [id \in TokenIds |-> [available[id] EXCEPT ![pool] = IF id \in {pool[1], pool[2]} THEN 0 ELSE @]]
    ELSE [id \in TokenIds |->
            IF id \in {pool[1], pool[2]}
            THEN [available[id] EXCEPT ![pool] = @ - available[id][pool],
                                       ![leftOver] = @ + available[id][pool]]
            ELSE available[id]]

\* ICOStore.getMutableICOPool and getImmutableICOPool throw where nothing is stored.
ICOExists(pool) == ico[pool] # None
\* ICOPool._checkICONotCreatedYet
ICONotCreatedYet(pool) == ico[pool] = None

\* ICOPool.create, with the deposit it may end in
IcoCreate(sender, pool, provider, price, amount) ==
    LET cleared == Cleared(pool)
    IN  /\ IsFactoryOwner(sender, pool[2])
        /\ ICONotCreatedYet(pool)
        /\ cleared[pool[2]][sender] >= amount
        /\ available' = [cleared EXCEPT ![pool[2]][sender] = @ - amount,
                                        ![pool[2]][pool] = @ + amount]
        /\ icoLocked' = IF leftOver # None THEN icoLocked
                        ELSE [id \in TokenIds |-> [icoLocked[id] EXCEPT ![pool] =
                                @ + IF id \in {pool[1], pool[2]} THEN available[id][pool] ELSE 0]]
        /\ ico' = [ico EXCEPT ![pool] = [price |-> price, providerAddress |-> provider]]
        /\ UNCHANGED <<initialized, supply, factoryVars, leftOver, book>>

\* ICOPool._checkICOProvider
IsProvider(sender, pool) == ICOExists(pool) /\ ico[pool].providerAddress = sender

\* ICOPool.changePrice
IcoChangePrice(sender, pool, price) ==
    /\ IsProvider(sender, pool)
    /\ ico' = [ico EXCEPT ![pool].price = price]
    /\ book' = [book EXCEPT ![pool] = ClosedBook]
    /\ UNCHANGED <<ledgerVars, factoryVars, leftOver, icoLocked>>

\* ICOPool.deposit
IcoDeposit(sender, pool, amount) ==
    /\ IsProvider(sender, pool)
    /\ available[pool[2]][sender] >= amount
    /\ available' = Transferred(pool[2], sender, pool, amount)
    /\ UNCHANGED <<initialized, supply, factoryVars, icoVars>>

\* ICOPool.withdraw
IcoWithdraw(sender, pool, amount) ==
    /\ IsProvider(sender, pool)
    /\ available[pool[2]][pool] >= amount
    /\ available' = Transferred(pool[2], pool, sender, amount)
    /\ UNCHANGED <<initialized, supply, factoryVars, icoVars>>

\* ICOPool.treasurify, by anybody, of tokens that are not of the pair. It asks for
\* what is locked by the module itself, which never locks anything at a pool.
IcoTreasurify(pool, id) ==
    /\ ICOExists(pool)
    /\ leftOver # None
    /\ id \notin {pool[1], pool[2]}
    /\ available[id][pool] > 0
    /\ available' = Transferred(id, pool, leftOver, available[id][pool])
    /\ UNCHANGED <<initialized, supply, factoryVars, icoVars>>

\* ICORouter._icoSwapInternal: to the pool, on to its provider, and out. For the book,
\* what the quote is of if its amount is no exact Number.
IcoSwapInternal(sender, recipient, pool, amountIn, amountOut, inexact) ==
    LET provider == ico[pool].providerAddress
    IN  /\ book[pool].swaps < MaxSwaps
        /\ available[pool[1]][sender] >= amountIn
        /\ available[pool[2]][pool] >= amountOut
        /\ available' = [available EXCEPT ![pool[1]][sender] = @ - amountIn,
                                          ![pool[1]][provider] = @ + amountIn,
                                          ![pool[2]][pool] = @ - amountOut,
                                          ![pool[2]][recipient] = @ + amountOut]
        /\ book' = [book EXCEPT ![pool] = [sold |-> @.sold + amountOut,
                                           earned |-> @.earned + amountIn,
                                           swaps |-> @.swaps + 1,
                                           inexact |-> @.inexact + inexact]]
        /\ UNCHANGED <<initialized, supply, factoryVars, leftOver, ico, icoLocked>>

\* ICORouter.exactInputSingle. Dividing by a price of zero throws.
ExactInputSingle(sender, recipient, pool, amountIn) ==
    /\ ICOExists(pool)
    /\ ico[pool].price.num > 0
    /\ IcoSwapInternal(sender, recipient, pool, amountIn,
                       QuoteExactInputSingle(ico[pool].price, amountIn),
                       BeyondNumber(amountIn, ico[pool].price.den))

\* ICORouter.exactOutputSingle
ExactOutputSingle(sender, recipient, pool, amountOut) ==
    /\ ICOExists(pool)
    /\ IcoSwapInternal(sender, recipient, pool,
                       QuoteExactOutputSingle(ico[pool].price, amountOut), amountOut,
                       BeyondNumber(amountOut, ico[pool].price.num))

\* A transfer to a pool and its hook, executeSwapByTransfer: the pool swaps, for the
\* sender, what the parameters of the transfer say that it was sent. After a transfer
\* that failed it does the same, and pays with what it has.
SwapByTransfer(id, from, pool) ==
    \E n \in Transfers, payer \in {from, pool} :
        id = pool[1] /\ ExactInputSingle(payer, from, pool, n)

-------------------------------------------------------------------------------
(* Commands *)

IcoCreateCommand ==
    \E sender \in Users, pool \in Pools, provider \in Users, price \in Prices, n \in IcoAmounts :
        IcoCreate(sender, pool, provider, price, n)

IcoChangePriceCommand ==
    \E sender \in Users, pool \in Pools, price \in Prices : IcoChangePrice(sender, pool, price)

IcoDepositCommand ==
    \E sender \in Users, pool \in Pools, n \in IcoAmounts \ {0} : IcoDeposit(sender, pool, n)

IcoWithdrawCommand ==
    \E sender \in Users, pool \in Pools, n \in IcoAmounts \ {0} : IcoWithdraw(sender, pool, n)

IcoTreasurifyCommand ==
    \E pool \in Pools, id \in TokenIds : IcoTreasurify(pool, id)

\* The commands for routes of more than one pool are in FeeConversion.
IcoSingleCommand ==
    \E sender, recipient \in Users, pool \in Pools, n \in IcoAmounts \ {0} :
        ExactInputSingle(sender, recipient, pool, n) \/ ExactOutputSingle(sender, recipient, pool, n)

IcoTransferCommand ==
    \E sender \in Users, pool \in Pools, id \in TokenIds : SwapByTransfer(id, sender, pool)

IcoCommand ==
    \/ IcoCreateCommand
    \/ IcoChangePriceCommand
    \/ IcoDepositCommand
    \/ IcoWithdrawCommand
    \/ IcoTreasurifyCommand
    \/ IcoSingleCommand
    \/ IcoTransferCommand
===============================================================================
