------------------------------- MODULE IcoRouter -------------------------------
(***************************************************************************)
(* Purchases at ICO pools by way of the dex: an exact input first goes     *)
(* along a path of pools to the token that the ICO takes; an exact output  *)
(* first asks the ICO what it will take and buys that along the path. The  *)
(* two legs are one command: what throws in the second undoes the first.   *)
(* A path may also be a token alone, then there is no first leg.           *)
(***************************************************************************)
EXTENDS SwapRouter, IcoQuoter

CONSTANT
    ICOs    \* price and providerAddress of the pools, by <<tokenIn, tokenOut>>

ICOsAre ==
    \A pool \in DOMAIN ICOs :
        /\ pool[1] # pool[2]
        /\ {pool, ICOs[pool].providerAddress} \subseteq DOMAIN Holdings
        /\ ICOs[pool].price \in [num : Nat \ {0}, den : Nat \ {0}]

ASSUME IcoRouterAssumption ==
    /\ DOMAIN ICOs \subseteq Tokens \X Tokens /\ Sender \notin DOMAIN ICOs
    /\ ICOsAre

VARIABLES
    purchase,   \* the order that is executed, or None
    bought      \* the purchase that just ended, or None

icoVars == <<purchase, bought>>

\* The token that the ICO takes
IcoTokenIn(order) == IF order.exactInput THEN LastToken(order.path) ELSE order.path[1]

\* computeICOPoolAddress
IcoPool(order) == <<IcoTokenIn(order), order.tokenOut>>
IcoPathExists(order) == IcoPool(order) \in DOMAIN ICOs

HasPath(order) == NumPools(order.path) > 0

-------------------------------------------------------------------------------
(* ICOQuoter, for orders with a path *)

\* The dex quotes no path of a token alone, though the router takes one.
IcoQuoteExactInput(state, order) ==
    LET swap == QuoteExactInput(state, order.path, order.amount, None)
    IN  IF ~HasPath(order) \/ swap = Error THEN Error
        ELSE QuoteExactInputSingle(ICOs[IcoPool(order)].price, swap)

\* The quoter asks for the ICO of the last token of the path, of which the router
\* pays with the first.
IcoQuoteExactOutput(state, order) ==
    LET pool == <<LastToken(order.path), order.tokenOut>>
    IN  IF ~HasPath(order) \/ pool \notin DOMAIN ICOs THEN Error
        ELSE QuoteExactOutput(state, order.path,
                              QuoteExactOutputSingle(ICOs[pool].price, order.amount), None)

-------------------------------------------------------------------------------
(* ICORouter *)

\* What the ICO takes and gives; amountIn of an exact input is what its path has brought.
IcoAmountIn(order) ==
    IF ~order.exactInput THEN QuoteExactOutputSingle(ICOs[IcoPool(order)].price, order.amount)
    ELSE IF HasPath(order) THEN result.route.amount ELSE order.amount
IcoAmountOut(order) ==
    IF order.exactInput THEN QuoteExactInputSingle(ICOs[IcoPool(order)].price, IcoAmountIn(order))
    ELSE order.amount

\* exactInput and exactOutput of a path, up to the end of its first leg, which belongs to
\* the sender
BuyAlongPath(order) ==
    /\ HasPath(order)
    /\ IF order.exactInput
       THEN ExactInput(order.path, order.amount, Sender, order.bound, None)
       ELSE ExactOutput(order.path, IcoAmountIn(order), Sender, order.bound, None)

\* exactInputSingle and exactOutputSingle, and a path of a token alone
BuyDirectly(order, origin) ==
    /\ ~HasPath(order)
    /\ before' = origin
    /\ result' = None
    /\ UNCHANGED <<pools, balance, locked, hasTreasury, call>>

\* order.payer is the sender, or a pool that was sent the token.
Purchase(order, origin) ==
    /\ call = None /\ purchase = None
    /\ IcoPathExists(order)
    /\ BuyAlongPath(order) \/ BuyDirectly(order, origin)
    /\ purchase' = order
    /\ bought' = None

PathFailed == result # None /\ ~result.ok
IcoFits ==
    /\ ~PathFailed
    /\ balance[purchase.payer][IcoTokenIn(purchase)] >= IcoAmountIn(purchase)
    /\ balance[IcoPool(purchase)][purchase.tokenOut] >= IcoAmountOut(purchase)

\* Who is paid by the pool
PaidBy(order) == ICOs[IcoPool(order)].providerAddress

\* _icoSwapInternal: to the pool, on to its provider, and out.
IcoSwapInternal ==
    /\ purchase # None /\ call = None
    /\ IcoFits
    /\ LET paid == Transferred(balance, purchase.payer, PaidBy(purchase),
                               IcoTokenIn(purchase), IcoAmountIn(purchase))
       IN  balance' = Transferred(paid, IcoPool(purchase), purchase.recipient,
                                  purchase.tokenOut, IcoAmountOut(purchase))
    /\ bought' = [ok |-> TRUE, order |-> purchase, amountIn |-> IcoAmountIn(purchase),
                  amountOut |-> IcoAmountOut(purchase)]
    /\ result' = None
    /\ purchase' = None
    /\ UNCHANGED <<pools, locked, hasTreasury, call, before>>

\* One of the legs has failed, and the other is undone.
IcoRevert ==
    /\ purchase # None /\ call = None
    /\ ~IcoFits
    /\ pools' = before.pools
    /\ balance' = before.balance
    /\ locked' = before.locked
    /\ bought' = [ok |-> FALSE, order |-> purchase]
    /\ result' = None
    /\ purchase' = None
    /\ UNCHANGED <<hasTreasury, call, before>>
===============================================================================
