------------------------------ MODULE SwapRouter ------------------------------
(***************************************************************************)
(* Swaps along a path of pools. An exact input goes hop by hop: each pool  *)
(* pays the router, which pays the next. An exact output goes backwards:   *)
(* each pool pays first and is paid in its callback by the swap of the     *)
(* pool before it, which is nested in it, and the sender pays the last.    *)
(* One step is one swap up to its callback, one payment or one return; a   *)
(* route is one call, so nothing happens in between, and what throws       *)
(* undoes all of it. Every pool has one position, over all its prices: a   *)
(* swap is one iteration of the loop that Pool has with its ticks.         *)
(***************************************************************************)
EXTENDS Path, PoolMath

CONSTANTS
    Tokens,         \* token ids
    PoolKeys,       \* the pools there are
    StartPrices,    \* their prices at first
    Liquidity,      \* of the position of each
    FeeProtocol,    \* denominator of the protocol's share, or 0
    Holdings,       \* of the sender and of accounts that are no pools, at first, by token
    Sender, Router, Treasury, Zero,     \* Zero: the address of zeros
    None, Error

Accounts == PoolKeys \cup DOMAIN Holdings \cup {Router, Treasury}
Fees == {k[3] : k \in PoolKeys}

\* A pool as it is stored, a swap, an exact output that waits for its payment, a route
PoolStates == [sqrtPrice : MinRatio + 1 .. MaxRatio - 1, feeGrowth : [{0, 1} -> Nat]]
Swaps == [amountIn : Nat, amountOut : Nat, protocolFee : Nat, pool : PoolStates]
Frames == [key : PoolKeys, token : Tokens, wanted : Nat, balanceBefore : Int, swap : Swaps]
Phases == {"input", "output", "pay", "return", "finish"}
RouteRecords ==
    [exactInput : BOOLEAN, phase : Phases, path : Seq(Nat), rest : Seq(Nat), payer : Accounts,
     recipient : Accounts \cup {Zero}, receiver : Accounts \cup {Zero}, specified : Nat, amount : Nat,
     bound : Nat, limit : Nat \cup {None}, stack : Seq(Frames)]

NoneIsNoRecord == None \notin RouteRecords /\ None \notin [ok : BOOLEAN, route : RouteRecords]
HoldingsAre == \A a \in DOMAIN Holdings : Holdings[a] \in [Tokens -> Nat]
FeesAre == \A f \in Fees : f \in 0 .. FeeUnit - 1

ASSUME SwapRouterAssumption ==
    /\ Tokens \subseteq Nat
    /\ PoolKeys \subseteq {k \in Tokens \X Tokens \X Fees : k[1] < k[2]}
    /\ StartPrices \in [PoolKeys -> MinRatio + 1 .. MaxRatio - 1]
    /\ Liquidity \in [PoolKeys -> 1 .. Q128 - 1]
    /\ FeeProtocol \in {0} \cup (4 .. 10)
    /\ Sender \in DOMAIN Holdings
    /\ HoldingsAre /\ FeesAre /\ NoneIsNoRecord
    /\ IsFiniteSet(PoolKeys) /\ IsFiniteSet(DOMAIN Holdings)
    /\ PoolKeys \cap DOMAIN Holdings = {}
    /\ {Router, Treasury} \cap (PoolKeys \cup DOMAIN Holdings) = {}
    /\ Router # Treasury /\ Zero \notin Accounts

VARIABLES
    pools,      \* [sqrtPrice, feeGrowth] of each, as stored
    balance,    \* available, by account and token
    locked,     \* under the name of the module
    hasTreasury,    \* whether feeProtocolPool is configured
    call,       \* the route in progress, or None
    result,     \* of the route that just ended, or None
    before      \* what a revert goes back to

routerVars == <<pools, balance, locked, hasTreasury, call, result, before>>

Side(key, token) == IF token = key[1] THEN 0 ELSE 1
NoTokens == [t \in Tokens |-> 0]

\* What the position of a pool is worth at a price, rounded up for who mints it
PositionWorth(key, price, side, up) ==
    IF side = 0 THEN Amount0(price, MaxRatio, Liquidity[key], up)
                ELSE Amount1(MinRatio, price, Liquidity[key], up)

RouterInit ==
    /\ pools = [k \in PoolKeys |-> [sqrtPrice |-> StartPrices[k], feeGrowth |-> [i \in {0, 1} |-> 0]]]
    /\ balance = [a \in Accounts |->
          IF a \in DOMAIN Holdings THEN Holdings[a]
          ELSE IF a \in {Router, Treasury} THEN NoTokens
          ELSE [t \in Tokens |-> IF t \in {a[1], a[2]}
                                 THEN PositionWorth(a, StartPrices[a], Side(a, t), TRUE) ELSE 0]]
    /\ locked = [a \in Accounts |-> NoTokens]
    /\ hasTreasury \in BOOLEAN
    /\ call = None
    /\ result = None
    /\ before = None

-------------------------------------------------------------------------------
(* One swap, on given balances and the pool as it is stored *)

\* TokenMethod.transfer, of what is there
Transferred(b, from, to, token, amount) ==
    LET taken == [b EXCEPT ![from][token] = @ - amount]
    IN  [taken EXCEPT ![to][token] = @ + amount]

\* Without a limit of the sender's, the router puts in the last price but one.
Limit(zeroForOne, limit) ==
    IF limit # None THEN limit ELSE IF zeroForOne THEN MinRatio + 1 ELSE MaxRatio - 1

\* The tests with which a swap begins
SwapAllowed(pool, zeroForOne, specified, limit) ==
    /\ specified # 0
    /\ IF zeroForOne THEN limit < pool.sqrtPrice /\ limit > MinRatio
                     ELSE limit > pool.sqrtPrice /\ limit < MaxRatio

ProtocolShare(feeAmount) == IF FeeProtocol = 0 THEN 0 ELSE feeAmount \div FeeProtocol

\* Mutant: liquidity providers are credited the fee that the protocol has taken.
WholeFee(feeAmount) == feeAmount
\* The rest of the fee, for those who provide liquidity
ProvidersShare(feeAmount) == feeAmount - ProtocolShare(feeAmount)

\* The one iteration of the loop of a swap, in each pool
SwapStep(key, price, target, specified) ==
    ComputeSwapStep(price, target, Liquidity[key], specified, key[3])

\* What comes of DEXPool.swap; an amount is positive for an exact input.
Swapped(key, pool, zeroForOne, specified, limit) ==
    LET step == SwapStep(key, pool.sqrtPrice, limit, specified)
        in == IF zeroForOne THEN 0 ELSE 1
    IN  [amountIn |-> step.amountIn + step.feeAmount,
         amountOut |-> step.amountOut,
         protocolFee |-> ProtocolShare(step.feeAmount),
         pool |-> [sqrtPrice |-> step.sqrtPrice,
                   feeGrowth |-> [pool.feeGrowth EXCEPT ![in] = Wrap256(
                       @ + MulDiv(ProvidersShare(step.feeAmount), Q128, Liquidity[key]))]]]

\* A hop that gives tokenIn for tokenOut, if there is a pool for it
HopSwap(state, key, tokenIn, tokenOut, specified, limit) ==
    LET zeroForOne == tokenIn < tokenOut
        bound == Limit(zeroForOne, limit)
    IN  IF key \in PoolKeys /\ SwapAllowed(state[key], zeroForOne, specified, bound)
        THEN LET swap == Swapped(key, state[key], zeroForOne, specified, bound)
             IN  IF swap.amountIn > 0 THEN swap ELSE Error
        ELSE Error

PaysTreasury == FeeProtocol > 0 /\ hasTreasury

\* What belongs to the protocol goes to the treasury or is locked where it is.
ToProtocol(b, account, token, amount) ==
    IF PaysTreasury THEN Transferred(b, account, Treasury, token, amount)
                    ELSE [b EXCEPT ![account][token] = @ - amount]
LockedBy(account, token, amount) ==
    IF PaysTreasury THEN locked ELSE [locked EXCEPT ![account][token] = @ + amount]

\* DEXPool.swap up to its callback: the protocol's share and the output leave the pool.
PaidOut(key, tokenIn, tokenOut, swap, recipient) ==
    Transferred(ToProtocol(balance, key, tokenIn, swap.protocolFee),
                key, recipient, tokenOut, swap.amountOut)

\* The zero address stands for the router.
RecipientOf(recipient) == IF recipient = Zero THEN Router ELSE recipient

-------------------------------------------------------------------------------
(* What the quoter foretells: swaps of copies of the pools *)

Quotes == Nat \cup {Error}

\* quoteExactInputSingle, of a hop and an amount: what is got
QuoteIn(state, limit) ==
    [hop \in Seq(Nat) |-> [amount \in Quotes |->
        LET swap == HopSwap(state, FirstPoolKey(hop), hop[1], hop[3], amount, limit)
        IN  IF amount = Error \/ swap = Error THEN Error ELSE swap.amountOut]]

\* quoteExactOutputSingle: what is given. Without a limit, for nothing less than the output
QuoteOut(state, limit) ==
    [hop \in Seq(Nat) |-> [amount \in Quotes |->
        LET swap == HopSwap(state, FirstPoolKey(hop), hop[3], hop[1], -amount, limit)
        IN  IF amount = Error \/ swap = Error \/ (limit = None /\ swap.amountOut # amount)
            THEN Error ELSE swap.amountIn]]

\* quoteExactInput and quoteExactOutput: hop by hop, each on the same state of the pools
Quote(ofHop, path, amount) ==
    LET after[i \in 0 .. NumPools(path)] ==
            IF i = 0 THEN amount ELSE ofHop[Hop(path, i)][after[i - 1]]
    IN  after[NumPools(path)]
QuoteExactInput(state, path, amountIn, limit) == Quote(QuoteIn(state, limit), path, amountIn)
QuoteExactOutput(state, path, amountOut, limit) == Quote(QuoteOut(state, limit), path, amountOut)

-------------------------------------------------------------------------------
(* Routes *)

Now == [pools |-> pools, balance |-> balance, locked |-> locked]

\* origin is what a revert goes back to.
Begin(route, origin) ==
    /\ call = None
    /\ call' = route
    /\ before' = origin
    /\ result' = None
    /\ UNCHANGED <<pools, balance, locked, hasTreasury>>

\* exactInput and exactInputSingle, which is a path of one pool and may have a limit.
\* bound is the least amount the sender wants.
ExactInputOf(payer, origin, path, amountIn, recipient, bound, limit) ==
    Begin([exactInput |-> TRUE, phase |-> "input", path |-> path, rest |-> path, payer |-> payer,
           recipient |-> recipient, receiver |-> recipient, specified |-> amountIn, amount |-> amountIn,
           bound |-> bound, limit |-> limit, stack |-> <<>>], origin)
ExactInput(path, amountIn, recipient, bound, limit) ==
    ExactInputOf(Sender, Now, path, amountIn, recipient, bound, limit)

\* exactOutput and exactOutputSingle; a path begins with what is bought. bound is the
\* greatest amount the sender gives.
ExactOutput(path, amountOut, recipient, bound, limit) ==
    Begin([exactInput |-> FALSE, phase |-> "output", path |-> path, rest |-> path, payer |-> Sender,
           recipient |-> recipient, receiver |-> recipient, specified |-> amountOut, amount |-> amountOut,
           bound |-> bound, limit |-> limit, stack |-> <<>>], Now)

\* The hop that is next, and the swap of it
HopKey == FirstPoolKey(call.rest)
TokenGiven == IF call.exactInput THEN call.rest[3] ELSE call.rest[1]
TokenTaken == IF call.exactInput THEN call.rest[1] ELSE call.rest[3]
HopResult ==
    HopSwap(pools, HopKey, TokenTaken, TokenGiven,
            IF call.exactInput THEN call.amount ELSE -call.amount, call.limit)

\* The recipient of a hop of an exact input
HopRecipient == RecipientOf(IF HasMultiplePools(call.rest) THEN Router ELSE call.recipient)

\* DEXPool.swap up to its callback throws if the pool lacks what it has to pay.
CanPayOut(swap) ==
    /\ swap # Error
    /\ balance[HopKey][TokenTaken] >= swap.protocolFee
    /\ balance[HopKey][TokenGiven] >= swap.amountOut

\* The first hop of an exact input is paid by the sender, the later ones by the router. A
\* pool that pays itself has given away the share of the protocol by then.
InputFits(swap) ==
    /\ CanPayOut(swap)
    /\ PaidOut(HopKey, TokenTaken, TokenGiven, swap, HopRecipient)[call.payer][TokenTaken] >= swap.amountIn

\* _exactInputInternal
SwapIn ==
    /\ call # None /\ call.phase = "input"
    /\ \E swap \in {HopResult} :
        /\ InputFits(swap)
        /\ balance' = Transferred(PaidOut(HopKey, TokenTaken, TokenGiven, swap, HopRecipient),
                                  call.payer, HopKey, TokenTaken, swap.amountIn)
        /\ locked' = LockedBy(HopKey, TokenTaken, swap.protocolFee)
        /\ pools' = [pools EXCEPT ![HopKey] = swap.pool]
        /\ call' = IF HasMultiplePools(call.rest)
                   THEN [call EXCEPT !.rest = SkipToken(@), !.payer = Router, !.amount = swap.amountOut]
                   ELSE [call EXCEPT !.phase = "finish", !.amount = swap.amountOut]
        /\ UNCHANGED <<hasTreasury, result, before>>

\* _exactOutputInternal up to the callback of its swap, in which the next pool or the
\* sender pays. Meanwhile the pool is in the hands of this call: it is not stored.
SwapOut ==
    /\ call # None /\ call.phase = "output"
    /\ \E swap \in {HopResult}, more \in {HasMultiplePools(call.rest)} :
        /\ CanPayOut(swap)
        /\ balance' = PaidOut(HopKey, TokenTaken, TokenGiven, swap, RecipientOf(call.recipient))
        /\ locked' = LockedBy(HopKey, TokenTaken, swap.protocolFee)
        /\ call' = [call EXCEPT
              !.stack = Append(@, [key |-> HopKey, token |-> TokenTaken, wanted |-> call.amount,
                                   balanceBefore |-> balance'[HopKey][TokenTaken], swap |-> swap]),
              !.amount = swap.amountIn,
              !.recipient = HopKey,
              !.rest = IF more THEN SkipToken(@) ELSE @,
              !.phase = IF more THEN "output" ELSE "pay"]
        /\ UNCHANGED <<pools, hasTreasury, result, before>>

SenderCanPay == balance[call.payer][LastToken(call.path)] >= call.amount

\* The innermost callback: the sender pays, and the amount is kept as _amountInCached.
PayOut ==
    /\ call # None /\ call.phase = "pay"
    /\ SenderCanPay
    /\ balance' = Transferred(balance, call.payer, call.recipient, LastToken(call.path), call.amount)
    /\ call' = [call EXCEPT !.phase = "return"]
    /\ UNCHANGED <<pools, locked, hasTreasury, result, before>>

\* Mutant: the amount that was bought is not compared.
AnyAmount(frame) == TRUE
\* The last test of _exactOutputInternal: the output in full, unless there is a limit
FullAmount(frame) == call.limit = None => frame.swap.amountOut = frame.wanted

\* The pool has been paid, or the swap throws.
Returns(frame) ==
    /\ frame.balanceBefore + frame.swap.amountIn <= balance[frame.key][frame.token]
    /\ FullAmount(frame)

\* The rest of a swap after its callback: the pool is stored.
ReturnOut ==
    LET frame == Last(call.stack)
    IN  /\ call # None /\ call.phase = "return"
        /\ Returns(frame)
        /\ pools' = [pools EXCEPT ![frame.key] = frame.swap.pool]
        /\ call' = [call EXCEPT !.stack = Front(@),
                                !.phase = IF Len(call.stack) = 1 THEN "finish" ELSE "return"]
        /\ UNCHANGED <<balance, locked, hasTreasury, result, before>>

\* The sender's limit on the amount that was not specified. What a single exact output
\* returns is that of its only swap.
WithinBound(route, amount) ==
    IF route.exactInput THEN amount >= route.bound ELSE amount <= route.bound
BoundHolds == WithinBound(call, call.amount)

\* Mutant: the token at the end of the path is forgotten.
TokensButLast(path) == TokensOf(path) \ {LastToken(path)}
\* The tokens that _checkRemainingBalance collects
TokensToCheck(path) == TokensOf(path)

\* _checkRemainingBalance: what is left at the router goes to the protocol.
LeftOver(t) == IF t \in TokensToCheck(call.path) THEN balance[Router][t] ELSE 0

Finish ==
    /\ call # None /\ call.phase = "finish"
    /\ BoundHolds
    /\ balance' = [balance EXCEPT
          ![Router] = [t \in Tokens |-> @[t] - LeftOver(t)],
          ![Treasury] = [t \in Tokens |-> @[t] + IF PaysTreasury THEN LeftOver(t) ELSE 0]]
    /\ locked' = [locked EXCEPT
          ![Router] = [t \in Tokens |-> @[t] + IF PaysTreasury THEN 0 ELSE LeftOver(t)]]
    /\ result' = [ok |-> TRUE, route |-> call]
    /\ call' = None
    /\ UNCHANGED <<pools, hasTreasury, before>>

\* Whether the next step goes through
Fits ==
    CASE call.phase = "input" -> InputFits(HopResult)
      [] call.phase = "output" -> CanPayOut(HopResult)
      [] call.phase = "pay" -> SenderCanPay
      [] call.phase = "return" -> Returns(Last(call.stack))
      [] call.phase = "finish" -> BoundHolds

\* It throws, and everything is as before.
Revert ==
    /\ call # None
    /\ ~Fits
    /\ pools' = before.pools
    /\ balance' = before.balance
    /\ locked' = before.locked
    /\ result' = [ok |-> FALSE, route |-> call]
    /\ call' = None
    /\ UNCHANGED <<hasTreasury, before>>

RouteStep == SwapIn \/ SwapOut \/ PayOut \/ ReturnOut \/ Finish \/ Revert

\* Tokens come to the address of the router or of a pool by a command that names any
\* recipient: an airdrop, a funding proposal, a collect of position fees. (A transfer to
\* the router, or of other tokens to a pool, is refused.)
Donate(account, token, amount) ==
    /\ call = None
    /\ balance[Sender][token] >= amount
    /\ balance' = Transferred(balance, Sender, account, token, amount)
    /\ result' = None
    /\ UNCHANGED <<pools, locked, hasTreasury, call, before>>

\* PoolStore.releaseTokenToProtocolTreasury, for the router or a pool, but not for the
\* two tokens of the pool
Treasurify(account, token) ==
    /\ call = None
    /\ hasTreasury
    /\ account \in PoolKeys => token \notin {account[1], account[2]}
    /\ LET available == balance[account][token]
           all == available + locked[account][token]
       IN  /\ all > 0
           /\ balance' = Transferred([balance EXCEPT ![account][token] = all],
                                     account, Treasury, token, all)
           /\ locked' = [locked EXCEPT ![account][token] = 0]
    /\ result' = None
    /\ UNCHANGED <<pools, hasTreasury, call, before>>

\* A configuration proposal names a treasury, or none.
SetFeeProtocolPool ==
    /\ call = None
    /\ hasTreasury' = ~hasTreasury
    /\ result' = None
    /\ UNCHANGED <<pools, balance, locked, call, before>>
===============================================================================
