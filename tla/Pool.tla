--------------------------------- MODULE Pool ---------------------------------
(***************************************************************************)
(* A dex pool of two tokens, 0 and 1: the price and the tick it is in, the *)
(* liquidity in range, the ticks at which liquidity begins and ends, the   *)
(* positions, and the tokens of the pool. A mint, a burn and a collect are *)
(* made by the position manager. A swap is a loop: one step per iteration. *)
(* It runs within one transaction, so nothing else happens in between, and *)
(* what throws at its end undoes all of it.                                *)
(***************************************************************************)
EXTENDS PoolTicksCounter

CONSTANTS
    Fee,                    \* of the pool
    MaxLiquidityPerTick,
    FeeProtocol,            \* the denominators of the protocol's share, or 0
    InitBalance,            \* at the address of the pool before it is created
    Prices,                 \* prices a pool is created at
    Ranges,                 \* the ranges <<lower, upper>> that are used
    None

Tokens == {0, 1}

\* _validateFeeProtocol, of a configuration
ValidFeeProtocol == \A i \in Tokens : FeeProtocol[i] \in {0} \cup (4 .. 10)

\* _checkTicks, and flipTick, which takes multiples of the tick spacing only
CheckTicks(range) ==
    /\ range[1] < range[2]
    /\ range[1] \in Ticks /\ Remainder(range[1], TickSpacing) = 0
    /\ range[2] \in Ticks /\ Remainder(range[2], TickSpacing) = 0

ASSUME PoolAssumption ==
    /\ Fee \in 0 .. FeeUnit - 1
    /\ MaxLiquidityPerTick \in 0 .. Q128 - 1
    /\ DOMAIN FeeProtocol = Tokens /\ ValidFeeProtocol
    /\ InitBalance \in [Tokens -> Nat]
    /\ Prices \subseteq MinRatio .. MaxRatio - 1
    /\ Ranges \subseteq Ticks \X Ticks
    /\ \A range \in Ranges : CheckTicks(range)

VARIABLES
    slot0,      \* [sqrtPrice, tick]; no tick before the pool is created
    liquidity,  \* in range
    feeGrowth,  \* feeGrowthGlobal, per token
    ticks,      \* TickInfo; a tick that is cleared has the default again
    bitmap,     \* see TickBitmap
    positions,  \* PositionInfo by key; all of them belong to the position manager
    balance,    \* available balance of the pool, per token
    swap        \* the local state of a swap in progress, or None, and how many ticks it
                \* has crossed, which only the quoter tells

poolVars == <<slot0, liquidity, feeGrowth, ticks, bitmap, positions, balance, swap>>

Zero == [i \in Tokens |-> 0]
TickInfos == [liquidityGross : Nat, liquidityNet : Int, outside : [Tokens -> Int]]
NoTick == [liquidityGross |-> 0, liquidityNet |-> 0, outside |-> Zero]
PositionInfos == [liquidity : Nat, insideLast : [Tokens -> Int], tokensOwed : [Tokens -> Int]]
NoPosition == [liquidity |-> 0, insideLast |-> Zero, tokensOwed |-> Zero]

\* Position.positionKey, but for the owner: the two ticks in decimal, one after the
\* other.
PositionKey(range) == ToString(range[1]) \o ToString(range[2])

\* The local state of DEXPool.swap
Swaps == [zeroForOne : BOOLEAN, specified : Int, limit : Nat, unlimited : BOOLEAN,
          byTransfer : BOOLEAN, remaining : Int, amountIn : Int, amountOut : Int, crossed : Nat,
          sqrtPrice : Nat, tick : Ticks, feeGrowth : Int, protocolFee : Int,
          liquidity : Nat, ticksBefore : [Ticks -> TickInfos]]

ASSUME NoSwapAssumption == None \notin Swaps

IsCreated == slot0.sqrtPrice # 0
Idle == IsCreated /\ swap = None

PoolInit ==
    /\ slot0 = [sqrtPrice |-> 0, tick |-> None]
    /\ liquidity = 0
    /\ feeGrowth = Zero
    /\ ticks = [t \in Ticks |-> NoTick]
    /\ bitmap = NoBits
    /\ positions = [key \in {PositionKey(r) : r \in Ranges} |-> NoPosition]
    /\ balance = InitBalance
    /\ swap = None

\* PoolStore.createPool, which clears the address of tokens, and initialize
CreatePool(price) ==
    /\ ~IsCreated
    /\ slot0' = [sqrtPrice |-> price, tick |-> TickAtSqrtRatio(price)]
    /\ balance' = Zero
    /\ UNCHANGED <<liquidity, feeGrowth, ticks, bitmap, positions, swap>>

-------------------------------------------------------------------------------
(* Ticks *)

\* The tick a swap goes to, within the bounds the pool puts on it
NextTick(t, lte) ==
    LET next == NextInitialized(bitmap, t, lte)
    IN  [next EXCEPT !.tick = IF @ < MinTick THEN MinTick ELSE IF @ > MaxTick THEN MaxTick ELSE @]

\* Liquidity begins at the lower tick of a range and ends at the upper one.
NetAfter(t, range, delta) ==
    ticks[t].liquidityNet + IF t = range[2] THEN -delta ELSE delta

\* By convention, all growth before a tick is initialized happened below it.
OutsideAfter(t) ==
    IF ticks[t].liquidityGross = 0 /\ t <= slot0.tick THEN feeGrowth ELSE ticks[t].outside

\* Tick.update
UpdatedTick(t, range, delta) ==
    [liquidityGross |-> ticks[t].liquidityGross + delta,
     liquidityNet |-> NetAfter(t, range, delta),
     outside |-> OutsideAfter(t)]

\* Mutant: the bit changes only when liquidity comes to the tick.
IsInitialized(t, delta) == ticks[t].liquidityGross = 0 /\ delta # 0
\* Whether the gross liquidity becomes or ceases to be zero
IsFlipped(t, delta) ==
    (ticks[t].liquidityGross + delta = 0) # (ticks[t].liquidityGross = 0)

\* The ticks while a position is updated
TicksAfter(range, delta) ==
    IF delta = 0 THEN ticks
    ELSE [t \in Ticks |-> IF t \in {range[1], range[2]} THEN UpdatedTick(t, range, delta) ELSE ticks[t]]

\* And then: what a burn has emptied is cleared.
TicksCleared(range, delta) ==
    [t \in Ticks |->
        IF delta < 0 /\ t \in {range[1], range[2]} /\ IsFlipped(t, delta)
        THEN NoTick ELSE TicksAfter(range, delta)[t]]

\* TickBitmap.flipTick at both ends
BitmapAfter(range, delta) ==
    LET FlippedIf(bits, t) == IF IsFlipped(t, delta) THEN Flipped(bits, t) ELSE bits
    IN  FlippedIf(FlippedIf(bitmap, range[1]), range[2])

\* Tick.getFeeGrowthInside
FeeGrowthInside(infos, range) ==
    LET below(i) == IF slot0.tick >= range[1] THEN infos[range[1]].outside[i]
                    ELSE feeGrowth[i] - infos[range[1]].outside[i]
        above(i) == IF slot0.tick < range[2] THEN infos[range[2]].outside[i]
                    ELSE feeGrowth[i] - infos[range[2]].outside[i]
    IN  [i \in Tokens |-> Wrap256(feeGrowth[i] - below(i) - above(i))]

-------------------------------------------------------------------------------
(* Positions *)

\* Position.update: fees since the last touch are owed from now on.
UpdatedPosition(position, delta, inside) ==
    [liquidity |-> position.liquidity + delta,
     insideLast |-> inside,
     tokensOwed |-> [i \in Tokens |-> Wrap128(position.tokensOwed[i] +
        MulDiv(Wrap256(inside[i] - position.insideLast[i]), position.liquidity, Q128))]]

\* The position of a range after DEXPool._updatePosition
PositionAfter(range, delta) ==
    UpdatedPosition(positions[PositionKey(range)], delta,
                    FeeGrowthInside(TicksAfter(range, delta), range))

\* What the liquidity of a range is worth at the present price, rounded up for the
\* one who mints it and down for the one who burns it (_modifyPosition).
AmountsOf(range, amount, up) ==
    LET a == SqrtRatio[range[1]]
        b == SqrtRatio[range[2]]
        price == slot0.sqrtPrice
        amount0 == IF slot0.tick < range[1] THEN Amount0(a, b, amount, up)
                   ELSE IF slot0.tick < range[2] THEN Amount0(price, b, amount, up)
                   ELSE 0
        amount1 == IF slot0.tick < range[1] THEN 0
                   ELSE IF slot0.tick < range[2] THEN Amount1(a, price, amount, up)
                   ELSE Amount1(a, b, amount, up)
    IN  [i \in Tokens |-> IF i = 0 THEN amount0 ELSE amount1]

Covers(range, t) == range[1] <= t /\ t < range[2]

\* What a mint and a burn do to the pool, apart from positions and balance
ModifyLiquidity(range, delta) ==
    /\ liquidity' = liquidity + IF Covers(range, slot0.tick) THEN delta ELSE 0
    /\ ticks' = TicksCleared(range, delta)
    /\ bitmap' = BitmapAfter(range, delta)

\* DEXPool.mint, with the payment that its callback makes
Mint(range, amount) ==
    /\ amount > 0
    /\ \A t \in {range[1], range[2]} :
          ticks[t].liquidityGross + amount <= MaxLiquidityPerTick
    /\ ModifyLiquidity(range, amount)
    /\ positions' = [positions EXCEPT ![PositionKey(range)] = PositionAfter(range, amount)]
    /\ balance' = [i \in Tokens |-> balance[i] + AmountsOf(range, amount, TRUE)[i]]
    /\ UNCHANGED <<slot0, feeGrowth, swap>>

BurntAmounts(range, amount) == AmountsOf(range, amount, FALSE)

\* The position after DEXPool.burn, which owes what was burnt
BurntPosition(range, amount) ==
    LET position == PositionAfter(range, -amount)
    IN  [position EXCEPT !.tokensOwed = [i \in Tokens |->
            Wrap128(@[i] + BurntAmounts(range, amount)[i])]]

\* DEXPool.burn of a positive amount
Burn(range, amount) ==
    /\ positions[PositionKey(range)].liquidity >= amount
    /\ \A t \in {range[1], range[2]} : ticks[t].liquidityGross >= amount
    /\ Covers(range, slot0.tick) => liquidity >= amount
    /\ ModifyLiquidity(range, -amount)
    /\ positions' = [positions EXCEPT ![PositionKey(range)] = BurntPosition(range, amount)]
    /\ UNCHANGED <<slot0, feeGrowth, balance, swap>>

\* DEXPool.collect: no more than is owed. The position may just have been poked.
CollectedAmounts(position, requested) ==
    [i \in Tokens |-> Min({requested[i], position.tokensOwed[i]})]

Collect(range, position, requested) ==
    LET amounts == CollectedAmounts(position, requested)
    IN  /\ \A i \in Tokens : balance[i] >= amounts[i]
        /\ balance' = [i \in Tokens |-> balance[i] - amounts[i]]
        /\ positions' = [positions EXCEPT ![PositionKey(range)] =
              [position EXCEPT !.tokensOwed = [i \in Tokens |-> @[i] - amounts[i]]]]
        /\ UNCHANGED <<slot0, liquidity, feeGrowth, ticks, bitmap, swap>>

-------------------------------------------------------------------------------
(* Swaps *)

TokenIn == IF swap.zeroForOne THEN 0 ELSE 1
TokenOut == 1 - TokenIn

\* The router puts in a limit if none is given.
Limit(zeroForOne, limit) ==
    IF limit # None THEN limit ELSE IF zeroForOne THEN MinRatio + 1 ELSE MaxRatio - 1

\* DEXPool.swap up to its loop. An amount is positive for an exact input. A swap by
\* transfer has been paid by a transfer to the pool before.
SwapStart(zeroForOne, amountSpecified, limit, byTransfer) ==
    LET bound == Limit(zeroForOne, limit)
        in == IF zeroForOne THEN 0 ELSE 1
    IN  /\ Idle
        /\ amountSpecified # 0
        /\ IF zeroForOne THEN bound < slot0.sqrtPrice /\ bound > MinRatio
                         ELSE bound > slot0.sqrtPrice /\ bound < MaxRatio
        /\ swap' = [zeroForOne |-> zeroForOne, specified |-> amountSpecified,
                    limit |-> bound, unlimited |-> limit = None, byTransfer |-> byTransfer,
                    remaining |-> amountSpecified, amountIn |-> 0, amountOut |-> 0, crossed |-> 0,
                    sqrtPrice |-> slot0.sqrtPrice, tick |-> slot0.tick,
                    feeGrowth |-> feeGrowth[in], protocolFee |-> 0,
                    liquidity |-> liquidity, ticksBefore |-> ticks]
        /\ balance' = IF byTransfer THEN [balance EXCEPT ![in] = @ + amountSpecified] ELSE balance
        /\ UNCHANGED <<slot0, liquidity, feeGrowth, ticks, bitmap, positions>>

SwapGoesOn == swap.remaining # 0 /\ swap.sqrtPrice # swap.limit

\* Mutant: a tick that is crossed downwards remains the current one.
ArrivedAt(t) == t
\* The tick after the price has reached that of tick t
TickBeyond(t) == IF swap.zeroForOne THEN t - 1 ELSE t

\* The liquidity that a crossing adds
NetCrossed(t) == IF swap.zeroForOne THEN -ticks[t].liquidityNet ELSE ticks[t].liquidityNet

\* Mutant: the growth outside of a tick stays on the side it was.
UncrossedOutside(t, growth) == ticks[t].outside
\* Tick.cross: what was outside of the tick is inside now.
CrossedOutside(t, growth) ==
    [i \in Tokens |-> Wrap256((IF i = TokenIn THEN growth ELSE feeGrowth[i]) - ticks[t].outside[i])]

\* The share of the protocol, at the denominator of its token
ShareOf(i, amount) == IF FeeProtocol[i] = 0 THEN 0 ELSE amount \div FeeProtocol[i]
ProtocolShare(feeAmount) == ShareOf(TokenIn, feeAmount)

FeeToPositions(feeAmount) == feeAmount - ProtocolShare(feeAmount)

\* One iteration, towards the tick next, with step from ComputeSwapStep
Iterate(next, step) ==
    LET growth == IF swap.liquidity = 0 THEN swap.feeGrowth
                  ELSE Wrap256(swap.feeGrowth +
                          MulDiv(FeeToPositions(step.feeAmount), Q128, swap.liquidity))
        arrived == step.sqrtPrice = SqrtRatio[next.tick]
        crossed == arrived /\ next.initialized
    IN  /\ swap' = [swap EXCEPT
              !.remaining = IF swap.specified > 0 THEN @ - step.amountIn - step.feeAmount
                                                  ELSE @ + step.amountOut,
              !.amountIn = @ + step.amountIn + step.feeAmount,
              !.amountOut = @ + step.amountOut,
              !.sqrtPrice = step.sqrtPrice,
              !.tick = IF arrived THEN TickBeyond(next.tick)
                       ELSE IF step.sqrtPrice # swap.sqrtPrice
                       THEN TickAtSqrtRatio(step.sqrtPrice) ELSE @,
              !.feeGrowth = growth,
              !.protocolFee = @ + ProtocolShare(step.feeAmount),
              !.crossed = @ + IF crossed THEN 1 ELSE 0,
              !.liquidity = @ + IF crossed THEN NetCrossed(next.tick) ELSE 0]
        /\ ticks' = IF crossed
                    THEN [ticks EXCEPT ![next.tick].outside = CrossedOutside(next.tick, growth)]
                    ELSE ticks
        /\ UNCHANGED <<slot0, liquidity, feeGrowth, bitmap, positions, balance>>

\* The price an iteration goes to, if the amount is enough: the next tick or the limit
Target(next) ==
    IF swap.zeroForOne THEN Max({SqrtRatio[next.tick], swap.limit})
                       ELSE Min({SqrtRatio[next.tick], swap.limit})

\* One iteration of the loop
SwapStep ==
    /\ swap # None
    /\ SwapGoesOn
    /\ \E next \in {NextTick(swap.tick, swap.zeroForOne)} :
       \E step \in {ComputeSwapStep(swap.sqrtPrice, Target(next), swap.liquidity, swap.remaining, Fee)} :
          Iterate(next, step)

\* The rest of the swap: the share of the protocol leaves the pool or is locked
\* there, which is before the pool is paid; then the output leaves, and the input
\* arrives, in a swap by transfer from the pool itself. Without a price limit an exact
\* output is given in full or not at all.
SwapEnd ==
    /\ swap # None
    /\ ~SwapGoesOn
    /\ swap.amountIn > 0
    /\ swap.specified < 0 /\ swap.unlimited => swap.amountOut = -swap.specified
    /\ balance[TokenIn] >= swap.protocolFee
    /\ balance[TokenOut] >= swap.amountOut
    /\ swap.byTransfer => balance[TokenIn] - swap.protocolFee >= swap.amountIn
    /\ balance' = [balance EXCEPT
          ![TokenIn] = @ - swap.protocolFee + IF swap.byTransfer THEN 0 ELSE swap.amountIn,
          ![TokenOut] = @ - swap.amountOut]
    /\ slot0' = [sqrtPrice |-> swap.sqrtPrice, tick |-> swap.tick]
    /\ liquidity' = swap.liquidity
    /\ feeGrowth' = [feeGrowth EXCEPT ![TokenIn] = swap.feeGrowth]
    /\ swap' = None
    /\ UNCHANGED <<ticks, bitmap, positions>>

\* A swap that throws after its loop: one of the conditions of SwapEnd fails, or the
\* one on the amounts that the sender gives, whatever they are.
SwapRevert ==
    /\ swap # None
    /\ ~SwapGoesOn
    /\ ticks' = swap.ticksBefore
    /\ balance' = IF swap.byTransfer THEN [balance EXCEPT ![TokenIn] = @ - swap.specified] ELSE balance
    /\ swap' = None
    /\ UNCHANGED <<slot0, liquidity, feeGrowth, bitmap, positions>>

-------------------------------------------------------------------------------
(* Flash loans *)

\* What a flash loan leaves to the positions
PaidToPositions(i, paid) == paid[i] - ShareOf(i, paid[i])

\* DEXPool.flash, for other modules only: a callback gives the loan back and pays for it,
\* as much as it likes above the fee.
Flash(loan, paid) ==
    /\ Idle
    /\ liquidity > 0
    /\ \A i \in Tokens :
          /\ balance[i] >= loan[i]
          /\ paid[i] >= MulDivUp(loan[i], Fee, FeeUnit)
    /\ balance' = [i \in Tokens |-> balance[i] + paid[i] - ShareOf(i, paid[i])]
    /\ feeGrowth' = [i \in Tokens |->
          Wrap256(feeGrowth[i] + MulDiv(PaidToPositions(i, paid), Q128, liquidity))]
    /\ UNCHANGED <<slot0, liquidity, ticks, bitmap, positions, swap>>
===============================================================================
