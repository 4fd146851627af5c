------------------------------- MODULE PoolMath -------------------------------
(***************************************************************************)
(* The arithmetic of a dex pool: amounts and prices in fixed point, the    *)
(* same rounding as the code, with small numbers for 2^96 and 2^128 and a  *)
(* table for the square root of 1.0001^tick. The branches for products     *)
(* above 2^256 are left out.                                               *)
(***************************************************************************)
EXTENDS BigIntBase, FiniteSetsExt

CONSTANTS
    MinTick,    \* MIN_TICK
    MaxTick,    \* MAX_TICK
    SqrtRatio,  \* getSqrtRatioAtTick, for every tick
    Q96,        \* stands for 2^96
    Q128,       \* stands for 2^128
    FeeUnit     \* stands for 1000000: a fee is a number of parts of it

Ticks == MinTick .. MaxTick

ASSUME PoolMathAssumption ==
    /\ MinTick \in Int /\ MaxTick \in Int /\ MinTick < MaxTick
    /\ SqrtRatio \in [Ticks -> Nat \ {0}]
    /\ \A t, u \in Ticks : t < u => SqrtRatio[t] < SqrtRatio[u]
    /\ Q96 \in Nat \ {0} /\ Q128 \in Nat \ {0}
    /\ FeeUnit \in Nat \ {0}

MinRatio == SqrtRatio[MinTick]
MaxRatio == SqrtRatio[MaxTick]

\* getTickAtSqrtRatio
TickAtSqrtRatio(price) == Max({t \in Ticks : SqrtRatio[t] <= price})

MulDiv(a, b, d) == (a * b) \div d
MulDivUp(a, b, d) == (a * b + d - 1) \div d

\* Fee growth and what is multiplied by it, uint256 and uint128, wrap around.
Wrap256(n) == Hof(n, 0, Q128 * Q128 - 1)
Wrap128(n) == Hof(n, 0, Q128 - 1)

\* getAmount0DeltaHelper, between prices a <= b
Amount0(a, b, liquidity, up) ==
    IF up THEN (MulDivUp(liquidity * Q96, b - a, b) + a - 1) \div a
          ELSE MulDiv(liquidity * Q96, b - a, b) \div a

\* getAmount1DeltaHelper
Amount1(a, b, liquidity, up) ==
    IF up THEN MulDivUp(liquidity, b - a, Q96) ELSE MulDiv(liquidity, b - a, Q96)

\* getNextSqrtPriceFromInput: away from the old price no further than what is paid.
PriceFromInput(price, liquidity, amount, zeroForOne) ==
    IF zeroForOne
    THEN MulDivUp(liquidity * Q96, price, liquidity * Q96 + amount * price)
    ELSE price + MulDiv(amount, Q96, liquidity)

\* getNextSqrtPriceFromOutput: as far as is needed for what is given out.
PriceFromOutput(price, liquidity, amount, zeroForOne) ==
    IF zeroForOne
    THEN price - MulDivUp(amount, Q96, liquidity)
    ELSE MulDivUp(liquidity * Q96, price, liquidity * Q96 - amount * price)

\* What an exact input leaves for the exchange itself
LessFee(remaining, fee) == MulDiv(remaining, FeeUnit - fee, FeeUnit)

\* SwapMath.computeSwapStep. A remaining amount is negative for an exact output.
ComputeSwapStep(current, target, liquidity, remaining, fee) ==
    LET zeroForOne == current >= target
        exactIn == remaining >= 0
        In(p) == IF zeroForOne THEN Amount0(p, current, liquidity, TRUE)
                               ELSE Amount1(current, p, liquidity, TRUE)
        Out(p) == IF zeroForOne THEN Amount1(p, current, liquidity, FALSE)
                                ELSE Amount0(current, p, liquidity, FALSE)
        reached == IF exactIn THEN LessFee(remaining, fee) >= In(target)
                              ELSE -remaining >= Out(target)
        next == IF reached THEN target
                ELSE IF exactIn
                THEN PriceFromInput(current, liquidity, LessFee(remaining, fee), zeroForOne)
                ELSE PriceFromOutput(current, liquidity, -remaining, zeroForOne)
    IN  [sqrtPrice |-> next,
         amountIn  |-> In(next),
         amountOut |-> IF exactIn THEN Out(next) ELSE Min({Out(next), -remaining}),
         feeAmount |-> IF exactIn /\ next # target
                       THEN remaining - In(next)
                       ELSE MulDivUp(In(next), fee, FeeUnit - fee)]

LiquidityForAmount0(a, b, amount) == MulDiv(amount, MulDiv(a, b, Q96), b - a)
LiquidityForAmount1(a, b, amount) == MulDiv(amount, Q96, b - a)

\* LiquidityAmounts.getLiquidityForAmounts
LiquidityForAmounts(price, a, b, amount0, amount1) ==
    IF price <= a THEN LiquidityForAmount0(a, b, amount0)
    ELSE IF price < b
    THEN Min({LiquidityForAmount0(price, b, amount0), LiquidityForAmount1(a, price, amount1)})
    ELSE LiquidityForAmount1(a, b, amount1)

AmountForLiquidity0(a, b, liquidity) == MulDiv(liquidity * Q96, b - a, b) \div a
AmountForLiquidity1(a, b, liquidity) == MulDiv(liquidity, b - a, Q96)

\* LiquidityAmounts.getAmountsForLiquidity: what liquidity is worth, as it is reported
AmountsForLiquidity(price, a, b, liquidity) ==
    LET within == IF price <= a THEN a ELSE IF price < b THEN price ELSE b
    IN  <<AmountForLiquidity0(within, b, liquidity), AmountForLiquidity1(a, within, liquidity)>>
===============================================================================
