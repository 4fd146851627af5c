------------------------------- MODULE IcoQuoter -------------------------------
(***************************************************************************)
(* What an ICO pool takes and gives at its price, which is an amount of    *)
(* tokenIn per tokenOut, kept as a decimal number and here as a fraction   *)
(* [num, den]. An amount is a uint64, but on its way into the quote it is  *)
(* a Number of JavaScript, which is a double.                              *)
(***************************************************************************)
EXTENDS Integers

CONSTANTS
    MaxAmount,  \* stands for 2^64 - 1, the largest amount
    Exact,      \* stands for 2^53: a Number holds every amount up to it
    AsNumber,   \* per amount, what new Decimal(Number(amount)) reads it as: the
                \* shortest decimal of the nearest double
    Scales      \* per integer part of a result of decimal.js, 10^d if 20 digits
                \* leave d decimals to it: 1 or at least 10

\* The amount is rounded to a double, and the double to its shortest decimal.
NumbersAreClose ==
    \A n \in 0 .. MaxAmount :
        /\ n <= Exact => AsNumber[n] = n
        /\ Exact * (AsNumber[n] - n) <= 2 * n /\ Exact * (n - AsNumber[n]) <= 2 * n
        /\ \A m \in 0 .. n : AsNumber[m] <= AsNumber[n]

ASSUME IcoQuoterAssumption ==
    /\ MaxAmount \in Nat /\ Exact \in Nat \ {0}
    /\ AsNumber \in [0 .. MaxAmount -> Nat] /\ NumbersAreClose
    /\ DOMAIN Scales = 0 .. MaxAmount
    /\ \A n \in 0 .. MaxAmount : Scales[n] \in Nat /\ (Scales[n] = 1 \/ Scales[n] >= 10)

\* new Decimal(Number(amount)). No transfer is of more than MaxAmount.
Read(amount) == IF amount <= MaxAmount THEN AsNumber[amount] ELSE amount
Scale(part) == IF part <= MaxAmount THEN Scales[part] ELSE 1

\* A fraction that is not negative, rounded half up
HalfUp(num, den) == (2 * num + den) \div (2 * den)

\* mul or div of decimal.js, which keeps 20 digits, and then toFixed(0)
Rounded(num, den) ==
    LET scale == Scale(num \div den) IN HalfUp(HalfUp(scale * num, den), scale)

\* Mutant: the price is the amount of tokenOut per tokenIn.
MultipliedQuote(price, amountIn) == Rounded(Read(amountIn) * price.num, price.den)
\* ICOQuoter.quoteExactInputSingle
QuoteExactInputSingle(price, amountIn) == Rounded(Read(amountIn) * price.den, price.num)
\* ICOQuoter.quoteExactOutputSingle
QuoteExactOutputSingle(price, amountOut) == Rounded(Read(amountOut) * price.num, price.den)

-------------------------------------------------------------------------------
(* How far a quote may be from the price *)

\* What an amount is worth if its Number need not be exact
BeyondNumber(amount, rate) == IF amount > Exact THEN amount * rate ELSE 0

\* Each quote is off by at most eleven twentieths of a token of either side, half of one
\* by the rounding and the rest by the digits before it; the amounts that are no exact
\* Number, of this worth, by two parts in Exact.
WithinRounding(price, gap, quotes, inexact) ==
    LET unit == IF price.num > price.den THEN price.num ELSE price.den
    IN  \A side \in {gap, -gap} : Exact * (20 * side - 11 * quotes * unit) <= 40 * inexact
===============================================================================
