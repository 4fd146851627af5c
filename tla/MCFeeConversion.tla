---------------------------- MODULE MCFeeConversion ----------------------------
(***************************************************************************)
(* Instances of FeeConversion for TLC.                                     *)
(***************************************************************************)
EXTENDS FeeConversion

CONSTANT Provider   \* of the ICOs

\* Two ticks, a price of 64 between them is one to one.
TwoTicks == [t \in 0 .. 1 |-> IF t = 0 THEN 32 ELSE 128]

Command(name, exactInput, path, amount, recipient, bound, limit, tokenOut) ==
    [name |-> name, exactInput |-> exactInput, payer |-> Sender, path |-> path, amount |-> amount,
     recipient |-> recipient, bound |-> bound, limit |-> limit, tokenOut |-> tokenOut]
In(path, amount, recipient, bound) == Command("exactInput", TRUE, path, amount, recipient, bound, None, None)
Out(path, amount, recipient, bound) == Command("exactOutput", FALSE, path, amount, recipient, bound, None, None)
InSingle(path, amount, recipient, bound, limit) ==
    Command("exactInputSingle", TRUE, path, amount, recipient, bound, limit, None)
OutSingle(path, amount, recipient, bound, limit) ==
    Command("exactOutputSingle", FALSE, path, amount, recipient, bound, limit, None)
Buy(swap, tokenOut) ==
    [swap EXCEPT !.tokenOut = tokenOut, !.name = IF swap.exactInput THEN "icoExactInput" ELSE "icoExactOutput"]
BuySingle(swap, tokenOut) ==
    [swap EXCEPT !.tokenOut = tokenOut,
                 !.name = IF swap.exactInput THEN "icoExactInputSingle" ELSE "icoExactOutputSingle"]
Send(token, amount, recipient) == Command("transfer", TRUE, <<token>>, amount, recipient, 0, None, None)

\* A base fee of its own for one command
SomeFees == [name \in SwapNames \cup PurchaseNames |-> 10]
SomeBaseFees == [SomeFees EXCEPT !["icoExactOutputSingle"] = 20]

\* Three tokens, two tiers for those of the native one, and little to get for 3 directly
Triangle == {<<1, 2, 10>>, <<1, 2, 20>>, <<2, 3, 10>>, <<1, 3, 10>>, <<1, 3, 20>>}
TriangleDepth == [k \in Triangle |-> IF k[2] = 3 /\ k[1] = 1 THEN 60 ELSE 400]
EvenPrices == [k \in PoolKeys |-> 64]
Tiers == <<10, 20>>
OnePath == <<<<1, 10, 2>>>>
SomeWealth == [t \in Tokens |-> IF t = 1 THEN 100 ELSE 250]

\* Token 4 is sold, for token 2 and dearer for token 3.
TwoICOs ==
    (<<2, 4>> :> [price |-> [num |-> 3, den |-> 2], providerAddress |-> Provider])
    @@ (<<3, 4>> :> [price |-> [num |-> 4, den |-> 1], providerAddress |-> Provider])
\* Amounts of three digits, of which a Number holds those up to 64 and the even ones
ThreeDigits == [n \in 0 .. 999 |-> IF n > 64 THEN n + (n % 2) ELSE n]
ThreeDigitScales == [n \in 0 .. 999 |-> IF n < 10 THEN 100 ELSE IF n < 100 THEN 10 ELSE 1]
SomeHoldings ==
    [a \in DOMAIN TwoICOs \cup {Sender, Provider} |->
        IF a = Sender THEN [SomeWealth EXCEPT ![4] = 0]
        ELSE IF a = Provider THEN NoTokens ELSE [NoTokens EXCEPT ![4] = 40]]
Purchases == {
    Buy(In(<<3, 10, 2>>, 30, Sender, 10), 4),
    Buy(In(<<2, 10, 3>>, 200, Sender, 0), 4),
    Buy(In(<<3>>, 91, Provider, 0), 4),
    BuySingle(In(<<3>>, 81, Sender, 0), 4),
    Buy(Out(<<2, 10, 3>>, 20, Sender, 250), 4),
    Buy(Out(<<2, 10, 3>>, 20, Sender, 35), 4),
    Buy(Out(<<2, 20, 1>>, 30, Sender, 90), 4),
    BuySingle(Out(<<2>>, 30, Sender, 0), 4),
    Buy(Out(<<2>>, 30, Sender, 0), 4)}
Routes == {
    InSingle(<<2, 10, 3>>, 40, Sender, 30, 60),
    In(<<3, 10, 2, 10, 1>>, 60, Sender, 40),
    In(<<3, 10, 1, 20, 2>>, 90, Zero, 0),
    In(<<2, 20, 1, 20, 2>>, 50, Sender, 20),
    In(<<3, 10, 2, 30, 1>>, 20, Sender, 0),
    Out(<<2, 10, 1>>, 40, Sender, 50),
    OutSingle(<<3, 10, 1>>, 90, Sender, 400, 44),
    Out(<<3, 10, 2, 20, 1>>, 30, Sender, 60),
    Out(<<1, 10, 2, 10, 3>>, 60, Sender, 120),
    Out(<<1, 10, 3>>, 40, Sender, 120),
    Out(<<2, 10, 1, 10, 3, 10, 2, 10, 1>>, 10, Sender, 60)}
\* Small and large, all that there is of a token, to an ICO that lacks what it sells, and
\* those that are no swap or are refused
Transfers == {
    Send(3, 30, <<1, 3, 10>>),
    Send(2, 240, <<1, 2, 20>>),
    Send(1, 100, <<1, 2, 20>>),
    Send(2, 45, <<2, 4>>),
    Send(3, 200, <<3, 4>>),
    Send(2, 50, <<1, 3, 10>>),
    Send(1, 20, Provider),
    Send(3, 20, Router)}

AllCommands == Routes \cup Purchases \cup Transfers

SomeDonations == {<<Router, 1, 20>>, <<Router, 3, 20>>, <<<<1, 3, 10>>, 2, 20>>}
===============================================================================
