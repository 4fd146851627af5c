---------------------------- MODULE MCTokenModules ----------------------------
(***************************************************************************)
(* Instances of TokenModules for TLC.                                      *)
(***************************************************************************)
EXTENDS TokenModules

CONSTANTS alice, bob, nobody

Item(a, n, vesting) == [recipientAddress |-> a, amount |-> n, vesting |-> vesting]
At(h, n) == [height |-> h, amount |-> n]

GenesisBalance == [id \in TokenIds |-> [a \in Holders |-> IF id = 0 /\ a = alice THEN 2 ELSE 0]]
GenesisStake == [a \in Holders |-> IF a = bob THEN 1 ELSE 0]
NoStake == [a \in Holders |-> 0]
NoAttributes == {<<>>}
StakeByOne == {1, -1}
TwoNumbers == [n \in 0 .. 1 |-> n]
TwoScales == [n \in 0 .. 1 |-> 10]

\* An amount that vests in two parts, and two amounts for one holder that vest at
\* one height; a part that vests at the height of the block is not locked.
VestingDistributions ==
    {<<Item(bob, 2, <<At(2, 1), At(3, 1)>>)>>,
     <<Item(alice, 1, <<>>), Item(bob, 1, <<At(3, 1)>>), Item(bob, 1, <<At(3, 1)>>)>>}

\* Token 3 is sold for the native token; token 2 is the liquid staking token.
Pool == <<0, 3>>
WithPool == {alice, bob, Pool}
OnePool == {Pool}
SaleBalance == [id \in TokenIds |-> [a \in Holders |->
    CASE id = 0 /\ a = bob -> 3 [] id < 2 /\ a = Pool -> 1 [] OTHER -> 0]]
SaleDistributions == {<<Item(alice, 3, <<>>)>>}
To(a, n) == [address |-> a, amountDelta |-> n]
\* A list that has alice, who may be its provider, twice, and an edit of it
SaleAirdrops == {<<To(alice, 1), To(bob, 1), To(alice, 1)>>}
SaleEdits == {<<To(alice, -1), To(alice, 1)>>}
\* Amounts of two digits, of which a Number holds 1 and 2 and the even ones.
TwoDigits == [n \in 0 .. 99 |-> IF n > 2 THEN n + (n % 2) ELSE n]
TwoDigitScales == [n \in 0 .. 99 |-> IF n < 10 THEN 10 ELSE 1]
\* A key of the creation that is set again.
Site(page) == [key |-> "site", attributes |-> page]
SaleArrays == {<<Site("a")>>}
SaleAttributes == {Site("b")}
\* A little more than two, and two thirds.
SalePrices == {[num |-> 11, den |-> 5], [num |-> 2, den |-> 3]}
===============================================================================
