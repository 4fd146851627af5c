--------------------------- MODULE MCPositionManager ---------------------------
(***************************************************************************)
(* Instances of PositionManager for TLC.                                   *)
(***************************************************************************)
EXTENDS PositionManager

CONSTANTS alice, nobody

LowestTick == -3
\* Prices that grow by a quarter per tick, 16 at tick 0.
Quarter == [t \in -3 .. 3 |-> <<8, 10, 13, 16, 20, 25, 32>>[t + 4]]
AtOrigin == {16}
NoTokens == [i \in {0, 1} |-> 0]
SomeTokens == [i \in {0, 1} |-> 3]
NoProtocolFee == [i \in {0, 1} |-> 0]
ProtocolFee == [i \in {0, 1} |-> IF i = 0 THEN 4 ELSE 0]
Both(n) == [i \in {0, 1} |-> n]
DesiredEight == {Both(8)}
RequestAll == {Both(100)}
ThreeRanges == {<<-2, 2>>, <<-2, 0>>, <<0, 2>>}
BothWays == {9, -3}
\* A loan of token 1 that pays above its fee
OneLoan == {[lent |-> [i \in {0, 1} |-> 2 * i], paid |-> [i \in {0, 1} |-> 8 - 3 * i]]}

\* Two ranges whose ticks are the same digits in a row, -1 10 and -11 0
LowTick == -11
Steady == [t \in -11 .. 10 |-> 40 + 3 * t]
BelowOrigin == {38}
SameDigits == {<<-1, 10>>, <<-11, 0>>}
DesiredMany == {Both(400)}
OneWay == {120}
NoLoans == {}
Plenty == {Both(1000)}
===============================================================================
