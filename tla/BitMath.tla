-------------------------------- MODULE BitMath --------------------------------
(***************************************************************************)
(* Bits of a word, a natural number below 2^WordSize: the highest and the  *)
(* lowest one that is set, found by halves, and how many there are. Words  *)
(* have 16 bits at the most, where those of the code have 256: four halves *)
(* in the place of eight.                                                  *)
(***************************************************************************)
EXTENDS BigIntBase, SequencesExt

CONSTANT WordSize   \* stands for 256

ASSUME BitMathAssumption == WordSize \in 1 .. 16

\* A word with only this bit set
Mask(bit) == 2^bit

\* Uint256
Bitmaps == 0 .. Mask(WordSize) - 1

\* The highest bit is in the upper half of 2 * half bits, or in the lower one.
Upper(acc, half) ==
    IF acc.x >= Mask(half) THEN [x |-> ShiftedRight(acc.x, half), r |-> acc.r + half] ELSE acc

\* mostSignificantBit
MostSignificantBit(value) ==
    Upper(Upper(Upper(Upper([x |-> value, r |-> 0], 8), 4), 2), 1).r

\* The lowest bit is in the lower half, or in the upper one.
Lower(acc, half) ==
    IF acc.x % Mask(half) > 0 THEN [acc EXCEPT !.r = @ - half]
                          ELSE [acc EXCEPT !.x = ShiftedRight(@, half)]

\* leastSignificantBit
LeastSignificantBit(value) ==
    Lower(Lower(Lower(Lower([x |-> value, r |-> 15], 8), 4), 2), 1).r

\* countOneBits: x and x - 1 have all bits of x but the lowest in common.
CountOneBits[x \in Bitmaps] ==
    IF x = 0 THEN 0 ELSE 1 + CountOneBits[x - Mask(LeastSignificantBit(x))]
===============================================================================
