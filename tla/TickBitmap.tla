------------------------------- MODULE TickBitmap -------------------------------
(***************************************************************************)
(* The bitmap of the ticks of a pool that have liquidity: words of bits,   *)
(* one bit for each multiple of the tick spacing, compressed by it. A word *)
(* that was never stored is 0.                                             *)
(***************************************************************************)
EXTENDS BitMath, PoolMath

CONSTANT TickSpacing

ASSUME TickBitmapAssumption == TickSpacing \in Nat \ {0}

\* Rounded towards minus infinity: the quotient is corrected.
Compressed(t) ==
    Quotient(t, TickSpacing) - (IF t < 0 /\ Remainder(t, TickSpacing) # 0 THEN 1 ELSE 0)

\* position
WordPos(compressed) == compressed \div WordSize
BitPos(compressed) == Remainder(compressed, WordSize)

Words == WordPos(Compressed(MinTick)) .. WordPos(Compressed(MaxTick) + 1)
NoBits == [w \in Words |-> 0]

HasBit(word, bit) == (word \div Mask(bit)) % 2 = 1
IsSet(bitmap, compressed) == HasBit(bitmap[WordPos(compressed)], BitPos(compressed))

\* flipTick, of a multiple of the tick spacing
Flipped(bitmap, t) ==
    LET c == Quotient(t, TickSpacing)
    IN  [bitmap EXCEPT ![WordPos(c)] = IF HasBit(@, BitPos(c)) THEN @ - Mask(BitPos(c)) ELSE @ + Mask(BitPos(c))]

\* Masks that keep the bits up to one, or those from it on
UpToBit(word, bit) == word % Mask(bit + 1)
FromBit(word, bit) == word - (word % Mask(bit))

\* nextInitializedTickWithinOneWord
NextInitialized(bitmap, t, lte) ==
    LET c == IF lte THEN Compressed(t) ELSE Compressed(t) + 1
        bit == BitPos(c)
        word == bitmap[WordPos(c)]
        masked == IF lte THEN UpToBit(word, bit) ELSE FromBit(word, bit)
        to == IF lte THEN IF masked # 0 THEN MostSignificantBit(masked) ELSE 0
                     ELSE IF masked # 0 THEN LeastSignificantBit(masked) ELSE WordSize - 1
    IN  [tick |-> (c + to - bit) * TickSpacing, initialized |-> masked # 0]
===============================================================================
