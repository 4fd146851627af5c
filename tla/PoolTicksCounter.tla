---------------------------- MODULE PoolTicksCounter ----------------------------
(***************************************************************************)
(* What the quoter says of a swap besides its amounts: how many ticks with *)
(* liquidity it crosses, counted in the bitmap between the tick before and *)
(* the tick after. It rounds ticks towards zero where the bitmap rounds    *)
(* them down.                                                              *)
(***************************************************************************)
EXTENDS TickBitmap

\* The bits of a word between two positions, each a compressed tick
MaskedWord(bitmap, w, lower, higher) ==
    LET from == IF w = WordPos(lower) THEN FromBit(bitmap[w], BitPos(lower)) ELSE bitmap[w]
    IN  IF w = WordPos(higher) THEN UpToBit(from, BitPos(higher)) ELSE from

\* Whether the bit of a tick is counted although the tick is where a swap begins or ends
IsAtTick(bitmap, t) == IsSet(bitmap, Quotient(t, TickSpacing)) /\ Remainder(t, TickSpacing) = 0

\* Mutant: a tick counts as crossed wherever the swap ends.
NotCrossedAtStart(bitmap, before, after) ==
    IF before < after /\ IsAtTick(bitmap, before) THEN 1 ELSE 0
\* A swap upwards has crossed the tick it begins at before; a swap downwards does not
\* cross the one it ends at.
NotCrossed(bitmap, before, after) ==
    IF \/ after < before /\ IsAtTick(bitmap, after)
       \/ before < after /\ IsAtTick(bitmap, before)
    THEN 1 ELSE 0

\* countInitializedTicksCrossed
CountInitializedTicksCrossed(bitmap, before, after) ==
    LET ends == {Quotient(before, TickSpacing), Quotient(after, TickSpacing)}
        Count(w) == CountOneBits[MaskedWord(bitmap, w, Min(ends), Max(ends))]
    IN  MapThenSumSet(Count, WordPos(Min(ends)) .. WordPos(Max(ends)))
            - NotCrossed(bitmap, before, after)
===============================================================================
