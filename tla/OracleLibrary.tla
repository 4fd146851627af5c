----------------------------- MODULE OracleLibrary -----------------------------
(***************************************************************************)
(* What a reader makes of the observations of a pool: mean ticks, the age  *)
(* of the oldest observation, the tick a block started at.                 *)
(***************************************************************************)
EXTENDS Oracle, SequencesExt

CONSTANTS
    MaxInt24,   \* the largest value of an Int24
    Error       \* what throws

ASSUME OracleLibraryAssumption == MaxInt24 \in Nat

IsInt24(n) == n >= -MaxInt24 - 1 /\ n <= MaxInt24

\* Mutant: as the code's division rounds.
TowardsZero(a, b) == TruncDiv(a, b)
\* Towards minus infinity: one less where the division has cut off a negative rest
RoundedDown(a, b) == TruncDiv(a, b) - IF a < 0 /\ a % b # 0 THEN 1 ELSE 0

\* consult, of the cumulatives secondsAgo and now. The difference becomes an Int24
\* before it is divided, which throws if it is too large.
ArithmeticMeanTick(before, now, secondsAgo) ==
    LET delta == now.tick - before.tick
    IN  IF secondsAgo = 0 \/ ~IsInt24(delta) THEN Error ELSE RoundedDown(delta, secondsAgo)

\* The harmonic mean of the liquidity over a time (consult, and at the start of a block)
HarmonicMean(seconds, difference) ==
    ((seconds * (SecondsRange - 1)) \div ((difference % SecondsRange) * TimeUnit)) % OneX128

HarmonicMeanLiquidity(before, now, secondsAgo) ==
    HarmonicMean(secondsAgo, now.seconds - before.seconds)

\* getWeightedArithmeticMeanTick, of a sequence of [tick, weight]
WeightedMeanTick(data) ==
    LET sum(F(_)) == FoldLeft(LAMBDA acc, d : acc + F(d), 0, data)
    IN  RoundedDown(sum(LAMBDA d : d.tick * d.weight), sum(LAMBDA d : d.weight))

\* getOldestObservationSecondsAgo
OldestSecondsAgo(ring, time) ==
    IF ring.cardinality = 0 THEN Error ELSE Elapsed(Oldest(ring).blockTimestamp, time)

PreviousOf(ring) == At(ring, (ring.index + ring.cardinality - 1) % ring.cardinality)

\* getBlockStartingTickAndLiquidity: if the block has an observation, the one before it
\* tells what lasted until the block.
BlockStart(ring, time, tick, liquidity) ==
    LET last == At(ring, ring.index)
        previous == PreviousOf(ring)
        delta == Elapsed(previous.blockTimestamp, last.blockTimestamp)
    IN  IF ring.cardinality <= 1 THEN Error
        ELSE IF last.blockTimestamp # time THEN [tick |-> tick, liquidity |-> liquidity]
        ELSE IF ~previous.initialized \/ ~IsInt24(last.tickCumulative) THEN Error
        ELSE [tick |-> TruncDiv(last.tickCumulative - previous.tickCumulative, delta),
              liquidity |-> HarmonicMean(delta,
                                last.secondsPerLiquidity - previous.secondsPerLiquidity)]
===============================================================================
