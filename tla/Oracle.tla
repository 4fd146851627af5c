-------------------------------- MODULE Oracle --------------------------------
(***************************************************************************)
(* The price oracle of a dex pool: a ring of observations, at most one per *)
(* timestamp, that grows when it is asked to and then wraps. Timestamps    *)
(* have 32 bits and wrap too. Cumulative ticks have room for 2500 years    *)
(* and are not cut; cumulative seconds per liquidity have 160 bits.        *)
(***************************************************************************)
EXTENDS Integers, FiniteSetsExt

CONSTANTS
    TimeUnit,   \* stands for 2^32
    OneX128     \* stands for 2^128

ASSUME OracleAssumption == TimeUnit \in Nat \ {0} /\ OneX128 \in Nat \ {0}

\* The range of Uint160
SecondsRange == TimeUnit * OneX128

Timestamps == 0 .. TimeUnit - 1

DefaultObservation ==
    [blockTimestamp |-> 0, tickCumulative |-> 0, secondsPerLiquidity |-> 0,
     initialized |-> FALSE]

\* ObservationStore.getOrDefault
At(ring, i) ==
    IF i \in DOMAIN ring.observations THEN ring.observations[i] ELSE DefaultObservation

\* Seconds from one timestamp to a later one
Elapsed(from, to) == (to - from) % TimeUnit

\* The observation that would be written at time, had tick and liquidity lasted
Transform(last, time, tick, liquidity) ==
    LET delta == Elapsed(last.blockTimestamp, time)
    IN  [blockTimestamp |-> time,
         tickCumulative |-> last.tickCumulative + tick * delta,
         secondsPerLiquidity |->
            (last.secondsPerLiquidity + (delta * OneX128) \div Max({liquidity, 1})) % SecondsRange,
         initialized |-> TRUE]

\* initialize
FirstRing(time) ==
    [observations |-> [i \in {0} |-> [DefaultObservation EXCEPT
                          !.blockTimestamp = time, !.initialized = TRUE]],
     index |-> 0, cardinality |-> 1, cardinalityNext |-> 1]

\* Mutant: the ring grows as soon as it is asked to, wherever its index is.
GrowsAtOnce(ring) == ring.cardinalityNext > ring.cardinality
\* The ring grows only past its last slot: all slots up to it are in order then.
GrowsNow(ring) ==
    ring.cardinalityNext > ring.cardinality /\ ring.index = ring.cardinality - 1

\* write: nothing, if the timestamp has an observation
Written(ring, time, tick, liquidity) ==
    LET last == At(ring, ring.index)
        size == IF GrowsNow(ring) THEN ring.cardinalityNext ELSE ring.cardinality
        next == (ring.index + 1) % size
        slots == DOMAIN ring.observations \cup {next}
    IN  IF last.blockTimestamp = time THEN ring
        ELSE [ring EXCEPT
                !.index = next,
                !.cardinality = size,
                !.observations = [i \in slots |->
                    IF i = next THEN Transform(last, time, tick, liquidity) ELSE At(ring, i)]]

\* grow: the slots are written ahead, with a timestamp but not initialized.
Grown(ring, next) ==
    IF next <= ring.cardinalityNext THEN ring
    ELSE [ring EXCEPT
            !.cardinalityNext = next,
            !.observations = [i \in DOMAIN @ \cup (ring.cardinalityNext .. next - 1) |->
                IF i >= ring.cardinalityNext THEN [At(ring, i) EXCEPT !.blockTimestamp = 1]
                                             ELSE At(ring, i)]]

\* Mutant: timestamps are compared as they are.
PlainLte(time, a, b) == a <= b
\* lte: a timestamp that is greater than the present one is from before the wrap.
Lte(time, a, b) ==
    LET adjusted(t) == IF t > time THEN t ELSE TimeUnit + t
    IN  IF a <= time /\ b <= time THEN a <= b ELSE adjusted(a) <= adjusted(b)

\* The newest observation, brought to the present
Latest(ring, time, tick, liquidity) ==
    LET last == At(ring, ring.index)
    IN  IF last.blockTimestamp = time THEN last ELSE Transform(last, time, tick, liquidity)

\* The slot after the newest, or slot 0 while that one has never been written
Oldest(ring) ==
    LET next == At(ring, (ring.index + 1) % ring.cardinality)
    IN  IF next.initialized THEN next ELSE At(ring, 0)

\* binarySearch: its bounds, which are taken modulo the size of the ring
FirstBounds(ring) ==
    LET l == (ring.index + 1) % ring.cardinality
    IN  [l |-> l, r |-> l + ring.cardinality - 1]

Midpoint(bounds) == (bounds.l + bounds.r) \div 2
MidpointSlot(ring, bounds) == At(ring, Midpoint(bounds) % ring.cardinality)
SlotAfterMidpoint(ring, bounds) == At(ring, (Midpoint(bounds) + 1) % ring.cardinality)

\* One iteration has found the neighbours of the target,
Surrounds(ring, bounds, time, target) ==
    LET before == MidpointSlot(ring, bounds)
    IN  /\ before.initialized
        /\ Lte(time, before.blockTimestamp, target)
        /\ Lte(time, target, SlotAfterMidpoint(ring, bounds).blockTimestamp)

\* or goes on in one half.
Halved(ring, bounds, time, target) ==
    LET before == MidpointSlot(ring, bounds)
    IN  IF before.initialized /\ ~Lte(time, before.blockTimestamp, target)
        THEN [bounds EXCEPT !.r = Midpoint(bounds) - 1]
        ELSE [bounds EXCEPT !.l = Midpoint(bounds) + 1]

\* Division of the code's integers: towards zero
TruncDiv(a, b) == IF a >= 0 THEN a \div b ELSE -((-a) \div b)

Cumulatives(observation) ==
    [tick |-> observation.tickCumulative, seconds |-> observation.secondsPerLiquidity]

\* The values between two neighbours (observeSingle). The product is cut to 160 bits.
Interpolated(before, after, target) ==
    LET delta == Elapsed(before.blockTimestamp, after.blockTimestamp)
        part == Elapsed(before.blockTimestamp, target)
        seconds == (after.secondsPerLiquidity - before.secondsPerLiquidity) % SecondsRange
    IN  IF target = before.blockTimestamp THEN Cumulatives(before)
        ELSE IF target = after.blockTimestamp THEN Cumulatives(after)
        ELSE [tick |-> before.tickCumulative +
                  TruncDiv(after.tickCumulative - before.tickCumulative, delta) * part,
              seconds |-> (before.secondsPerLiquidity +
                  ((seconds * part) % SecondsRange) \div delta) % SecondsRange]
===============================================================================
