------------------------------ MODULE PoolOracle ------------------------------
(***************************************************************************)
(* The oracle in the life of a pool: swaps and positions write to it, the  *)
(* ticks at the ends of a range keep the part of its sums that is outside, *)
(* and readers observe the past. An observation searches the ring, one     *)
(* step per iteration of the search; it runs within one call, so nothing   *)
(* else happens meanwhile. Prices, fees and tokens are left to Pool.       *)
(***************************************************************************)
EXTENDS OracleLibrary

CONSTANTS
    StartTime,      \* timestamp of the block that creates the pool
    MaxSeconds,     \* bound: length of the log
    Gaps,           \* seconds between blocks
    StartTick,      \* the tick of the price the pool is created at
    PoolTicks,      \* ticks a swap may end at
    Lower, Upper,   \* the range in which positions are
    Liquidities,    \* of a mint or a burn
    MaxLiquidity,   \* bound: liquidity of the range
    Sizes,          \* numbers of observations that are asked for
    Ages,           \* seconds ago that readers ask for
    None, Old

ASSUME PoolOracleAssumption ==
    /\ StartTime \in Timestamps
    \* No observation is as old as a wrap of the timestamps.
    /\ MaxSeconds \in 1 .. TimeUnit - 1
    /\ Gaps \subseteq Nat \ {0}
    /\ PoolTicks \subseteq Int /\ StartTick \in PoolTicks
    /\ Lower \in Int /\ Upper \in Int /\ Lower < Upper
    \* Every second per liquidity is a whole number of units, so that sums are exact.
    /\ Liquidities \subseteq Nat \ {0}
    /\ Sizes \subseteq Nat \ {0}
    /\ Ages \subseteq Timestamps

VARIABLES
    ring,       \* observations of the pool, and where they are
    tick,       \* slot0.tick
    liquidity,  \* in range
    gross,      \* liquidity at both ends of the range
    outside,    \* TickInfo of the ends: the sums and the time outside
    query,      \* an observe in progress, or None
    \* History
    log, marks, \* see PriceLog
    answer,
    minted      \* when the range came to life, and the snapshot of then

vars == <<ring, tick, liquidity, gross, outside, query, log, marks, answer, minted>>
history == <<log, marks, answer, minted>>

Ends == {Lower, Upper}
Nothing == [tick |-> 0, seconds |-> 0, time |-> 0]

now == (StartTime + Len(log)) % TimeUnit
Covers(t) == Lower <= t /\ t < Upper

Init ==
    /\ ring = FirstRing(StartTime)
    /\ tick = StartTick
    /\ liquidity = 0
    /\ gross = 0
    /\ outside = [e \in Ends |-> Nothing]
    /\ query = None
    /\ log = <<>>
    /\ marks = <<0>>
    /\ answer = None
    /\ minted = None

\* observeSingle of the present, and the time
Present ==
    LET last == Latest(ring, now, tick, liquidity)
    IN  [tick |-> last.tickCumulative, seconds |-> last.secondsPerLiquidity, time |-> now]

Minus(a, b) ==
    [tick |-> a.tick - b.tick,
     seconds |-> (a.seconds - b.seconds) % SecondsRange,
     time |-> (a.time - b.time) % TimeUnit]

-------------------------------------------------------------------------------
(* What writes *)

AdvanceTime(seconds) ==
    /\ query = None
    /\ Len(log) + seconds <= MaxSeconds
    /\ log' = log \o [i \in 1 .. seconds |-> [tick |-> tick, liquidity |-> liquidity]]
    /\ answer' = None
    /\ UNCHANGED <<ring, tick, liquidity, gross, outside, query, marks, minted>>

\* The observation of the state before the block, unless the block has one
WriteObservation ==
    /\ ring' = Written(ring, now, tick, liquidity)
    /\ marks' = IF Last(marks) = Len(log) THEN marks ELSE Append(marks, Len(log))

\* Ends that a move of the tick crosses
CrossedEnds(from, to) ==
    {e \in Ends : gross > 0 /\ ((from < e /\ e <= to) \/ (to < e /\ e <= from))}

\* Mutant: what was outside of a crossed tick remains.
NotCrossed(e) == outside[e]
\* Tick.cross
Crossed(e) == Minus(Present, outside[e])

\* A swap that ends at another tick: crosses all ends in between, with the sums of
\* the present as they are before the swap, and writes.
SwapTo(t) ==
    /\ query = None
    /\ t # tick
    /\ outside' = [e \in Ends |-> IF e \in CrossedEnds(tick, t) THEN Crossed(e) ELSE outside[e]]
    /\ WriteObservation
    /\ tick' = t
    /\ liquidity' = IF Covers(t) THEN gross ELSE 0
    /\ answer' = None
    /\ UNCHANGED <<gross, query, log, minted>>

\* Tick.update of an end that is not initialized
OutsideOfNew(e) == IF e <= tick THEN Present ELSE Nothing

\* snapshotCumulativesInside, for given sums at the ends
Inside(ends) ==
    IF tick < Lower THEN Minus(ends[Lower], ends[Upper])
    ELSE IF tick < Upper THEN Minus(Minus(Present, ends[Lower]), ends[Upper])
    ELSE Minus(ends[Upper], ends[Lower])

\* _modifyPosition writes if the price is in the range.
ObserveIfCovered ==
    IF Covers(tick) THEN WriteObservation ELSE UNCHANGED <<ring, marks>>

MintLiquidity(amount) ==
    /\ query = None
    /\ gross + amount <= MaxLiquidity
    /\ gross' = gross + amount
    /\ outside' = [e \in Ends |-> IF gross = 0 THEN OutsideOfNew(e) ELSE outside[e]]
    /\ ObserveIfCovered
    /\ liquidity' = liquidity + IF Covers(tick) THEN amount ELSE 0
    /\ minted' = IF gross = 0 THEN [at |-> Len(log), snapshot |-> Inside(outside')] ELSE minted
    /\ answer' = None
    /\ UNCHANGED <<tick, query, log>>

\* Ends without liquidity are cleared.
BurnLiquidity(amount) ==
    /\ query = None
    /\ amount <= gross
    /\ gross' = gross - amount
    /\ outside' = [e \in Ends |-> IF amount = gross THEN Nothing ELSE outside[e]]
    /\ ObserveIfCovered
    /\ liquidity' = liquidity - IF Covers(tick) THEN amount ELSE 0
    /\ minted' = IF amount = gross THEN None ELSE minted
    /\ answer' = None
    /\ UNCHANGED <<tick, query, log>>

IncreaseObservationCardinalityNext(next) ==
    /\ query = None
    /\ ring' = Grown(ring, next)
    /\ answer' = None
    /\ UNCHANGED <<tick, liquidity, gross, outside, query, log, marks, minted>>

-------------------------------------------------------------------------------
(* What reads *)

Target(secondsAgo) == (now - secondsAgo) % TimeUnit

Reply(secondsAgo, value) ==
    /\ answer' = [secondsAgo |-> secondsAgo, value |-> value]
    /\ query' = None

ReadOnly == UNCHANGED <<ring, tick, liquidity, gross, outside, log, marks, minted>>

\* The newest observation tells all that came after it.
AfterNewest(target) == Lte(now, At(ring, ring.index).blockTimestamp, target)

OlderThanOldest(target) == ~Lte(now, Oldest(ring).blockTimestamp, target)

\* observeSingle, getSurroundingObservations
Observe(secondsAgo) ==
    LET target == Target(secondsAgo)
    IN  /\ query = None
        /\ ReadOnly
        /\ IF secondsAgo = 0
           THEN Reply(0, Cumulatives(Latest(ring, now, tick, liquidity)))
           ELSE IF AfterNewest(target)
           THEN Reply(secondsAgo, Cumulatives(Latest(ring, target, tick, liquidity)))
           ELSE IF OlderThanOldest(target) THEN Reply(secondsAgo, Old)
           ELSE /\ query' = [secondsAgo |-> secondsAgo, bounds |-> FirstBounds(ring)]
                /\ answer' = None

\* One iteration of binarySearch
SearchStep ==
    /\ query # None
    /\ ReadOnly
    /\ LET target == Target(query.secondsAgo)
           bounds == query.bounds
       IN  IF Surrounds(ring, bounds, now, target)
           THEN Reply(query.secondsAgo, Interpolated(MidpointSlot(ring, bounds),
                                            SlotAfterMidpoint(ring, bounds), target))
           ELSE /\ query' = [query EXCEPT !.bounds = Halved(ring, bounds, now, target)]
                /\ UNCHANGED answer

Next ==
    \/ \E s \in Gaps : AdvanceTime(s)
    \/ \E t \in PoolTicks : SwapTo(t)
    \/ \E a \in Liquidities : MintLiquidity(a) \/ BurnLiquidity(a)
    \/ \E n \in Sizes : IncreaseObservationCardinalityNext(n)
    \/ \E s \in Ages : Observe(s)
    \/ SearchStep

Spec == Init /\ [][Next]_vars
\* The search is a loop within one call.
FairSpec == Spec /\ WF_vars(SearchStep)

-------------------------------------------------------------------------------
(* Properties *)

\* Whatever is written, grown, overwritten and wrapped, an observation of the past is
\* what a complete log tells, and only what is older than the last marks is refused
\* (oracle.ts, observeSingle and binarySearch). Where the product of the interpolation
\* overflows, this holds of the tick only.
Promise == INSTANCE PriceLog WITH
    Weight <- LAMBDA l : OneX128 \div Max({l, 1}),
    Modulus <- SecondsRange,
    MaxMarks <- Max(Sizes \cup {1}),
    kept <- Cardinality({i \in DOMAIN ring.observations : ring.observations[i].initialized}),
    Forgotten <- Old

ImplementsPriceLog == Promise!Spec

\* The snapshot of a range moves with the seconds that the price is in it, and with
\* nothing else, whichever way the price came and went (pool.ts, snapshotCumulativesInside;
\* tick.ts, update and cross).
Seconds(n) == SubSeq(log, n + 1, Len(log))
SnapshotCountsTimeInside ==
    minted # None =>
        LET in == SelectSeq(Seconds(minted.at), LAMBDA s : Covers(s.tick))
        IN  Minus(Inside(outside), minted.snapshot) =
                [tick |-> FoldLeft(LAMBDA acc, s : acc + s.tick, 0, in),
                 seconds |-> FoldLeft(LAMBDA acc, s :
                                acc + OneX128 \div Max({s.liquidity, 1}), 0, in) % SecondsRange,
                 time |-> Len(in) % TimeUnit]

\* What the library reads from the ring is what happened: the tick and liquidity at the
\* start of the block (up to the unit that its division loses), the age of the oldest
\* answer, and a mean tick, rounded down, which is also the mean weighted by seconds
\* (oracle_library.ts).
LastSecond == log[Len(log)]
WeightedSeconds(n) == [i \in 1 .. Len(Seconds(n)) |-> [tick |-> Seconds(n)[i].tick, weight |-> 1]]
LibraryReadsHistory ==
    /\ LET start == BlockStart(ring, now, tick, liquidity)
       IN  log # <<>> /\ start # Error =>
              /\ start.tick = LastSecond.tick
              /\ start.liquidity \in {LastSecond.liquidity, Max({LastSecond.liquidity, 1}) - 1}
    /\ OldestSecondsAgo(ring, now) = Len(log) - Promise!EarliestKept
    /\ answer # None /\ answer.value # Old /\ answer.secondsAgo > 0 =>
          LET mean == ArithmeticMeanTick(answer.value, Present, answer.secondsAgo)
              seconds == WeightedSeconds(Len(log) - answer.secondsAgo)
              sum == FoldLeft(LAMBDA acc, s : acc + s.tick, 0, seconds)
          IN  mean # Error => mean = sum \div Len(seconds) /\ mean = WeightedMeanTick(seconds)

\* Every observation gets an answer: the search never leaves the ring (binarySearch).
EveryObserveAnswers == query # None ~> query = None
===============================================================================
