---------------------------- MODULE PositionManager ----------------------------
(***************************************************************************)
(* The position manager of a pool: it owns every position of the pool and  *)
(* gives an NFT for each mint. NFTs of one range share one position, so    *)
(* the manager keeps for each the liquidity, the fee growth at its last    *)
(* touch and the tokens it may still collect.                              *)
(***************************************************************************)
EXTENDS Pool

CONSTANTS
    Users,
    MaxNfts,        \* the number of NFTs in the model
    Desired,        \* desired amounts of a mint, per token
    Requests,       \* the most a collect asks for, per token
    Specified,      \* amounts of swaps, negative for an exact output
    Limits,         \* price limits of swaps, or None
    Loans,          \* flash loans: what is borrowed and what is paid for it, per token
    MaxCommands,    \* bounds the commands after the creation of the pool
    MaxSwaps        \* bounds those of them that are swaps

ASSUME PositionManagerAssumption ==
    /\ MaxNfts \in Nat
    /\ Desired \subseteq [Tokens -> Nat]
    /\ Requests \subseteq [Tokens -> Nat]
    /\ Zero \notin Requests
    /\ Specified \subseteq Int
    /\ Limits \subseteq Nat \cup {None}
    /\ Loans \subseteq [lent : [Tokens -> Nat], paid : [Tokens -> Nat]]
    /\ MaxCommands \in Nat /\ MaxSwaps \in Nat
    /\ None \notin Users

NftIds == 1 .. MaxNfts

Nfts == [owner : Users, range : Ranges, liquidity : Nat,
         insideLast : [Tokens -> Int], tokensOwed : [Tokens -> Int]]

ASSUME NoNftAssumption == None \notin Nfts

VARIABLES
    nfts,           \* the attributes and the owner of an NFT, or None
    nextIndex,      \* getNextAvailableIndex of the nft module
    unpaid,         \* history: what collects paid less than the manager asked for
    commands        \* history: the commands so far, and the swaps among them

vars == <<poolVars, nfts, nextIndex, unpaid, commands>>

Init ==
    /\ PoolInit
    /\ nfts = [id \in NftIds |-> None]
    /\ nextIndex = 1
    /\ unpaid = Zero
    /\ commands = [all |-> 0, swaps |-> 0]

Command ==
    /\ Idle
    /\ commands.all < MaxCommands
    /\ commands' = [commands EXCEPT !.all = @ + 1]

\* What an NFT is owed after its range has been touched at a fee growth of inside
OwedWith(nft, inside, n) ==
    [i \in Tokens |-> Wrap128(nft.tokensOwed[i] +
        MulDiv(Wrap256(inside[i] - nft.insideLast[i]), n, Q128))]
\* Mutant: fees are computed with the liquidity after the change.
OwedAfterChange(nft, inside, delta) == OwedWith(nft, inside, nft.liquidity + delta)
OwedTo(nft, inside, delta) == OwedWith(nft, inside, nft.liquidity)

\* Mutant: the liquidity that was burnt remains the NFT's.
LiquidityKept(nft, amount) == nft.liquidity
LiquidityLeft(nft, amount) == nft.liquidity - amount

Liquidity(range, desired) ==
    LiquidityForAmounts(slot0.sqrtPrice, SqrtRatio[range[1]], SqrtRatio[range[2]],
                        desired[0], desired[1])

\* NonfungiblePositionManager.mint
MintNft(user, range, desired) ==
    LET amount == Liquidity(range, desired)
    IN  /\ Command
        /\ nextIndex \in NftIds
        /\ Mint(range, amount)
        /\ nfts' = [nfts EXCEPT ![nextIndex] =
              [owner |-> user, range |-> range, liquidity |-> amount,
               insideLast |-> PositionAfter(range, amount).insideLast, tokensOwed |-> Zero]]
        /\ nextIndex' = nextIndex + 1
        /\ UNCHANGED unpaid

\* increaseLiquidity, by anybody
IncreaseLiquidity(id, desired) ==
    LET nft == nfts[id]
        amount == Liquidity(nft.range, desired)
        inside == PositionAfter(nft.range, amount).insideLast
    IN  /\ Command
        /\ nft # None
        /\ Mint(nft.range, amount)
        /\ nfts' = [nfts EXCEPT ![id] = [nft EXCEPT
              !.tokensOwed = OwedTo(nft, inside, amount),
              !.insideLast = inside,
              !.liquidity = @ + amount]]
        /\ UNCHANGED <<nextIndex, unpaid>>

\* decreaseLiquidity
DecreaseLiquidity(user, id, amount) ==
    LET nft == nfts[id]
        inside == PositionAfter(nft.range, -amount).insideLast
        burnt == BurntAmounts(nft.range, amount)
        owed == OwedTo(nft, inside, -amount)
    IN  /\ Command
        /\ nft # None
        /\ nft.owner = user
        /\ amount > 0 /\ amount <= nft.liquidity
        /\ Burn(nft.range, amount)
        /\ nfts' = [nfts EXCEPT ![id] = [nft EXCEPT
              !.tokensOwed = [i \in Tokens |-> Wrap128(owed[i] + burnt[i])],
              !.insideLast = inside,
              !.liquidity = LiquidityLeft(nft, amount)]]
        /\ UNCHANGED <<nextIndex, unpaid>>

\* collect: a poke of the position while the NFT has liquidity, then a collect from
\* it, of which the NFT bears the whole amount even if the position has less.
CollectNft(user, id, requested) ==
    LET nft == nfts[id]
        poked == PositionAfter(nft.range, 0)
        position == IF nft.liquidity > 0 THEN poked ELSE positions[PositionKey(nft.range)]
        owed == IF nft.liquidity > 0 THEN OwedTo(nft, poked.insideLast, 0) ELSE nft.tokensOwed
        asked == [i \in Tokens |-> Min({requested[i], owed[i]})]
    IN  /\ Command
        /\ nft # None
        /\ nft.owner = user
        /\ nft.liquidity > 0 => positions[PositionKey(nft.range)].liquidity > 0
        /\ Collect(nft.range, position, asked)
        /\ nfts' = [nfts EXCEPT ![id] = [nft EXCEPT
              !.tokensOwed = [i \in Tokens |-> owed[i] - asked[i]],
              !.insideLast = IF nft.liquidity > 0 THEN poked.insideLast ELSE @]]
        /\ unpaid' = [i \in Tokens |->
              unpaid[i] + asked[i] - CollectedAmounts(position, asked)[i]]
        /\ UNCHANGED nextIndex

\* burn
BurnNft(user, id) ==
    LET nft == nfts[id]
    IN  /\ Command
        /\ nft # None
        /\ nft.owner = user
        /\ nft.liquidity = 0 /\ nft.tokensOwed = Zero
        /\ nfts' = [nfts EXCEPT ![id] = None]
        /\ UNCHANGED <<poolVars, nextIndex, unpaid>>

\* The router's swaps of one hop, and the swap by transfer
Swap ==
    /\ Idle
    /\ commands.all < MaxCommands /\ commands.swaps < MaxSwaps
    /\ commands' = [all |-> commands.all + 1, swaps |-> commands.swaps + 1]
    /\ \E zeroForOne \in BOOLEAN, amount \in Specified :
          \/ \E limit \in Limits : SwapStart(zeroForOne, amount, limit, FALSE)
          \/ amount > 0 /\ SwapStart(zeroForOne, amount, None, TRUE)
    /\ UNCHANGED <<nfts, nextIndex, unpaid>>

Loop == SwapStep /\ UNCHANGED <<nfts, nextIndex, unpaid, commands>>
Settle == SwapEnd /\ UNCHANGED <<nfts, nextIndex, unpaid, commands>>
Revert == SwapRevert /\ UNCHANGED <<nfts, nextIndex, unpaid, commands>>

\* A flash loan to another module of the node
FlashLoan ==
    /\ Command
    /\ \E loan \in Loans : Flash(loan.lent, loan.paid)
    /\ UNCHANGED <<nfts, nextIndex, unpaid>>

Create ==
    /\ \E price \in Prices : CreatePool(price)
    /\ UNCHANGED <<nfts, nextIndex, unpaid, commands>>

Add == \E range \in Ranges, desired \in Desired, user \in Users : MintNft(user, range, desired)
Increase == \E id \in NftIds, desired \in Desired : IncreaseLiquidity(id, desired)
Decrease ==
    \E id \in NftIds, user \in Users :
        /\ nfts[id] # None
        /\ \E n \in {nfts[id].liquidity, nfts[id].liquidity \div 2} : DecreaseLiquidity(user, id, n)
CollectFees == \E id \in NftIds, user \in Users, n \in Requests : CollectNft(user, id, n)
BurnEmpty == \E id \in NftIds, user \in Users : BurnNft(user, id)

\* The end of the model: no command is left, or nothing to give one to.
Horizon ==
    /\ Idle
    /\ \/ commands.all = MaxCommands
       \/ commands.swaps = MaxSwaps /\ nextIndex \notin NftIds /\ \A id \in NftIds : nfts[id] = None
    /\ UNCHANGED vars

Next ==
    \/ Create
    \/ Add \/ Increase \/ Decrease \/ CollectFees \/ BurnEmpty
    \/ Swap \/ Loop \/ Settle \/ Revert
    \/ FlashLoan
    \/ Horizon

Spec == Init /\ [][Next]_vars

\* The loop of a swap runs until its condition fails: nothing waits in it.
FairSpec == Spec /\ WF_vars(Loop) /\ WF_vars(Revert)

-------------------------------------------------------------------------------
(* What is reported of an NFT, computed from the ticks of the pool *)

\* Mutant: no case for a tick above the range.
GrowthBelow(range, i) ==
    LET lower == ticks[range[1]].outside[i]
        upper == ticks[range[2]].outside[i]
    IN  Wrap256(IF slot0.tick < range[1] THEN lower - upper ELSE feeGrowth[i] - lower - upper)
\* _getFeeGrowthInside
GrowthInside(range, i) ==
    LET lower == ticks[range[1]].outside[i]
        upper == ticks[range[2]].outside[i]
    IN  Wrap256(IF slot0.tick < range[1] THEN lower - upper
                ELSE IF slot0.tick < range[2] THEN feeGrowth[i] - lower - upper
                ELSE upper - lower)

\* fees, with those owed already
FeesOf(nft) ==
    [i \in Tokens |-> Wrap256(nft.tokensOwed[i] +
        MulDiv(Wrap256(GrowthInside(nft.range, i) - nft.insideLast[i]), nft.liquidity, Q128))]

Principal(nft) ==
    AmountsForLiquidity(slot0.sqrtPrice, SqrtRatio[nft.range[1]], SqrtRatio[nft.range[2]],
                        nft.liquidity)

\* total
TotalOf(nft) == [i \in Tokens |-> Wrap256(Principal(nft)[i + 1] + FeesOf(nft)[i])]

-------------------------------------------------------------------------------
(* Properties *)

Held == {id \in NftIds : nfts[id] # None}

\* A range and its position. No other range may have the same one.
Position(range) == positions[PositionKey(range)]
LiquidityAt == [r \in Ranges |-> Position(r).liquidity]
LiquidityOfNft == [id \in Held |-> nfts[id].liquidity]

\* The tick and the liquidity the pool works with, in a swap those of its loop
CurrentTick == IF swap = None THEN slot0.tick ELSE swap.tick
CurrentLiquidity == IF swap = None THEN liquidity ELSE swap.liquidity

\* The liquidity a swap meets is that of the positions around the tick, at every
\* moment of every swap: each crossing adds and takes what begins and ends there.
LiquidityOfPositionsInRange ==
    IsCreated => CurrentLiquidity =
        SumFunctionOnSet(LiquidityAt, {r \in Ranges : Covers(r, CurrentTick)})

\* A tick has the liquidity of the positions that begin or end there, and its bit is
\* set as long as there are any: no swap misses it, and none stops for nothing.
TicksOfPositions ==
    \A t \in Ticks :
        LET starting == SumFunctionOnSet(LiquidityAt, {r \in Ranges : r[1] = t})
            ending == SumFunctionOnSet(LiquidityAt, {r \in Ranges : r[2] = t})
        IN  /\ ticks[t].liquidityGross = starting + ending
            /\ ticks[t].liquidityNet = starting - ending
            /\ t % TickSpacing = 0 =>
                  IsSet(bitmap, Compressed(t)) = (ticks[t].liquidityGross > 0)

\* What a range can claim: tokens owed, fees since the last touch, and what its
\* liquidity is worth
Claim(range, i) ==
    UpdatedPosition(Position(range), 0, FeeGrowthInside(ticks, range)).tokensOwed[i]
        + BurntAmounts(range, Position(range).liquidity)[i]

\* The pool can pay all positions at any time, principal and fees, whatever was
\* rounded on the way: every rounding is in favour of the pool.
PoolIsSolvent ==
    Idle => \A i \in Tokens : balance[i] >= SumFunctionOnSet([r \in Ranges |-> Claim(r, i)], Ranges)

\* The NFTs of a range have the liquidity of its position between them: nobody can
\* take out what another one has put in.
NftsShareThePosition ==
    \A r \in Ranges : Position(r).liquidity =
        SumFunctionOnSet(LiquidityOfNft, {id \in Held : nfts[id].range = r})

\* A collect pays what the NFT has been promised but for one unit of rounding per
\* touch of a position.
CollectsArePaid == \A i \in Tokens : unpaid[i] <= commands.all

\* What the manager reports of an NFT, with formulas of its own, is to the unit what its
\* owner would be owed after taking out all liquidity at once.
WorthIsWhatIsPaid ==
    Idle => \A id \in Held :
        LET nft == nfts[id]
            inside == FeeGrowthInside(ticks, nft.range)
        IN  \A i \in Tokens : TotalOf(nft)[i] =
                Wrap128(OwedTo(nft, inside, -nft.liquidity)[i]
                    + BurntAmounts(nft.range, nft.liquidity)[i])

\* The tick that an end between two ticks is rounded to, towards zero, has liquidity but
\* is not between the ends; or the swap has stayed in its tick.
IsRoundedIn(t, before, after) ==
    /\ IsSet(bitmap, Quotient(t, TickSpacing))
    /\ \/ Quotient(t, TickSpacing) * TickSpacing \notin Min({before, after}) .. Max({before, after})
       \/ before = after

\* The ticks that the quoter counts between the beginning and the end of a swap are those
\* that the swap has crossed, one by one, over all words; and never more than one other,
\* to which an end has been rounded.
CrossingsAreCounted ==
    swap # None /\ ~SwapGoesOn =>
        LET ends == {slot0.tick, swap.tick}
            rounded == {t \in ends : IsRoundedIn(t, slot0.tick, swap.tick)}
        IN  CountInitializedTicksCrossed(bitmap, slot0.tick, swap.tick)
                = swap.crossed + Cardinality(rounded)

\* Every swap ends: each iteration consumes some of the amount or reaches another
\* tick, over any gaps and words of the bitmap.
EverySwapEnds == swap # None ~> swap = None
===============================================================================
