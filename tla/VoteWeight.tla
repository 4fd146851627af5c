------------------------------ MODULE VoteWeight ------------------------------
(***************************************************************************)
(* The arithmetic of the governance module (src/app/modules/governance):   *)
(* how a vote score is multiplied by a boost, how a threshold written as   *)
(* an amount or a percentage is read, how the participants of a proposal   *)
(* are counted and how the turnout bias is decided.                        *)
(*                                                                         *)
(* The code computes with decimal.js and bignumber.js and rounds to an     *)
(* integer at the end; here the exact fraction is kept and rounded once.   *)
(***************************************************************************)
EXTENDS Integers

Decisions == {"for", "against", "abstain"}

\* A tally: votes counted per decision.
NoVotes == [d \in Decisions |-> 0]

\* Decimal.toFixed(0) of the non-negative fraction num / den.
RoundHalfUp(num, den) == (2 * num + den) \div (2 * den)

NonNegative(n) == IF n < 0 THEN 0 ELSE n

\* score * getBoostMultiplier(endHeight, boostHeight, maxDuration, factor).
BoostedScore(score, endHeight, boostHeight, maxDuration, factor) ==
    LET base  == 100 * maxDuration
        bonus == NonNegative(boostHeight - endHeight) * NonNegative(factor - 100)
    IN  RoundHalfUp(score * (base + bonus), base)

\* An amount of the configuration: an integer, or a percentage of a supply.
ParseBigintOrPercentage(amount, supply) ==
    IF amount.percent THEN RoundHalfUp(supply * amount.value, 100) ELSE amount.value

\* What counts towards the quorum under each mode.
Participants(mode, tally) ==
    CASE mode = "FOR_AGAINST_ABSTAIN" -> tally["for"] + tally["against"] + tally["abstain"]
      [] mode = "FOR_AGAINST"         -> tally["for"] + tally["against"]
      [] mode = "FOR"                 -> tally["for"]

\* for / sqrt(supply) > against / sqrt(voted), cleared of its roots (counts are
\* not negative). With no vote at all the code compares with NaN: not satisfied.
SatisfiesTurnoutBias(forCount, againstCount, voted, supply) ==
    /\ voted > 0
    /\ forCount * forCount * voted > againstCount * againstCount * supply
===============================================================================
