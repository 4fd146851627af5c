------------------------------- MODULE PoolProofs -------------------------------
(***************************************************************************)
(* What holds in every pool whose ranges have keys of their own: the ticks *)
(* and the bitmap tell where the liquidity of the positions begins and     *)
(* ends, a swap always meets the liquidity of the positions around its     *)
(* tick, and the NFTs of a range share its position. Before this, about    *)
(* the bitmap: what flipping a bit does, that the halving searches find    *)
(* the highest and the lowest bit of a word, and that the next tick a swap *)
(* is sent to leaves no set bit behind.                                    *)
(***************************************************************************)
EXTENDS PositionManager, StepProofs

-----------------------------------------------------------------------------
(* Powers of two *)

LEMMA PowerStep ==
    ASSUME NEW n \in 0 .. 15
    PROVE  Mask(n) \in Nat \ {0} /\ Mask(n + 1) = 2 * Mask(n) /\ Mask(n + 1) \in Nat \ {0}
<1> DEFINE Step == Mask(n) \in Nat \ {0} /\ Mask(n + 1) = 2 * Mask(n) /\ Mask(n + 1) \in Nat \ {0}
<1>0. CASE n = 0
  BY <1>0 DEF Mask
<1>1. CASE n = 1
  BY <1>1 DEF Mask
<1>2. CASE n = 2
  BY <1>2 DEF Mask
<1>3. CASE n = 3
  BY <1>3 DEF Mask
<1>4. CASE n = 4
  BY <1>4 DEF Mask
<1>5. CASE n = 5
  BY <1>5 DEF Mask
<1>6. CASE n = 6
  BY <1>6 DEF Mask
<1>7. CASE n = 7
  BY <1>7 DEF Mask
<1>8. CASE n = 8
  BY <1>8 DEF Mask
<1>9. CASE n = 9
  BY <1>9 DEF Mask
<1>10. CASE n = 10
  BY <1>10 DEF Mask
<1>11. CASE n = 11
  BY <1>11 DEF Mask
<1>12. CASE n = 12
  BY <1>12 DEF Mask
<1>13. CASE n = 13
  BY <1>13 DEF Mask
<1>14. CASE n = 14
  BY <1>14 DEF Mask
<1>15. CASE n = 15
  BY <1>15 DEF Mask
<1> HIDE DEF Step
<1> QED BY <1>0, <1>1, <1>2, <1>3, <1>4, <1>5, <1>6, <1>7, <1>8, <1>9, <1>10, <1>11, <1>12, <1>13, <1>14, <1>15

LEMMA PowerNat ==
    ASSUME NEW n \in 0 .. 16
    PROVE  Mask(n) \in Nat \ {0}
<1>1. CASE n = 16
  BY <1>1 DEF Mask
<1>2. CASE n # 16
  BY <1>2, PowerStep
<1> QED BY <1>1, <1>2

LEMMA MaskDiv ==
    ASSUME NEW w \in Int, NEW b \in 0 .. 16
    PROVE  \E q \in Int :
              q = w \div Mask(b) /\ Mask(b) * q <= w /\ w < Mask(b) * q + Mask(b)
<1>1. PICK d \in Nat \ {0} : d = Mask(b)
  BY PowerNat
<1>2. PICK q \in Int : q = w \div d
  OBVIOUS
<1>3. d * q <= w /\ w < d * q + d
  BY <1>2, DivBounds
<1> QED BY <1>1, <1>2, <1>3

LEMMA PowerSum ==
    ASSUME NEW a \in 0 .. 16, NEW b \in 0 .. 16 - a
    PROVE  Mask(a + b) = Mask(a) * Mask(b)
<1> DEFINE Good == {k \in 0 .. 16 - a : Mask(a + k) = Mask(a) * Mask(k)}
<1>1. 0 \in Good
  <2>1. Mask(a) \in Nat
    BY PowerNat
  <2>2. Mask(0) = 1
    BY DEF Mask
  <2> QED BY <2>1, <2>2
<1>2. ASSUME NEW m \in 0 .. (16 - a) - 1, m \in Good PROVE m + 1 \in Good
  <2>1. Mask(a + m) = Mask(a) * Mask(m)
    BY <1>2
  <2>2. Mask((a + m) + 1) = 2 * Mask(a + m)
    BY PowerStep
  <2>3. Mask(m + 1) = 2 * Mask(m)
    BY PowerStep
  <2>4. Mask(a) \in Nat /\ Mask(m) \in Nat
    BY PowerNat
  <2>5. (a + m) + 1 = a + (m + 1)
    OBVIOUS
  <2> QED BY <2>1, <2>2, <2>3, <2>4, <2>5
<1>3. \A m \in 0 .. 16 - a : m \in Good
  <2> HIDE DEF Good
  <2> QED BY <1>1, <1>2, UpTo
<1> QED BY <1>3

-----------------------------------------------------------------------------
(* Bits *)

Bits == 0 .. WordSize - 1

\* A bit, what is above it and what is below it
Composed(hi, bit, lo, b) == hi * Mask(b + 1) + bit * Mask(b) + lo

LEMMA Split ==
    ASSUME NEW w \in Nat, NEW b \in 0 .. 15
    PROVE  \E hi \in Nat, bit \in {0, 1}, lo \in 0 .. Mask(b) - 1 :
               w = Composed(hi, bit, lo, b) /\ (HasBit(w, b) <=> bit = 1)
<1>1. Mask(b) \in Nat \ {0} /\ Mask(b + 1) = 2 * Mask(b)
  BY PowerStep
<1>2. PICK q \in Int : q = w \div Mask(b) /\ Mask(b) * q <= w /\ w < Mask(b) * q + Mask(b)
  <2>1. w \in Int /\ b \in 0 .. 16
    OBVIOUS
  <2> QED BY ONLY <2>1, MaskDiv
<1>3. q \in Nat
  <2>1. ASSUME q < 0 PROVE FALSE
    <3>1. Mask(b) * (q + 1) <= 0
      BY <1>1, <2>1
    <3> QED BY <3>1, <1>1, <1>2
  <2> QED BY <2>1
<1>4. PICK hi, bit : hi = q \div 2 /\ bit = q % 2
  OBVIOUS
<1>5. hi \in Nat /\ bit \in {0, 1} /\ q = 2 * hi + bit
  BY <1>3, <1>4
<1>6. PICK lo \in Int : lo = w - Mask(b) * q
  BY <1>1, <1>3
<1>7. lo \in 0 .. Mask(b) - 1
  BY <1>1, <1>2, <1>6
<1>8. w = Composed(hi, bit, lo, b)
  <2>1. Mask(b) * q = Mask(b) * (2 * hi) + Mask(b) * bit
    BY <1>1, <1>5
  <2>2. hi * Mask(b + 1) = Mask(b) * (2 * hi)
    BY <1>1, <1>5
  <2> QED BY <1>1, <1>3, <1>5, <1>6, <2>1, <2>2 DEF Composed
<1>9. HasBit(w, b) <=> bit = 1
  BY <1>2, <1>4 DEF HasBit
<1> QED BY <1>5, <1>7, <1>8, <1>9

LEMMA HasBitOf ==
    ASSUME NEW hi \in Nat, NEW bit \in {0, 1}, NEW b \in 0 .. 15, NEW lo \in 0 .. Mask(b) - 1
    PROVE  /\ Composed(hi, bit, lo, b) \in Nat
           /\ HasBit(Composed(hi, bit, lo, b), b) <=> bit = 1
           /\ Composed(hi, bit, lo, b) \div Mask(b + 1) = hi
           /\ Composed(hi, bit, lo, b) \div Mask(b) = 2 * hi + bit
<1>1. Mask(b) \in Nat \ {0} /\ Mask(b + 1) = 2 * Mask(b)
  BY PowerStep
<1>2. PICK w : w = Composed(hi, bit, lo, b)
  OBVIOUS
<1>3. w = Mask(b) * (2 * hi + bit) + lo
  <2>1. hi * (2 * Mask(b)) = Mask(b) * (2 * hi)
    BY <1>1
  <2> QED BY <1>1, <1>2, <2>1 DEF Composed
<1>4. w \in Nat
  BY <1>1, <1>3
<1>5. w \div Mask(b) = 2 * hi + bit
  BY <1>1, <1>3, <1>4, DivIs
<1>6. HasBit(w, b) <=> bit = 1
  <2>1. (2 * hi + bit) % 2 = bit
    OBVIOUS
  <2> QED BY <1>5, <2>1 DEF HasBit
<1>7. w \div Mask(b + 1) = hi
  <2>1. w = (2 * Mask(b)) * hi + (Mask(b) * bit + lo)
    BY <1>1, <1>3
  <2>2. Mask(b) * bit + lo \in 0 .. 2 * Mask(b) - 1
    BY <1>1
  <2> QED BY <1>1, <1>4, <2>1, <2>2, DivIs
<1> QED BY <1>2, <1>4, <1>5, <1>6, <1>7

\* Flipping a bit
FlippedBit(w, b) == IF HasBit(w, b) THEN w - Mask(b) ELSE w + Mask(b)

LEMMA FlipHigher ==
    ASSUME NEW hi \in Nat, NEW b \in 0 .. 15, NEW c \in b + 1 .. 15, NEW w \in Nat,
           w \div Mask(b + 1) = hi
    PROVE  w \div Mask(c) = hi \div Mask(c - (b + 1))
<1>1. b + 1 \in 0 .. 16 /\ c - (b + 1) \in 0 .. 16 - (b + 1) /\ (b + 1) + (c - (b + 1)) = c
  OBVIOUS
<1>2. Mask(c) = Mask(b + 1) * Mask(c - (b + 1))
  BY <1>1, PowerSum
<1>3. Mask(b + 1) \in Nat \ {0} /\ Mask(c - (b + 1)) \in Nat \ {0}
  BY <1>1, PowerNat
<1> QED BY <1>2, <1>3, DivDiv

LEMMA AddHigher ==
    ASSUME NEW w \in Nat, NEW b \in 0 .. 16, NEW k \in Nat, NEW c \in 0 .. b - 1
    PROVE  HasBit(w + Mask(b) * k, c) <=> HasBit(w, c)
<1>1. /\ c + 1 \in 0 .. 16 /\ b - (c + 1) \in 0 .. 16 - (c + 1) /\ (c + 1) + (b - (c + 1)) = b
      /\ c \in 0 .. 15
  OBVIOUS
<1>2. Mask(b) = Mask(c + 1) * Mask(b - (c + 1))
  BY <1>1, PowerSum
<1>3. PICK m \in Nat : m = Mask(b - (c + 1))
  BY <1>1, PowerNat
<1>4. PICK d \in Nat \ {0} : d = Mask(c) /\ Mask(c + 1) = 2 * d
  BY <1>1, PowerStep
<1>5. PICK n \in Nat : n = m * k
  OBVIOUS
<1>6. Mask(b) * k = d * (2 * n)
  <2>1. Mask(b) = d * (2 * m)
    BY <1>2, <1>3, <1>4
  <2>2. (d * (2 * m)) * k = d * (2 * (m * k))
    OBVIOUS
  <2> QED BY <1>5, <2>1, <2>2
<1>7. PICK q \in Int : q = w \div d /\ d * q <= w /\ w < d * q + d
  <2>1. w \in Int
    OBVIOUS
  <2> QED BY <2>1, DivBounds
<1>8. (w + d * (2 * n)) \div d = q + 2 * n
  <2>1. d * (q + 2 * n) = d * q + d * (2 * n)
    OBVIOUS
  <2>2. PICK x \in Int : x = w + d * (2 * n)
    OBVIOUS
  <2>3. q + 2 * n \in Int /\ d * (q + 2 * n) <= x /\ x < d * (q + 2 * n) + d
    BY <1>7, <2>1, <2>2
  <2>4. x \div d = q + 2 * n
    BY <2>3, DivIs
  <2> QED BY <2>2, <2>4
<1>9. (q + 2 * n) % 2 = q % 2
  OBVIOUS
<1> QED BY <1>4, <1>6, <1>7, <1>8, <1>9 DEF HasBit

LEMMA FlipLower ==
    ASSUME NEW w \in Nat, NEW b \in 0 .. 15, NEW c \in 0 .. b - 1
    PROVE  HasBit(w + Mask(b), c) <=> HasBit(w, c)
<1>1. b \in 0 .. 16 /\ 1 \in Nat
  OBVIOUS
<1>2. HasBit(w + Mask(b) * 1, c) <=> HasBit(w, c)
  BY <1>1, AddHigher
<1>3. Mask(b) * 1 = Mask(b)
  BY <1>1, PowerNat
<1> QED BY <1>2, <1>3

LEMMA FlipBit ==
    ASSUME NEW w \in Bitmaps, NEW b \in Bits
    PROVE  /\ FlippedBit(w, b) \in Bitmaps
           /\ HasBit(FlippedBit(w, b), b) <=> ~HasBit(w, b)
           /\ \A c \in Bits : c # b => (HasBit(FlippedBit(w, b), c) <=> HasBit(w, c))
<1>0. WordSize \in 1 .. 16 /\ b \in 0 .. 15 /\ Mask(WordSize) \in Nat \ {0} /\ w \in Nat
  BY BitMathAssumption, PowerNat DEF Bits, Bitmaps
<1>1. PICK hi \in Nat, bit \in {0, 1}, lo \in 0 .. Mask(b) - 1 :
          w = Composed(hi, bit, lo, b) /\ (HasBit(w, b) <=> bit = 1)
  BY <1>0, Split
<1>2. Mask(b) \in Nat \ {0} /\ Mask(b + 1) = 2 * Mask(b) /\ Mask(b + 1) \in Nat \ {0}
  BY <1>0, PowerStep
<1>3. PICK v : v = Composed(hi, 1 - bit, lo, b)
  OBVIOUS
<1>4. v = FlippedBit(w, b)
  <2>1. CASE bit = 1
    BY <1>1, <1>2, <1>3, <2>1 DEF Composed, FlippedBit
  <2>2. CASE bit = 0
    BY <1>1, <1>2, <1>3, <2>2 DEF Composed, FlippedBit
  <2> QED BY <2>1, <2>2
<1>5. /\ v \in Nat
      /\ HasBit(v, b) <=> 1 - bit = 1
      /\ v \div Mask(b + 1) = hi
      /\ w \div Mask(b + 1) = hi
  <2>0. b \in 0 .. 15
    BY <1>0
  <2>1. PICK other \in {0, 1} : other = 1 - bit
    OBVIOUS
  <2>2. v = Composed(hi, other, lo, b)
    BY <1>3, <2>1, Zenon
  <2>3. v \in Nat /\ (HasBit(v, b) <=> other = 1) /\ v \div Mask(b + 1) = hi
    <3>1. /\ Composed(hi, other, lo, b) \in Nat
          /\ HasBit(Composed(hi, other, lo, b), b) <=> other = 1
          /\ Composed(hi, other, lo, b) \div Mask(b + 1) = hi
      BY <2>0, HasBitOf, ZenonT(60)
    <3> QED BY <2>2, <3>1
  <2>4. w \div Mask(b + 1) = hi
    BY <2>0, <1>1, HasBitOf
  <2> QED BY <2>1, <2>3, <2>4
<1>6. v < Mask(WordSize)
  <2>1. b + 1 \in 0 .. 16 /\ WordSize - (b + 1) \in 0 .. 16 - (b + 1) /\ (b + 1) + (WordSize - (b + 1)) = WordSize
    BY <1>0 DEF Bits
  <2>2. PICK m \in Nat \ {0} : m = Mask(WordSize - (b + 1))
    BY <2>1, PowerNat
  <2>3. Mask(WordSize) = Mask(b + 1) * m
    BY <2>1, <2>2, PowerSum
  <2>4. Mask(b + 1) * hi <= w /\ v < Mask(b + 1) * hi + Mask(b + 1)
    <3>1. w \in Int /\ v \in Int /\ b + 1 \in 0 .. 16
      BY <1>0, <1>5, <2>1
    <3>2. /\ \E q \in Int : q = w \div Mask(b + 1) /\ Mask(b + 1) * q <= w /\ w < Mask(b + 1) * q + Mask(b + 1)
          /\ \E q \in Int : q = v \div Mask(b + 1) /\ Mask(b + 1) * q <= v /\ v < Mask(b + 1) * q + Mask(b + 1)
      BY ONLY <3>1, MaskDiv
    <3> QED BY <1>5, <3>2
  <2>5. hi < m
    <3>1. ASSUME hi >= m PROVE FALSE
      <4>1. Mask(b + 1) * hi >= Mask(b + 1) * m
        BY <1>2, <3>1
      <4> QED BY <1>0, <1>2, <2>3, <2>4, <4>1 DEF Bitmaps
    <3> QED BY <3>1
  <2>7. Mask(b + 1) * (hi + 1) <= Mask(b + 1) * m
    BY <1>2, <2>5
  <2> QED BY <1>2, <1>5, <2>3, <2>4, <2>7
<1>7. v \in Bitmaps
  BY <1>0, <1>5, <1>6 DEF Bitmaps
<1>8. ASSUME NEW c \in Bits, c # b PROVE HasBit(v, c) <=> HasBit(w, c)
  <2>0. c \in 0 .. 15
    BY <1>0 DEF Bits
  <2>1. CASE c > b
    <3>1. c \in b + 1 .. 15
      BY <2>0, <2>1, <1>0
    <3>2. v \div Mask(c) = hi \div Mask(c - (b + 1)) /\ w \div Mask(c) = hi \div Mask(c - (b + 1))
      <4>0. b \in 0 .. 15 /\ w \in Nat /\ v \in Nat
        BY <1>0, <1>5
      <4>1. v \div Mask(c) = hi \div Mask(c - (b + 1))
        BY <4>0, <1>5, <3>1, FlipHigher
      <4>2. w \div Mask(c) = hi \div Mask(c - (b + 1))
        BY <4>0, <1>5, <3>1, FlipHigher
      <4> QED BY <4>1, <4>2
    <3> QED BY <3>2 DEF HasBit
  <2>2. CASE c < b
    <3>1. c \in 0 .. b - 1
      BY <2>0, <2>2, <1>0
    <3>2. CASE bit = 0
      <4>1. v = w + Mask(b)
        BY <1>1, <1>4, <3>2 DEF FlippedBit
      <4> QED BY <1>0, <3>1, <4>1, FlipLower
    <3>3. CASE bit = 1
      <4>1. w = v + Mask(b)
        BY <1>0, <1>1, <1>2, <1>4, <3>3 DEF FlippedBit
      <4> QED BY <1>0, <1>5, <3>1, <4>1, FlipLower
    <3> QED BY <3>2, <3>3
  <2> QED BY <2>0, <2>1, <2>2, <1>0, <1>8
<1> QED BY <1>1, <1>4, <1>5, <1>7, <1>8

-----------------------------------------------------------------------------
(* The searches by halves *)

Halves == {1, 2, 4, 8}

LEMMA Shift ==
    ASSUME NEW x, NEW half
    PROVE  ShiftedRight(x, half) = x \div Mask(half)
BY DEF ShiftedRight, Mask

LEMMA DoubleMask ==
    ASSUME NEW half \in Halves
    PROVE  Mask(2 * half) = Mask(half) * Mask(half) /\ Mask(half) \in Nat \ {0}
<1>1. half \in 0 .. 16 /\ half \in 0 .. 16 - half /\ half + half = 2 * half
  BY DEF Halves
<1> QED BY <1>1, PowerSum, PowerNat

\* What mostSignificantBit knows after a step: x is the value shifted by r.
UpperKnown(v, acc, half) ==
    \E x \in 1 .. Mask(half) - 1, r \in 0 .. 16 - half :
        acc = [x |-> x, r |-> r] /\ x = v \div Mask(r)

LEMMA UpperStep ==
    ASSUME NEW v \in Nat, NEW acc, NEW half \in Halves, UpperKnown(v, acc, 2 * half)
    PROVE  UpperKnown(v, Upper(acc, half), half)
<1>1. PICK x \in 1 .. Mask(2 * half) - 1, r \in 0 .. 16 - 2 * half :
          acc = [x |-> x, r |-> r] /\ x = v \div Mask(r)
  BY DEF UpperKnown
<1>2. PICK d \in Nat \ {0} : d = Mask(half) /\ Mask(2 * half) = d * d
  BY DoubleMask
<1>3. half \in Nat /\ half >= 1 /\ r \in 0 .. 16 /\ half \in 0 .. 16 - r /\ r + half \in 0 .. 16 - half
  BY DEF Halves
<1>4. CASE x >= d
  <2>1. PICK y \in Int : y = x \div d /\ d * y <= x /\ x < d * y + d
    BY DivBounds
  <2>2. y >= 1
    <3>1. ASSUME y <= 0 PROVE FALSE
      <4>1. d * y <= 0
        BY <3>1
      <4> QED BY <1>4, <2>1, <4>1
    <3> QED BY <3>1
  <2>3. y < d
    <3>1. ASSUME y >= d PROVE FALSE
      <4>1. d * y >= d * d
        BY <3>1
      <4> QED BY <1>1, <1>2, <2>1, <4>1
    <3> QED BY <3>1
  <2>4. y = v \div Mask(r + half)
    <3>1. PICK e \in Nat \ {0} : e = Mask(r)
      BY <1>3, PowerNat
    <3>2. Mask(r + half) = e * d
      BY <1>2, <1>3, <3>1, PowerSum
    <3>3. (v \div e) \div d = v \div (e * d)
      <4>1. v \in Int
        OBVIOUS
      <4> QED BY <4>1, DivDiv
    <3> QED BY <1>1, <2>1, <3>1, <3>2, <3>3
  <2>5. Upper(acc, half) = [x |-> y, r |-> r + half]
    BY <1>1, <1>2, <1>4, <2>1, Shift DEF Upper
  <2>6. y \in 1 .. Mask(half) - 1
    BY <1>2, <2>1, <2>2, <2>3
  <2> QED BY <1>3, <2>4, <2>5, <2>6 DEF UpperKnown
<1>5. CASE x < d
  <2>1. Upper(acc, half) = acc
    BY <1>1, <1>2, <1>5 DEF Upper
  <2>2. x \in 1 .. Mask(half) - 1 /\ r \in 0 .. 16 - half
    BY <1>2, <1>3, <1>5
  <2> QED BY <1>1, <2>1, <2>2 DEF UpperKnown
<1> QED BY <1>2, <1>4, <1>5

\* mostSignificantBit returns the highest bit of every value.
LEMMA HighestBit ==
    ASSUME NEW v \in 1 .. Mask(16) - 1
    PROVE  MostSignificantBit(v) \in 0 .. 15 /\ v \div Mask(MostSignificantBit(v)) = 1
<1>0. v \in Nat /\ Mask(16) \in Nat /\ Mask(0) = 1 /\ Mask(1) = 2
  BY PowerNat DEF Mask
<1>1. PICK a16, a8, a4, a2, a1 :
          /\ a16 = [x |-> v, r |-> 0]
          /\ a8 = Upper(a16, 8) /\ a4 = Upper(a8, 4) /\ a2 = Upper(a4, 2) /\ a1 = Upper(a2, 1)
  OBVIOUS
<1>2. UpperKnown(v, a16, 16)
  <2>1. v = v \div Mask(0)
    BY <1>0
  <2>2. v \in 1 .. Mask(16) - 1 /\ 0 \in 0 .. 16 - 16
    OBVIOUS
  <2> QED BY <1>1, <2>1, <2>2 DEF UpperKnown
<1>3. {1, 2, 4, 8} = Halves /\ 2 * 8 = 16 /\ 2 * 4 = 8 /\ 2 * 2 = 4 /\ 2 * 1 = 2
  BY DEF Halves
<1>4. UpperKnown(v, a8, 8)
  BY <1>0, <1>1, <1>2, <1>3, UpperStep
<1>5. UpperKnown(v, a4, 4)
  BY <1>0, <1>1, <1>3, <1>4, UpperStep
<1>6. UpperKnown(v, a2, 2)
  BY <1>0, <1>1, <1>3, <1>5, UpperStep
<1>7. UpperKnown(v, a1, 1)
  BY <1>0, <1>1, <1>3, <1>6, UpperStep
<1>8. MostSignificantBit(v) = a1.r
  BY <1>1 DEF MostSignificantBit
<1>9. PICK x \in 1 .. Mask(1) - 1, r \in 0 .. 16 - 1 : a1 = [x |-> x, r |-> r] /\ x = v \div Mask(r)
  BY <1>7 DEF UpperKnown
<1>10. a1.r = r /\ x = 1 /\ r \in 0 .. 15
  BY <1>0, <1>9
<1> QED BY <1>8, <1>9, <1>10

\* What leastSignificantBit knows: the value is x shifted by s, and the lowest bit of x
\* is among the lowest ones.
LowerKnown(v, acc, width) ==
    \E x \in Nat, s \in 0 .. 16 - width :
        /\ acc = [x |-> x, r |-> s + width - 1]
        /\ v = Mask(s) * x
        /\ x % Mask(width) > 0

LEMMA LowerStep ==
    ASSUME NEW v \in Nat, NEW acc, NEW half \in Halves, LowerKnown(v, acc, 2 * half)
    PROVE  LowerKnown(v, Lower(acc, half), half)
<1>1. PICK x \in Nat, s \in 0 .. 16 - 2 * half :
          acc = [x |-> x, r |-> s + 2 * half - 1] /\ v = Mask(s) * x /\ x % Mask(2 * half) > 0
  BY DEF LowerKnown
<1>2. PICK d \in Nat \ {0} : d = Mask(half) /\ Mask(2 * half) = d * d
  BY DoubleMask
<1>3. /\ half \in Nat /\ half >= 1 /\ s \in 0 .. 16 /\ half \in 0 .. 16 - s
      /\ s \in 0 .. 16 - half /\ s + half \in 0 .. 16 - half
  BY DEF Halves
<1>4. CASE x % d > 0
  <2>1. Lower(acc, half) = [x |-> x, r |-> s + half - 1]
    <3>1. PICK g \in Int : g = s + half - 1
      BY <1>3
    <3>2. acc.r - half = g /\ acc.x = x
      BY <1>1, <1>3, <3>1
    <3>3. Lower(acc, half) = [acc EXCEPT !.r = acc.r - half]
      BY <1>1, <1>2, <1>4 DEF Lower
    <3>4. [acc EXCEPT !.r = g] = [x |-> x, r |-> g]
      BY <1>1
    <3>5. [acc EXCEPT !.r = acc.r - half] = [x |-> x, r |-> g]
      BY <3>2, <3>4, Zenon
    <3> QED BY <3>1, <3>3, <3>5, Zenon
  <2> QED BY <1>1, <1>2, <1>3, <1>4, <2>1 DEF LowerKnown
<1>5. CASE ~(x % d > 0)
  <2>0. x \in Int
    OBVIOUS
  <2>1. PICK y \in Int : y = x \div d /\ d * y <= x /\ x < d * y + d /\ x % d = x - d * y
    <3>1. PICK y \in Int : y = x \div d /\ d * y <= x /\ x < d * y + d
      BY <2>0, DivBounds
    <3>2. x % d = x - d * (x \div d)
      BY <2>0, ModIs
    <3> QED BY <3>1, <3>2
  <2>2. x = d * y
    <3>1. x % d \in 0 .. d - 1
      BY <2>0, ModIs
    <3> QED BY <1>5, <2>1, <3>1
  <2>3. y \in Nat
    <3>1. ASSUME y < 0 PROVE FALSE
      <4>1. d * y < 0
        BY <3>1
      <4> QED BY <2>2, <4>1
    <3> QED BY <3>1
  <2>4. Lower(acc, half) = [x |-> y, r |-> (s + half) + half - 1]
    <3>1. s + 2 * half - 1 = (s + half) + half - 1
      BY <1>3
    <3>2. Lower(acc, half) = [acc EXCEPT !.x = ShiftedRight(@, half)]
      BY <1>1, <1>2, <1>5 DEF Lower
    <3>3. [acc EXCEPT !.x = ShiftedRight(@, half)] = [x |-> x \div d, r |-> s + 2 * half - 1]
      BY <1>1, <1>2, Shift
    <3> QED BY <2>1, <3>1, <3>2, <3>3
  <2>5. v = Mask(s + half) * y
    <3>1. PICK e \in Nat \ {0} : e = Mask(s)
      BY <1>3, PowerNat
    <3>2. Mask(s + half) = e * d
      BY <1>2, <1>3, <3>1, PowerSum
    <3>3. e * (d * y) = (e * d) * y
      BY <2>3
    <3> QED BY <1>1, <2>2, <3>1, <3>2, <3>3
  <2>6. y % d > 0
    <3>1. ASSUME y % d = 0 PROVE FALSE
      <4>1. PICK z \in Int : z = y \div d
        OBVIOUS
      <4>2. y = d * z
        <5>1. y \in Int
          BY <2>3
        <5>2. y % d = y - d * (y \div d)
          BY <5>1, ModIs
        <5> QED BY <2>3, <3>1, <4>1, <5>2
      <4>3. x = (d * d) * z
        BY <2>2, <4>2
      <4>4. PICK dd \in Nat \ {0} : dd = d * d
        OBVIOUS
      <4>5. x \div dd = z
        BY <2>0, <4>3, <4>4, DivIs
      <4>6. x % dd = x - dd * (x \div dd)
        BY <2>0, ModIs
      <4>7. x % dd = 0
        BY <4>3, <4>4, <4>5, <4>6
      <4> QED BY <1>1, <1>2, <4>4, <4>7
    <3>2. y % d \in 0 .. d - 1
      <4>1. y \in Int
        BY <2>3
      <4> QED BY <4>1, ModIs
    <3> QED BY <3>1, <3>2
  <2> QED BY <1>2, <1>3, <2>3, <2>4, <2>5, <2>6 DEF LowerKnown
<1> QED BY <1>4, <1>5

\* leastSignificantBit returns the lowest bit of every value.
LEMMA LowestBit ==
    ASSUME NEW v \in 1 .. Mask(16) - 1
    PROVE  /\ LeastSignificantBit(v) \in 0 .. 15
           /\ \E x \in Nat : v = Mask(LeastSignificantBit(v)) * x /\ x % 2 = 1
<1>0. v \in Nat /\ Mask(16) \in Nat \ {0} /\ Mask(0) = 1 /\ Mask(1) = 2
  BY PowerNat DEF Mask
<1>1. PICK a16, a8, a4, a2, a1 :
          /\ a16 = [x |-> v, r |-> 15]
          /\ a8 = Lower(a16, 8) /\ a4 = Lower(a8, 4) /\ a2 = Lower(a4, 2) /\ a1 = Lower(a2, 1)
  OBVIOUS
<1>2. LowerKnown(v, a16, 16)
  <2>1. v = Mask(0) * v /\ 15 = 0 + 16 - 1 /\ 0 \in 0 .. 16 - 16
    BY <1>0
  <2>2. v % Mask(16) > 0
    <3>1. PICK d \in Nat \ {0} : d = Mask(16)
      BY <1>0
    <3>2. v \in Int /\ v < d /\ v > 0
      BY <3>1
    <3>3. v \div d = 0
      BY <3>2, DivIs
    <3>4. v % d = v - d * (v \div d)
      BY <3>2, ModIs
    <3> QED BY <3>1, <3>2, <3>3, <3>4
  <2> QED BY <1>0, <1>1, <2>1, <2>2 DEF LowerKnown
<1>3. {1, 2, 4, 8} = Halves /\ 2 * 8 = 16 /\ 2 * 4 = 8 /\ 2 * 2 = 4 /\ 2 * 1 = 2
  BY DEF Halves
<1>4. LowerKnown(v, a8, 8)
  BY <1>0, <1>1, <1>2, <1>3, LowerStep
<1>5. LowerKnown(v, a4, 4)
  BY <1>0, <1>1, <1>3, <1>4, LowerStep
<1>6. LowerKnown(v, a2, 2)
  BY <1>0, <1>1, <1>3, <1>5, LowerStep
<1>7. LowerKnown(v, a1, 1)
  BY <1>0, <1>1, <1>3, <1>6, LowerStep
<1>8. LeastSignificantBit(v) = a1.r
  BY <1>1 DEF LeastSignificantBit
<1>9. PICK x \in Nat, s \in 0 .. 16 - 1 :
          a1 = [x |-> x, r |-> s + 1 - 1] /\ v = Mask(s) * x /\ x % Mask(1) > 0
  BY <1>7 DEF LowerKnown
<1>10. a1.r = s /\ x % 2 = 1 /\ s \in 0 .. 15
  BY <1>0, <1>9
<1> QED BY <1>8, <1>9, <1>10

LEMMA BelowHasNoBit ==
    ASSUME NEW v \in Nat, NEW c \in 0 .. 16, v < Mask(c)
    PROVE  v \div Mask(c) = 0 /\ ~HasBit(v, c)
<1>1. PICK d \in Nat \ {0} : d = Mask(c)
  BY PowerNat
<1>2. v \in Int /\ v < d
  BY <1>1
<1>3. v \div d = 0
  BY <1>2, DivIs
<1> QED BY <1>1, <1>3 DEF HasBit

LEMMA MaskGrows ==
    ASSUME NEW a \in 0 .. 16, NEW b \in a .. 16
    PROVE  Mask(a) <= Mask(b)
<1>1. b - a \in 0 .. 16 - a /\ b - a \in 0 .. 16 /\ a + (b - a) = b
  OBVIOUS
<1>2. PICK m \in Nat \ {0} : m = Mask(b - a)
  BY <1>1, PowerNat
<1>3. PICK d \in Nat \ {0} : d = Mask(a)
  BY PowerNat
<1>4. Mask(b) = d * m
  BY <1>1, <1>2, <1>3, PowerSum
<1>5. d <= d * m
  OBVIOUS
<1> QED BY <1>3, <1>4, <1>5

\* Nothing above the highest bit
LEMMA AboveHighestBit ==
    ASSUME NEW v \in 1 .. Mask(16) - 1
    PROVE  /\ MostSignificantBit(v) \in 0 .. 15
           /\ HasBit(v, MostSignificantBit(v))
           /\ \A c \in MostSignificantBit(v) + 1 .. 15 : ~HasBit(v, c)
<1>1. PICK m \in 0 .. 15 : m = MostSignificantBit(v) /\ v \div Mask(m) = 1
  BY HighestBit
<1>2. v \in Nat
  OBVIOUS
<1>3. HasBit(v, m)
  BY <1>1 DEF HasBit
<1>4. ASSUME NEW c \in m + 1 .. 15 PROVE ~HasBit(v, c)
  <2>1. /\ m + 1 \in 0 .. 16 /\ c \in 0 .. 16 /\ c \in m + 1 .. 16
    OBVIOUS
  <2>2. PICK d \in Nat \ {0} : d = Mask(m) /\ Mask(m + 1) = 2 * d
    BY PowerStep
  <2>3. v < 2 * d
    <3>1. v \in Int
      OBVIOUS
    <3>2. v < d * (v \div d) + d
      BY <3>1, DivBounds
    <3> QED BY <1>1, <2>2, <3>2
  <2>4. Mask(m + 1) <= Mask(c) /\ Mask(c) \in Nat
    BY <2>1, MaskGrows, PowerNat
  <2>5. v < Mask(c)
    BY <1>2, <2>2, <2>3, <2>4
  <2> QED BY <1>2, <2>1, <2>5, BelowHasNoBit
<1> QED BY <1>1, <1>3, <1>4

\* Nothing below the lowest bit
LEMMA BelowLowestBit ==
    ASSUME NEW v \in 1 .. Mask(16) - 1
    PROVE  /\ LeastSignificantBit(v) \in 0 .. 15
           /\ HasBit(v, LeastSignificantBit(v))
           /\ \A c \in 0 .. LeastSignificantBit(v) - 1 : ~HasBit(v, c)
<1>1. PICK m \in 0 .. 15 : m = LeastSignificantBit(v)
  BY LowestBit
<1>2. PICK x \in Nat : v = Mask(m) * x /\ x % 2 = 1
  BY <1>1, LowestBit
<1>3. HasBit(v, m)
  <2>1. PICK d \in Nat \ {0} : d = Mask(m)
    BY PowerNat
  <2>2. v \in Int /\ x \in Int /\ d * x <= v /\ v < d * x + d
    BY <1>2, <2>1
  <2>3. v \div d = x
    BY <2>2, DivIs
  <2> QED BY <1>2, <2>1, <2>3 DEF HasBit
<1>4. ASSUME NEW c \in 0 .. m - 1 PROVE ~HasBit(v, c)
  <2>1. m \in 0 .. 16 /\ 0 \in Nat /\ c \in 0 .. 16
    OBVIOUS
  <2>2. HasBit(0 + Mask(m) * x, c) <=> HasBit(0, c)
    BY <2>1, AddHigher
  <2>3. 0 + Mask(m) * x = v
    BY <1>2
  <2>4. ~HasBit(0, c)
    <3>1. 0 < Mask(c)
      BY <2>1, PowerNat
    <3> QED BY <2>1, <3>1, BelowHasNoBit
  <2> QED BY <2>2, <2>3, <2>4
<1> QED BY <1>1, <1>3, <1>4

-----------------------------------------------------------------------------
(* The masks of a word *)

LEMMA UpToBits ==
    ASSUME NEW w \in Nat, NEW b \in 0 .. 15, w < Mask(16)
    PROVE  /\ UpToBit(w, b) \in 0 .. Mask(16) - 1
           /\ \A c \in 0 .. 15 : HasBit(UpToBit(w, b), c) <=> (c <= b /\ HasBit(w, c))
<1>1. b + 1 \in 0 .. 16 /\ b + 1 \in Nat /\ 16 \in 0 .. 16
  OBVIOUS
<1>2. PICK d \in Nat \ {0} : d = Mask(b + 1)
  BY <1>1, PowerNat
<1>3. PICK q \in Int, u \in 0 .. d - 1 : w = u + d * q /\ u = w % d
  <2>1. w \in Int
    OBVIOUS
  <2>2. w % d \in 0 .. d - 1 /\ w % d = w - d * (w \div d) /\ w \div d \in Int
    BY <2>1, ModIs, DivBounds
  <2>3. PICK q \in Int : q = w \div d
    BY <2>2
  <2>4. w = (w % d) + d * q
    BY <2>2, <2>3
  <2> QED BY <2>2, <2>4
<1>4. q \in Nat
  <2>1. ASSUME q < 0 PROVE FALSE
    <3>1. d * (q + 1) <= 0
      BY <2>1
    <3> QED BY <1>3, <3>1
  <2> QED BY <2>1
<1>5. UpToBit(w, b) = u
  BY <1>2, <1>3 DEF UpToBit
<1>6. u \in 0 .. Mask(16) - 1
  <2>1. d * q \in Nat
    BY <1>4
  <2>2. Mask(16) \in Nat
    BY <1>1, PowerNat
  <2> QED BY <1>3, <2>1, <2>2
<1>7. ASSUME NEW c \in 0 .. 15 PROVE HasBit(u, c) <=> (c <= b /\ HasBit(w, c))
  <2>0. u \in Nat /\ c \in 0 .. 16
    OBVIOUS
  <2>1. CASE c <= b
    <3>1. c \in 0 .. (b + 1) - 1
      BY <2>1
    <3>2. HasBit(u + Mask(b + 1) * q, c) <=> HasBit(u, c)
      BY <1>1, <1>4, <2>0, <3>1, AddHigher
    <3> QED BY <1>2, <1>3, <2>1, <3>2
  <2>2. CASE c > b
    <3>1. c \in b + 1 .. 16
      BY <2>2
    <3>2. Mask(b + 1) <= Mask(c) /\ Mask(c) \in Nat
      BY <1>1, <2>0, <3>1, MaskGrows, PowerNat
    <3>3. u < Mask(c)
      BY <1>2, <3>2
    <3>4. ~HasBit(u, c)
      BY <2>0, <3>3, BelowHasNoBit
    <3> QED BY <2>2, <3>4
  <2> QED BY <2>1, <2>2
<1> QED BY <1>5, <1>6, <1>7

LEMMA FromBits ==
    ASSUME NEW w \in Nat, NEW b \in 0 .. 15, w < Mask(16)
    PROVE  /\ FromBit(w, b) \in 0 .. Mask(16) - 1
           /\ \A c \in 0 .. 15 : HasBit(FromBit(w, b), c) <=> (c >= b /\ HasBit(w, c))
<1>1. b \in 0 .. 16 /\ 16 \in 0 .. 16 /\ 0 \in Nat
  OBVIOUS
<1>2. PICK d \in Nat \ {0} : d = Mask(b)
  BY <1>1, PowerNat
<1>3. PICK q \in Int, u \in 0 .. d - 1 : w = u + d * q /\ u = w % d /\ q = w \div d
  <2>1. w \in Int
    OBVIOUS
  <2>2. w % d \in 0 .. d - 1 /\ w % d = w - d * (w \div d) /\ w \div d \in Int
    BY <2>1, ModIs, DivBounds
  <2>3. PICK q \in Int : q = w \div d
    BY <2>2
  <2>4. w = (w % d) + d * q
    BY <2>2, <2>3
  <2> QED BY <2>2, <2>3, <2>4
<1>4. q \in Nat
  <2>1. ASSUME q < 0 PROVE FALSE
    <3>1. d * (q + 1) <= 0
      BY <2>1
    <3> QED BY <1>3, <3>1
  <2> QED BY <2>1
<1>5. PICK v \in Nat : v = d * q
  BY <1>4
<1>6. FromBit(w, b) = v
  BY <1>2, <1>3, <1>5 DEF FromBit
<1>7. v \in 0 .. Mask(16) - 1
  <2>1. Mask(16) \in Nat
    BY <1>1, PowerNat
  <2> QED BY <1>3, <1>5, <2>1
<1>8. ASSUME NEW c \in 0 .. 15 PROVE HasBit(v, c) <=> (c >= b /\ HasBit(w, c))
  <2>0. c \in 0 .. 16
    OBVIOUS
  <2>1. CASE c < b
    <3>1. c \in 0 .. b - 1
      BY <2>1
    <3>2. HasBit(0 + Mask(b) * q, c) <=> HasBit(0, c)
      BY <1>1, <1>4, <3>1, AddHigher
    <3>3. 0 + Mask(b) * q = v
      BY <1>2, <1>5
    <3>4. ~HasBit(0, c)
      <4>1. 0 < Mask(c)
        BY <2>0, PowerNat
      <4> QED BY <1>1, <2>0, <4>1, BelowHasNoBit
    <3> QED BY <2>1, <3>2, <3>3, <3>4
  <2>2. CASE c >= b
    <3>1. c - b \in 0 .. 16 - b /\ c - b \in 0 .. 16 /\ b + (c - b) = c
      BY <2>2
    <3>2. PICK e \in Nat \ {0} : e = Mask(c - b)
      BY <3>1, PowerNat
    <3>3. Mask(c) = d * e
      BY <1>1, <1>2, <3>1, <3>2, PowerSum
    <3>4. w \in Int /\ v \in Int /\ q \in Int
      OBVIOUS
    <3>5. v \div d = q
      BY <1>5, <3>4, DivIs
    <3>6. (v \div d) \div e = v \div (d * e) /\ (w \div d) \div e = w \div (d * e)
      BY <3>4, DivDiv
    <3>7. v \div Mask(c) = w \div Mask(c)
      BY <1>3, <3>3, <3>5, <3>6
    <3> QED BY <2>2, <3>7 DEF HasBit
  <2> QED BY <2>1, <2>2
<1> QED BY <1>6, <1>7, <1>8

LEMMA NoBitsInZero ==
    ASSUME NEW c \in 0 .. 15
    PROVE  ~HasBit(0, c)
<1>1. c \in 0 .. 16 /\ 0 \in Nat
  OBVIOUS
<1>2. 0 < Mask(c)
  BY <1>1, PowerNat
<1> QED BY <1>1, <1>2, BelowHasNoBit

-----------------------------------------------------------------------------
(* Places of the bitmap *)

LEMMA Placed ==
    ASSUME NEW w \in Int, NEW b \in Bits, NEW c, c = WordSize * w + b
    PROVE  c \in Int /\ WordPos(c) = w /\ BitPos(c) = b
<1>1. PICK d \in Nat \ {0} : d = WordSize
  BY BitMathAssumption
<1>2. b \in 0 .. d - 1 /\ c = d * w + b /\ c \in Int
  BY <1>1 DEF Bits
<1>3. c \div d = w
  BY <1>2, DivIs
<1>4. c % d = c - d * (c \div d)
  BY <1>2, ModIs
<1>5. c % d = b
  <2>1. PICK e \in Int : e = d * w
    OBVIOUS
  <2>2. c % d = c - d * w
    BY <1>3, <1>4, Zenon
  <2> QED BY <1>2, <2>1, <2>2
<1> QED BY <1>1, <1>2, <1>3, <1>5 DEF WordPos, BitPos, Remainder

LEMMA Places ==
    ASSUME NEW c \in Int
    PROVE  \E w \in Int, b \in Bits : c = WordSize * w + b /\ WordPos(c) = w /\ BitPos(c) = b
<1>1. PICK d \in Nat \ {0} : d = WordSize
  BY BitMathAssumption
<1>2. PICK w \in Int : w = c \div d
  BY DivBounds
<1>3. PICK b \in 0 .. d - 1 : b = c % d /\ b = c - d * w
  BY <1>2, ModIs
<1>4. c = WordSize * w + b /\ b \in Bits
  BY <1>1, <1>3 DEF Bits
<1>5. WordPos(c) = w /\ BitPos(c) = b
  BY <1>4, Placed
<1> QED BY <1>4, <1>5

LEMMA WordBits ==
    /\ \A b \in Bits : b \in 0 .. 15
    /\ \A w \in Bitmaps : w \in Nat /\ w < Mask(16) /\ w < Mask(WordSize)
    /\ \A w \in 0 .. Mask(16) - 1, b \in 0 .. 15 : w < Mask(WordSize) /\ HasBit(w, b) => b \in Bits
<1>1. WordSize \in 1 .. 16 /\ WordSize \in 0 .. 16 /\ 16 \in WordSize .. 16 /\ 16 \in 0 .. 16
  BY BitMathAssumption
<1>2. Mask(WordSize) <= Mask(16) /\ Mask(WordSize) \in Nat /\ Mask(16) \in Nat
  BY <1>1, MaskGrows, PowerNat
<1>3. ASSUME NEW w \in 0 .. Mask(16) - 1, NEW b \in 0 .. 15, w < Mask(WordSize), b >= WordSize
      PROVE  ~HasBit(w, b)
  <2>1. b \in WordSize .. 16 /\ b \in 0 .. 16 /\ w \in Nat
    BY <1>1, <1>3
  <2>2. Mask(WordSize) <= Mask(b) /\ Mask(b) \in Nat
    BY <1>1, <2>1, MaskGrows, PowerNat
  <2>3. w < Mask(b)
    BY <1>2, <1>3, <2>1, <2>2
  <2> QED BY <2>1, <2>3, BelowHasNoBit
<1> QED BY <1>1, <1>2, <1>3 DEF Bits, Bitmaps

\* The search of a word, downwards from a bit and upwards from it
DownFrom(word, bit) ==
    LET masked == UpToBit(word, bit) IN IF masked # 0 THEN MostSignificantBit(masked) ELSE 0
UpFrom(word, bit) ==
    LET masked == FromBit(word, bit) IN IF masked # 0 THEN LeastSignificantBit(masked) ELSE WordSize - 1

LEMMA SearchWordDown ==
    ASSUME NEW w \in Bitmaps, NEW b \in Bits
    PROVE  /\ DownFrom(w, b) \in 0 .. b
           /\ UpToBit(w, b) # 0 <=> HasBit(w, DownFrom(w, b))
           /\ \A c \in DownFrom(w, b) + 1 .. b : ~HasBit(w, c)
<1>1. w \in Nat /\ w < Mask(16) /\ b \in 0 .. 15
  BY WordBits
<1>2. PICK m \in 0 .. Mask(16) - 1 : m = UpToBit(w, b)
  BY <1>1, UpToBits
<1>3. \A c \in 0 .. 15 : HasBit(m, c) <=> (c <= b /\ HasBit(w, c))
  BY <1>1, <1>2, UpToBits
<1>4. CASE m # 0
  <2>1. m \in 1 .. Mask(16) - 1
    BY <1>4
  <2>2. PICK r \in 0 .. 15 : r = MostSignificantBit(m) /\ HasBit(m, r) /\ \A c \in r + 1 .. 15 : ~HasBit(m, c)
    BY <2>1, AboveHighestBit
  <2>3. DownFrom(w, b) = r
    BY <1>2, <1>4, <2>2 DEF DownFrom
  <2>4. r <= b /\ HasBit(w, r)
    BY <1>3, <2>2
  <2>5. \A c \in r + 1 .. b : ~HasBit(w, c)
    BY <1>1, <1>3, <2>2
  <2> QED BY <1>1, <1>2, <1>4, <2>3, <2>4, <2>5
<1>5. CASE m = 0
  <2>1. DownFrom(w, b) = 0
    BY <1>2, <1>5 DEF DownFrom
  <2>2. \A c \in 0 .. b : ~HasBit(w, c)
    BY <1>1, <1>3, <1>5, NoBitsInZero
  <2> QED BY <1>1, <1>2, <1>5, <2>1, <2>2
<1> QED BY <1>4, <1>5

LEMMA SearchWordUp ==
    ASSUME NEW w \in Bitmaps, NEW b \in Bits
    PROVE  /\ UpFrom(w, b) \in b .. WordSize - 1
           /\ FromBit(w, b) # 0 <=> HasBit(w, UpFrom(w, b))
           /\ \A c \in b .. UpFrom(w, b) - 1 : ~HasBit(w, c)
<1>1. w \in Nat /\ w < Mask(16) /\ b \in 0 .. 15 /\ w \in 0 .. Mask(16) - 1 /\ w < Mask(WordSize)
  <2>1. w \in Nat /\ w < Mask(16) /\ b \in 0 .. 15 /\ w < Mask(WordSize)
    BY WordBits
  <2>2. Mask(16) \in Nat
    BY PowerNat
  <2> QED BY <2>1, <2>2
<1>2. PICK m \in 0 .. Mask(16) - 1 : m = FromBit(w, b)
  BY <1>1, FromBits
<1>3. \A c \in 0 .. 15 : HasBit(m, c) <=> (c >= b /\ HasBit(w, c))
  BY <1>1, <1>2, FromBits
<1>0. WordSize \in 1 .. 16 /\ b <= WordSize - 1
  BY BitMathAssumption DEF Bits
<1>4. CASE m # 0
  <2>1. m \in 1 .. Mask(16) - 1
    BY <1>4
  <2>2. PICK r \in 0 .. 15 : r = LeastSignificantBit(m) /\ HasBit(m, r) /\ \A c \in 0 .. r - 1 : ~HasBit(m, c)
    BY <2>1, BelowLowestBit
  <2>3. UpFrom(w, b) = r
    BY <1>2, <1>4, <2>2 DEF UpFrom
  <2>4. r >= b /\ HasBit(w, r)
    BY <1>3, <2>2
  <2>5. r \in Bits
    BY <1>1, <2>4, WordBits
  <2>6. \A c \in b .. r - 1 : ~HasBit(w, c)
    BY <1>1, <1>3, <2>2
  <2> QED BY <1>1, <1>2, <1>4, <2>3, <2>4, <2>5, <2>6 DEF Bits
<1>5. CASE m = 0
  <2>1. UpFrom(w, b) = WordSize - 1
    BY <1>2, <1>5 DEF UpFrom
  <2>2. \A c \in b .. 15 : ~HasBit(w, c)
    BY <1>1, <1>3, <1>5, NoBitsInZero
  <2> QED BY <1>0, <1>1, <1>2, <1>5, <2>1, <2>2
<1> QED BY <1>4, <1>5

-----------------------------------------------------------------------------
(* The next tick with liquidity *)

\* Compressed rounds down.
LEMMA CompressedFloor ==
    ASSUME NEW t \in Int
    PROVE  Compressed(t) = t \div TickSpacing
<1>1. PICK s \in Nat \ {0} : s = TickSpacing
  BY TickBitmapAssumption
<1>2. PICK q \in Int : q = t \div s /\ s * q <= t /\ t < s * q + s
  BY DivBounds
<1>3. t % s = t - s * q
  BY <1>2, ModIs
<1>4. CASE t >= 0
  BY <1>1, <1>2, <1>4 DEF Compressed, Quotient
<1>5. CASE t < 0 /\ t % s = 0
  <2>1. PICK u \in Int : u = -t
    OBVIOUS
  <2>2. u = s * (-q)
    BY <1>3, <1>5, <2>1
  <2>3. u \div s = -q
    BY <2>2, DivIs
  <2> QED BY <1>1, <1>2, <1>5, <2>1, <2>3 DEF Compressed, Quotient, Remainder
<1>6. CASE t < 0 /\ t % s # 0
  <2>1. PICK u \in Int : u = -t
    OBVIOUS
  <2>2. PICK p \in Int : p = -q - 1
    OBVIOUS
  <2>3. s * p = -(s * q) - s
    BY <2>2
  <2>4. s * p <= u /\ u < s * p + s
    BY <1>2, <1>3, <1>6, <2>1, <2>3
  <2>5. u \div s = p
    BY <2>4, DivIs
  <2> QED BY <1>1, <1>2, <1>6, <2>1, <2>2, <2>5 DEF Compressed, Quotient, Remainder
<1> QED BY <1>3, <1>4, <1>5, <1>6

LEMMA CompressedBounds ==
    ASSUME NEW t \in Int
    PROVE  /\ Compressed(t) \in Int
           /\ Compressed(t) * TickSpacing <= t
           /\ t < (Compressed(t) + 1) * TickSpacing
<1>1. PICK s \in Nat \ {0} : s = TickSpacing
  BY TickBitmapAssumption
<1>2. PICK q \in Int : q = t \div s /\ s * q <= t /\ t < s * q + s
  BY DivBounds
<1>3. q * s = s * q /\ (q + 1) * s = s * q + s
  OBVIOUS
<1> QED BY <1>1, <1>2, <1>3, CompressedFloor

LEMMA FoundFields ==
    ASSUME NEW found, NEW k, NEW b, found = [tick |-> k, initialized |-> b]
    PROVE  found.tick = k /\ found.initialized = b
OBVIOUS

\* nextInitializedTickWithinOneWord towards lower ticks: it ends at the highest set bit of
\* the word that is not above the tick, or at the first bit of the word. No set bit lies
\* between the tick and where a swap is sent.
THEOREM SearchDown ==
    ASSUME NEW bits \in [Words -> Bitmaps], NEW t \in Int, WordPos(Compressed(t)) \in Words
    PROVE  \E n \in Int :
              /\ NextInitialized(bits, t, TRUE).tick = n * TickSpacing
              /\ NextInitialized(bits, t, TRUE).initialized <=> IsSet(bits, n)
              /\ n <= Compressed(t)
              /\ WordPos(n) = WordPos(Compressed(t))
              /\ \A m \in n + 1 .. Compressed(t) : ~IsSet(bits, m)
<1>1. PICK c \in Int : c = Compressed(t)
  BY CompressedBounds
<1>2. PICK p \in Int, b \in Bits : c = WordSize * p + b /\ WordPos(c) = p /\ BitPos(c) = b
  BY Places
<1>3. PICK w \in Bitmaps : w = bits[p]
  BY <1>1, <1>2
<1>4. PICK r \in 0 .. b :
          /\ r = DownFrom(w, b)
          /\ UpToBit(w, b) # 0 <=> HasBit(w, r)
          /\ \A d \in r + 1 .. b : ~HasBit(w, d)
  BY SearchWordDown
<1>5. WordSize \in 1 .. 16 /\ b \in Int /\ b <= WordSize - 1
  BY BitMathAssumption DEF Bits
<1>6. PICK n \in Int : n = c + r - b
  BY <1>5
<1>7. NextInitialized(bits, t, TRUE) = [tick |-> (c + r - b) * TickSpacing, initialized |-> UpToBit(w, b) # 0]
  BY <1>1, <1>2, <1>3, <1>4, Zenon DEF NextInitialized, DownFrom
<1>8. NextInitialized(bits, t, TRUE).tick = n * TickSpacing
  <2>1. PICK k, found : k = (c + r - b) * TickSpacing /\ found = (UpToBit(w, b) # 0)
    OBVIOUS
  <2>2. NextInitialized(bits, t, TRUE) = [tick |-> k, initialized |-> found]
    BY <1>7, <2>1, Zenon
  <2>3. NextInitialized(bits, t, TRUE).tick = k
    BY <2>2, FoundFields, Zenon
  <2>4. k = n * TickSpacing
    BY <1>6, <2>1, Zenon
  <2> QED BY <2>3, <2>4, Zenon
<1>9. NextInitialized(bits, t, TRUE).initialized <=> UpToBit(w, b) # 0
  <2>1. PICK k, found : k = (c + r - b) * TickSpacing /\ found = (UpToBit(w, b) # 0)
    OBVIOUS
  <2>2. NextInitialized(bits, t, TRUE) = [tick |-> k, initialized |-> found]
    BY <1>7, <2>1, Zenon
  <2>3. NextInitialized(bits, t, TRUE).initialized = found
    BY <2>2, FoundFields, Zenon
  <2> QED BY <2>1, <2>3, Zenon
<1>10. ASSUME NEW d \in r .. b, NEW m \in Int, m = c + d - b
       PROVE  WordPos(m) = p /\ BitPos(m) = d
  <2>1. d \in Bits /\ m = WordSize * p + d
    BY <1>2, <1>5, <1>10 DEF Bits
  <2> QED BY <2>1, Placed
<1>11. WordPos(n) = p /\ BitPos(n) = r
  <2>1. r \in r .. b
    BY <1>5
  <2> QED BY <1>6, <1>10, <2>1
<1>12. IsSet(bits, n) <=> HasBit(w, r)
  BY <1>3, <1>11 DEF IsSet
<1>13. ASSUME NEW m \in n + 1 .. c PROVE ~IsSet(bits, m)
  <2>1. PICK d \in Int : d = m - c + b
    BY <1>5
  <2>2. d \in r + 1 .. b /\ d \in r .. b /\ m = c + d - b /\ m \in Int
    BY <1>5, <1>6, <2>1
  <2>3. WordPos(m) = p /\ BitPos(m) = d
    BY <1>10, <2>2
  <2> QED BY <1>3, <1>4, <2>2, <2>3 DEF IsSet
<1>14. n <= c
  BY <1>5, <1>6
<1> QED BY <1>1, <1>2, <1>4, <1>8, <1>9, <1>11, <1>12, <1>13, <1>14

\* nextInitializedTickWithinOneWord towards higher ticks: it ends at the lowest set bit of
\* the word that is above the tick, or at the last bit of the word, and leaves none behind.
THEOREM SearchUp ==
    ASSUME NEW bits \in [Words -> Bitmaps], NEW t \in Int, WordPos(Compressed(t) + 1) \in Words
    PROVE  \E n \in Int :
              /\ NextInitialized(bits, t, FALSE).tick = n * TickSpacing
              /\ NextInitialized(bits, t, FALSE).initialized <=> IsSet(bits, n)
              /\ n >= Compressed(t) + 1
              /\ WordPos(n) = WordPos(Compressed(t) + 1)
              /\ \A m \in Compressed(t) + 1 .. n - 1 : ~IsSet(bits, m)
<1>1. PICK c \in Int : c = Compressed(t) + 1
  BY CompressedBounds
<1>2. PICK p \in Int, b \in Bits : c = WordSize * p + b /\ WordPos(c) = p /\ BitPos(c) = b
  BY Places
<1>3. PICK w \in Bitmaps : w = bits[p]
  BY <1>1, <1>2
<1>4. PICK r \in b .. WordSize - 1 :
          /\ r = UpFrom(w, b)
          /\ FromBit(w, b) # 0 <=> HasBit(w, r)
          /\ \A d \in b .. r - 1 : ~HasBit(w, d)
  BY SearchWordUp
<1>5. WordSize \in 1 .. 16 /\ b \in Int /\ b >= 0 /\ r \in Int
  BY BitMathAssumption DEF Bits
<1>6. PICK n \in Int : n = c + r - b
  BY <1>5
<1>7. NextInitialized(bits, t, FALSE) = [tick |-> (c + r - b) * TickSpacing, initialized |-> FromBit(w, b) # 0]
  BY <1>1, <1>2, <1>3, <1>4, Zenon DEF NextInitialized, UpFrom
<1>8. NextInitialized(bits, t, FALSE).tick = n * TickSpacing
  <2>1. PICK k, found : k = (c + r - b) * TickSpacing /\ found = (FromBit(w, b) # 0)
    OBVIOUS
  <2>2. NextInitialized(bits, t, FALSE) = [tick |-> k, initialized |-> found]
    BY <1>7, <2>1, Zenon
  <2>3. NextInitialized(bits, t, FALSE).tick = k
    BY <2>2, FoundFields, Zenon
  <2>4. k = n * TickSpacing
    BY <1>6, <2>1, Zenon
  <2> QED BY <2>3, <2>4, Zenon
<1>9. NextInitialized(bits, t, FALSE).initialized <=> FromBit(w, b) # 0
  <2>1. PICK k, found : k = (c + r - b) * TickSpacing /\ found = (FromBit(w, b) # 0)
    OBVIOUS
  <2>2. NextInitialized(bits, t, FALSE) = [tick |-> k, initialized |-> found]
    BY <1>7, <2>1, Zenon
  <2>3. NextInitialized(bits, t, FALSE).initialized = found
    BY <2>2, FoundFields, Zenon
  <2> QED BY <2>1, <2>3, Zenon
<1>10. ASSUME NEW d \in b .. r, NEW m \in Int, m = c + d - b
       PROVE  WordPos(m) = p /\ BitPos(m) = d
  <2>1. d \in Bits /\ m = WordSize * p + d
    BY <1>2, <1>5, <1>10 DEF Bits
  <2> QED BY <2>1, Placed
<1>11. WordPos(n) = p /\ BitPos(n) = r
  <2>1. r \in b .. r
    BY <1>5
  <2> QED BY <1>6, <1>10, <2>1
<1>12. IsSet(bits, n) <=> HasBit(w, r)
  BY <1>3, <1>11 DEF IsSet
<1>13. ASSUME NEW m \in c .. n - 1 PROVE ~IsSet(bits, m)
  <2>1. PICK d \in Int : d = m - c + b
    BY <1>5
  <2>2. d \in b .. r - 1 /\ d \in b .. r /\ m = c + d - b /\ m \in Int
    BY <1>5, <1>6, <2>1
  <2>3. WordPos(m) = p /\ BitPos(m) = d
    BY <1>10, <2>2
  <2> QED BY <1>3, <1>4, <2>2, <2>3 DEF IsSet
<1>14. n >= c
  BY <1>5, <1>6
<1> QED BY <1>1, <1>2, <1>4, <1>8, <1>9, <1>11, <1>12, <1>13, <1>14

\* flipTick changes the bit of its tick and no other.
LEMMA FlippedTick ==
    ASSUME NEW bits \in [Words -> Bitmaps], NEW n \in Int, WordPos(n) \in Words,
           NEW t \in Int, t = n * TickSpacing
    PROVE  /\ Flipped(bits, t) \in [Words -> Bitmaps]
           /\ IsSet(Flipped(bits, t), n) <=> ~IsSet(bits, n)
           /\ \A m \in Int : m # n /\ WordPos(m) \in Words =>
                 (IsSet(Flipped(bits, t), m) <=> IsSet(bits, m))
<1>1. PICK s \in Nat \ {0} : s = TickSpacing
  BY TickBitmapAssumption
<1>2. Quotient(t, TickSpacing) = n
  <2>1. CASE t >= 0
    <3>1. t \div s = n
      BY <1>1, DivIs
    <3> QED BY <1>1, <2>1, <3>1 DEF Quotient
  <2>2. CASE t < 0
    <3>1. PICK u \in Int : u = -t
      OBVIOUS
    <3>2. u = s * (-n)
      BY <1>1, <3>1
    <3>3. u \div s = -n
      BY <3>2, DivIs
    <3> QED BY <1>1, <2>2, <3>1, <3>3 DEF Quotient
  <2> QED BY <2>1, <2>2
<1>3. PICK p \in Int, b \in Bits : n = WordSize * p + b /\ WordPos(n) = p /\ BitPos(n) = b
  BY Places
<1>4. PICK w \in Bitmaps : w = bits[p]
  BY <1>3
<1>5. Flipped(bits, t) = [bits EXCEPT ![p] = FlippedBit(w, b)]
  BY <1>2, <1>3, <1>4 DEF Flipped, FlippedBit
<1>6. /\ FlippedBit(w, b) \in Bitmaps
      /\ HasBit(FlippedBit(w, b), b) <=> ~HasBit(w, b)
      /\ \A c \in Bits : c # b => (HasBit(FlippedBit(w, b), c) <=> HasBit(w, c))
  BY FlipBit
<1>7. Flipped(bits, t) \in [Words -> Bitmaps]
  BY <1>5, <1>6
<1>8. Flipped(bits, t)[p] = FlippedBit(w, b) /\ \A q \in Words : q # p => Flipped(bits, t)[q] = bits[q]
  BY <1>3, <1>5
<1>9. IsSet(Flipped(bits, t), n) <=> ~IsSet(bits, n)
  BY <1>3, <1>4, <1>6, <1>8 DEF IsSet
<1>10. ASSUME NEW m \in Int, m # n, WordPos(m) \in Words
       PROVE  IsSet(Flipped(bits, t), m) <=> IsSet(bits, m)
  <2>1. PICK q \in Int, c \in Bits : m = WordSize * q + c /\ WordPos(m) = q /\ BitPos(m) = c
    BY Places
  <2>2. CASE q # p
    BY <1>8, <1>10, <2>1, <2>2 DEF IsSet
  <2>3. CASE q = p
    <3>1. c # b
      BY <1>3, <1>10, <2>1, <2>3
    <3> QED BY <1>4, <1>6, <1>8, <2>1, <2>3, <3>1 DEF IsSet
  <2> QED BY <2>2, <2>3
<1> QED BY <1>7, <1>9, <1>10

-----------------------------------------------------------------------------
(* Sums over some of the ranges *)

Weighted(f, S, R) == [x \in S |-> IF x \in R THEN f[x] ELSE 0]

LEMMA SumWeighted ==
    ASSUME NEW f, NEW S, IsFiniteSet(S), NEW R \in SUBSET S, \A x \in S : f[x] \in Int
    PROVE  SumFunctionOnSet(f, R) = SumFunctionOnSet(Weighted(f, S, R), S)
<1> DEFINE w == Weighted(f, S, R)
<1>1. IsFiniteSet(R)
  BY FS_Subset
<1>2. \A x \in S : w[x] \in Int
  BY DEF Weighted
<1>3. \A x \in S \ R : w[x] = 0
  BY DEF Weighted
<1>4. \A x \in R : f[x] = w[x]
  BY DEF Weighted
<1> HIDE DEF w
<1>5. SumFunctionOnSet(w, S) = SumFunctionOnSet(w, R)
  BY <1>2, <1>3, SumDrop
<1>6. SumFunctionOnSet(f, R) = SumFunctionOnSet(w, R)
  BY <1>1, <1>4, SumCongruence
<1> QED BY <1>5, <1>6 DEF w

LEMMA RangesFinite ==
    IsFiniteSet(Ranges) /\ IsFiniteSet(Ticks) /\ \A r \in Ranges : r[1] \in Ticks /\ r[2] \in Ticks /\ r[1] < r[2]
<1>1. IsFiniteSet(Ticks)
  BY PoolMathAssumption, FS_Interval DEF Ticks
<1>2. IsFiniteSet(Ticks \X Ticks)
  BY <1>1, FS_Product
<1>3. IsFiniteSet(Ranges)
  BY <1>2, FS_Subset, PoolAssumption
<1>4. \A r \in Ranges : r[1] \in Ticks /\ r[2] \in Ticks /\ r[1] < r[2]
  BY PoolAssumption DEF CheckTicks
<1> QED BY <1>1, <1>3, <1>4

LEMMA TickInt ==
    \A t \in Ticks : t \in Int
BY PoolMathAssumption DEF Ticks

Around(t) == {r \in Ranges : Covers(r, t)}
StartingAt(t) == {r \in Ranges : r[1] = t}
EndingAt(t) == {r \in Ranges : r[2] = t}

LEMMA SumRangesNat ==
    ASSUME NEW f, \A r \in Ranges : f[r] \in Nat, NEW R \in SUBSET Ranges
    PROVE  SumFunctionOnSet(f, R) \in Nat /\ \A r \in R : f[r] <= SumFunctionOnSet(f, R)
<1>1. IsFiniteSet(R)
  BY RangesFinite, FS_Subset
<1> QED BY <1>1, SumNat, SumBounds

\* What a tick adds to the liquidity in range: what starts there, less what ends there
LEMMA SumCrossing ==
    ASSUME NEW f, \A r \in Ranges : f[r] \in Nat, NEW t \in Int
    PROVE  SumFunctionOnSet(f, Around(t)) = SumFunctionOnSet(f, Around(t - 1))
                + SumFunctionOnSet(f, StartingAt(t)) - SumFunctionOnSet(f, EndingAt(t))
<1> DEFINE W(R) == Weighted(f, Ranges, R)
           both == [r \in Ranges |-> W(Around(t))[r] + W(EndingAt(t))[r]]
<1>1. IsFiniteSet(Ranges) /\ \A r \in Ranges : f[r] \in Int
  BY RangesFinite
<1>2. /\ Around(t) \in SUBSET Ranges /\ Around(t - 1) \in SUBSET Ranges
      /\ StartingAt(t) \in SUBSET Ranges /\ EndingAt(t) \in SUBSET Ranges
  BY DEF Around, StartingAt, EndingAt
<1>3. \A R \in SUBSET Ranges : \A r \in Ranges : W(R)[r] = IF r \in R THEN f[r] ELSE 0
  BY DEF Weighted
<1>4. ASSUME NEW r \in Ranges
      PROVE  both[r] = W(Around(t - 1))[r] + W(StartingAt(t))[r]
  <2>1. r[1] \in Int /\ r[2] \in Int /\ r[1] < r[2]
    BY RangesFinite, TickInt
  <2>2. /\ r \in Around(t) <=> r[1] <= t /\ t < r[2]
        /\ r \in Around(t - 1) <=> r[1] <= t - 1 /\ t - 1 < r[2]
        /\ r \in StartingAt(t) <=> r[1] = t
        /\ r \in EndingAt(t) <=> r[2] = t
    BY DEF Around, StartingAt, EndingAt, Covers
  <2>3. f[r] \in Nat
    OBVIOUS
  <2>4. /\ W(Around(t))[r] = IF r \in Around(t) THEN f[r] ELSE 0
        /\ W(Around(t - 1))[r] = IF r \in Around(t - 1) THEN f[r] ELSE 0
        /\ W(StartingAt(t))[r] = IF r \in StartingAt(t) THEN f[r] ELSE 0
        /\ W(EndingAt(t))[r] = IF r \in EndingAt(t) THEN f[r] ELSE 0
    BY <1>2, <1>3
  <2> HIDE DEF W
  <2> QED BY <2>1, <2>2, <2>3, <2>4
<1>5. \A R \in SUBSET Ranges : \A r \in Ranges : W(R)[r] \in Int
  BY <1>1, <1>3
<1>6. \A r \in Ranges : both[r] = W(Around(t))[r] + W(EndingAt(t))[r]
  OBVIOUS
<1>7. \A R \in SUBSET Ranges : SumFunctionOnSet(f, R) = SumFunctionOnSet(W(R), Ranges) /\ SumFunctionOnSet(f, R) \in Int
  <2>1. \A R \in SUBSET Ranges : SumFunctionOnSet(f, R) \in Nat
    BY SumRangesNat
  <2> QED BY <1>1, <2>1, SumWeighted
<1> HIDE DEF W, both
<1>8. SumFunctionOnSet(both, Ranges) = SumFunctionOnSet(W(Around(t)), Ranges) + SumFunctionOnSet(W(EndingAt(t)), Ranges)
  BY <1>1, <1>2, <1>5, <1>6, SumPlus
<1>9. SumFunctionOnSet(both, Ranges) = SumFunctionOnSet(W(Around(t - 1)), Ranges) + SumFunctionOnSet(W(StartingAt(t)), Ranges)
  BY <1>1, <1>2, <1>4, <1>5, SumPlus
<1> QED BY <1>2, <1>7, <1>8, <1>9

\* Between ticks at which nothing starts or ends, the liquidity in range is the same.
LEMMA SumBetween ==
    ASSUME NEW f, \A r \in Ranges : f[r] \in Nat, NEW u \in Int, NEW v \in Int, u <= v,
           \A t \in u + 1 .. v : t \in Ticks =>
              SumFunctionOnSet(f, StartingAt(t)) = 0 /\ SumFunctionOnSet(f, EndingAt(t)) = 0
    PROVE  SumFunctionOnSet(f, Around(u)) = SumFunctionOnSet(f, Around(v))
<1>1. IsFiniteSet(Ranges) /\ \A r \in Ranges : f[r] \in Int
  BY RangesFinite
<1>2. Around(u) \in SUBSET Ranges /\ Around(v) \in SUBSET Ranges
  BY DEF Around
<1>3. ASSUME NEW r \in Ranges PROVE Weighted(f, Ranges, Around(u))[r] = Weighted(f, Ranges, Around(v))[r]
  <2>1. r[1] \in Int /\ r[2] \in Int /\ r[1] < r[2] /\ r[1] \in Ticks /\ r[2] \in Ticks
    BY RangesFinite, TickInt
  <2>2. r[1] \in u + 1 .. v => f[r] = 0
    <3>1. StartingAt(r[1]) \in SUBSET Ranges /\ r \in StartingAt(r[1])
      BY DEF StartingAt
    <3>2. f[r] <= SumFunctionOnSet(f, StartingAt(r[1]))
      BY <3>1, SumRangesNat
    <3> QED BY <2>1, <3>2
  <2>3. r[2] \in u + 1 .. v => f[r] = 0
    <3>1. EndingAt(r[2]) \in SUBSET Ranges /\ r \in EndingAt(r[2])
      BY DEF EndingAt
    <3>2. f[r] <= SumFunctionOnSet(f, EndingAt(r[2]))
      BY <3>1, SumRangesNat
    <3> QED BY <2>1, <3>2
  <2>4. /\ r \in Around(u) <=> r[1] <= u /\ u < r[2]
        /\ r \in Around(v) <=> r[1] <= v /\ v < r[2]
    BY DEF Around, Covers
  <2>5. /\ Weighted(f, Ranges, Around(u))[r] = IF r \in Around(u) THEN f[r] ELSE 0
        /\ Weighted(f, Ranges, Around(v))[r] = IF r \in Around(v) THEN f[r] ELSE 0
    BY DEF Weighted
  <2>6. CASE f[r] = 0
    BY <2>5, <2>6
  <2>7. CASE f[r] # 0
    <3>1. r[1] \notin u + 1 .. v /\ r[2] \notin u + 1 .. v
      BY <2>2, <2>3, <2>7
    <3>2. r \in Around(u) <=> r \in Around(v)
      BY <2>1, <2>4, <3>1
    <3> QED BY <2>5, <3>2
  <2> QED BY <2>6, <2>7
<1>4. SumFunctionOnSet(Weighted(f, Ranges, Around(u)), Ranges) = SumFunctionOnSet(Weighted(f, Ranges, Around(v)), Ranges)
  BY <1>1, <1>3, SumCongruence
<1>5. SumFunctionOnSet(f, Around(u)) = SumFunctionOnSet(Weighted(f, Ranges, Around(u)), Ranges)
  BY <1>1, <1>2, SumWeighted
<1>6. SumFunctionOnSet(f, Around(v)) = SumFunctionOnSet(Weighted(f, Ranges, Around(v)), Ranges)
  BY <1>1, <1>2, SumWeighted
<1> QED BY <1>4, <1>5, <1>6

\* When one term changes, the sums that have it change by as much.
LEMMA SumChange ==
    ASSUME NEW f, NEW g, NEW S, IsFiniteSet(S), NEW a \in S,
           \A x \in S : f[x] \in Int /\ g[x] \in Int,
           \A x \in S : x # a => g[x] = f[x]
    PROVE  \A R \in SUBSET S : /\ SumFunctionOnSet(f, R) \in Int
                               /\ SumFunctionOnSet(g, R) = SumFunctionOnSet(f, R) + IF a \in R THEN g[a] - f[a] ELSE 0
<1> SUFFICES ASSUME NEW R \in SUBSET S
             PROVE  /\ SumFunctionOnSet(f, R) \in Int
                    /\ SumFunctionOnSet(g, R) = SumFunctionOnSet(f, R) + IF a \in R THEN g[a] - f[a] ELSE 0
  OBVIOUS
<1>1. IsFiniteSet(R) /\ \A x \in R : f[x] \in Int /\ g[x] \in Int
  BY FS_Subset
<1>2. SumFunctionOnSet(f, R) \in Int
  BY <1>1, SumInt
<1>3. CASE a \in R
  <2>1. \A x \in R : x # a => g[x] = f[x]
    OBVIOUS
  <2>2. SumFunctionOnSet(g, R) = SumFunctionOnSet(f, R) - f[a] + g[a]
    BY <1>1, <1>3, <2>1, SumUpdate
  <2> QED BY <1>1, <1>2, <1>3, <2>2
<1>4. CASE a \notin R
  <2>1. \A x \in R : g[x] = f[x]
    BY <1>4
  <2>2. SumFunctionOnSet(g, R) = SumFunctionOnSet(f, R)
    BY <1>1, <2>1, SumCongruence
  <2> QED BY <1>2, <1>4, <2>2
<1> QED BY <1>2, <1>3, <1>4

-----------------------------------------------------------------------------
(* The tick of a price, and the tick a swap is sent to *)

\* The price lies in the tick, or at its upper end.
At(price, t) ==
    /\ t \in MinTick .. MaxTick - 1
    /\ SqrtRatio[t] <= price
    /\ price <= SqrtRatio[t + 1]

LEMMA RatioGrows ==
    /\ \A t \in Ticks : SqrtRatio[t] \in Nat \ {0}
    /\ \A t, u \in Ticks : t <= u => SqrtRatio[t] <= SqrtRatio[u]
    /\ \A t, u \in Ticks : SqrtRatio[t] < SqrtRatio[u] => t < u
<1>1. \A t \in Ticks : SqrtRatio[t] \in Nat \ {0} /\ t \in Int
  BY PoolMathAssumption, TickInt
<1>2. \A t, u \in Ticks : t <= u => SqrtRatio[t] <= SqrtRatio[u]
  <2>1. \A t, u \in Ticks : t < u => SqrtRatio[t] < SqrtRatio[u]
    BY PoolMathAssumption
  <2>2. \A t, u \in Ticks : t <= u => t < u \/ t = u
    BY <1>1
  <2> QED BY <1>1, <2>1, <2>2
<1>3. \A t, u \in Ticks : SqrtRatio[t] < SqrtRatio[u] => t < u
  BY <1>1, <1>2
<1> QED BY <1>1, <1>2, <1>3

LEMMA TickOfPrice ==
    ASSUME NEW p \in MinRatio .. MaxRatio - 1
    PROVE  /\ TickAtSqrtRatio(p) \in MinTick .. MaxTick - 1
           /\ SqrtRatio[TickAtSqrtRatio(p)] <= p
           /\ p < SqrtRatio[TickAtSqrtRatio(p) + 1]
<1> DEFINE S == {t \in Ticks : SqrtRatio[t] <= p}
<1>0. MinTick \in Ticks /\ MaxTick \in Ticks /\ MinTick \in Int /\ MaxTick \in Int
  BY PoolMathAssumption DEF Ticks
<1>1. MinTick \in S
  BY <1>0 DEF MinRatio
<1>2. S \in SUBSET (MinTick .. MaxTick)
  BY DEF Ticks
<1>3. PICK m \in S : m = Max(S) /\ \A y \in S : m >= y
  <2> HIDE DEF S
  <2> QED BY <1>0, <1>1, <1>2, HasGreatest
<1>4. m = TickAtSqrtRatio(p)
  BY <1>3 DEF TickAtSqrtRatio
<1>5. m \in Ticks /\ m \in Int /\ SqrtRatio[m] <= p
  BY <1>3, TickInt
<1>6. m < MaxTick
  <2>1. SqrtRatio[m] < SqrtRatio[MaxTick]
    BY <1>0, <1>5, RatioGrows DEF MaxRatio
  <2> QED BY <1>0, <1>5, <2>1, RatioGrows
<1>7. m + 1 \in Ticks /\ m \in MinTick .. MaxTick - 1
  BY <1>0, <1>5, <1>6 DEF Ticks
<1>8. p < SqrtRatio[m + 1]
  <2>1. m + 1 \notin S
    BY <1>3, <1>5
  <2>2. SqrtRatio[m + 1] \in Nat
    BY <1>7, RatioGrows
  <2> QED BY <1>0, <1>7, <2>1, <2>2, RatioGrows DEF MinRatio
<1> QED BY <1>4, <1>5, <1>7, <1>8

LEMMA InWords ==
    /\ \A c \in Compressed(MinTick) .. Compressed(MaxTick) + 1 : WordPos(c) \in Words
    /\ \A t \in MinTick .. MaxTick : Compressed(t) \in Compressed(MinTick) .. Compressed(MaxTick)
<1>1. PICK d \in Nat \ {0}, s \in Nat \ {0} : d = WordSize /\ s = TickSpacing
  BY BitMathAssumption, TickBitmapAssumption
<1>2. MinTick \in Int /\ MaxTick \in Int
  BY PoolMathAssumption
<1>3. PICK lo \in Int, hi \in Int : lo = Compressed(MinTick) /\ hi = Compressed(MaxTick)
  BY <1>2, CompressedBounds
<1>4. ASSUME NEW c \in lo .. hi + 1 PROVE WordPos(c) \in Words
  <2>1. c \div d \in Int /\ lo \div d \in Int /\ (hi + 1) \div d \in Int
    BY DivBounds
  <2>2. lo \div d <= c \div d /\ c \div d <= (hi + 1) \div d
    BY DivGrows
  <2> QED BY <1>1, <1>3, <2>1, <2>2 DEF Words, WordPos
<1>5. ASSUME NEW t \in MinTick .. MaxTick PROVE Compressed(t) \in lo .. hi
  <2>1. t \in Int /\ MinTick <= t /\ t <= MaxTick
    BY <1>2
  <2>2. MinTick \div s <= t \div s /\ t \div s <= MaxTick \div s
    BY <1>2, <2>1, DivGrows
  <2>3. /\ Compressed(t) = t \div s /\ lo = MinTick \div s /\ hi = MaxTick \div s
        /\ Compressed(t) \in Int
    BY <1>1, <1>2, <1>3, <2>1, CompressedFloor, CompressedBounds
  <2> QED BY <2>2, <2>3
<1> QED BY <1>3, <1>4, <1>5

\* The bit of a multiple of the spacing is set iff the tick has liquidity.
BitsOfTicks ==
    \A n \in Int : WordPos(n) \in Words =>
        (IsSet(bitmap, n) <=>
            (n * TickSpacing \in Ticks /\ ticks[n * TickSpacing].liquidityGross > 0))

\* Only multiples have any.
TicksOnGrid ==
    \A t \in Ticks : ticks[t].liquidityGross > 0 => \E n \in Int : t = n * TickSpacing

LEMMA GridTick ==
    ASSUME NEW n \in Int, NEW m \in Int, NEW t \in Int, t = m * TickSpacing
    PROVE  /\ n * TickSpacing \in Int
           /\ t > n * TickSpacing => m > n
           /\ t < n * TickSpacing => m < n
           /\ \A c \in Int : t < (c + 1) * TickSpacing => m <= c
           /\ \A c \in Int : t >= c * TickSpacing => m >= c
<1>1. PICK s \in Nat \ {0} : s = TickSpacing
  BY TickBitmapAssumption
<1>2. \A a, b \in Int : a <= b => a * s <= b * s
  OBVIOUS
<1>3. t > n * s => m > n
  <2>1. ASSUME m <= n PROVE t <= n * s
    BY <1>1, <1>2, <2>1
  <2> QED BY <2>1, <1>1
<1>4. t < n * s => m < n
  <2>1. ASSUME m >= n PROVE t >= n * s
    BY <1>1, <1>2, <2>1
  <2> QED BY <2>1, <1>1
<1>5. ASSUME NEW c \in Int, t < (c + 1) * s PROVE m <= c
  <2>1. ASSUME m >= c + 1 PROVE FALSE
    <3>1. (c + 1) * s <= m * s
      BY <1>2, <2>1
    <3> QED BY <1>1, <1>5, <3>1
  <2> QED BY <2>1
<1>6. ASSUME NEW c \in Int, t >= c * s PROVE m >= c
  <2>1. ASSUME m + 1 <= c PROVE FALSE
    <3>1. (m + 1) * s <= c * s
      BY <1>2, <2>1
    <3>2. (m + 1) * s = m * s + s
      OBVIOUS
    <3> QED BY <1>1, <1>6, <3>1, <3>2
  <2> QED BY <2>1
<1> QED BY <1>1, <1>3, <1>4, <1>5, <1>6

Clamped(k) == IF k < MinTick THEN MinTick ELSE IF k > MaxTick THEN MaxTick ELSE k

LEMMA ClampedFields ==
    ASSUME NEW found, NEW k, NEW b, found = [tick |-> k, initialized |-> b], NEW c,
           NEW next, next = [found EXCEPT !.tick = c]
    PROVE  next.tick = c /\ next.initialized = found.initialized /\ found.tick = k
OBVIOUS

LEMMA NextTickFields ==
    ASSUME NEW t, NEW lte
    PROVE  /\ NextTick(t, lte).tick = Clamped(NextInitialized(bitmap, t, lte).tick)
           /\ NextTick(t, lte).initialized = NextInitialized(bitmap, t, lte).initialized
<1>1. PICK found : found = NextInitialized(bitmap, t, lte)
  OBVIOUS
<1>2. PICK k, b : found = [tick |-> k, initialized |-> b]
  BY <1>1, Zenon DEF NextInitialized
<1>3. PICK next : next = NextTick(t, lte)
  OBVIOUS
<1>4. next = [found EXCEPT !.tick = Clamped(found.tick)]
  BY <1>1, <1>3, Zenon DEF NextTick, Clamped
<1>5. next.tick = Clamped(found.tick) /\ next.initialized = found.initialized
  BY <1>2, <1>4, ClampedFields, Zenon
<1> QED BY <1>1, <1>3, <1>5, Zenon

\* Downwards, no tick with liquidity is passed over, and the tick is the lowest one of
\* the pool or its bit tells whether it has liquidity.
LEMMA NextTickDown ==
    ASSUME bitmap \in [Words -> Bitmaps], BitsOfTicks, TicksOnGrid,
           NEW t \in MinTick .. MaxTick - 1
    PROVE  /\ NextTick(t, TRUE).tick \in MinTick .. t
           /\ \A u \in NextTick(t, TRUE).tick + 1 .. t : ~(ticks[u].liquidityGross > 0)
           /\ NextTick(t, TRUE).tick > MinTick =>
                 (NextTick(t, TRUE).initialized <=> ticks[NextTick(t, TRUE).tick].liquidityGross > 0)
<1>0. MinTick \in Int /\ MaxTick \in Int /\ t \in Int /\ t \in MinTick .. MaxTick
  BY PoolMathAssumption
<1>1. PICK c \in Int : c = Compressed(t) /\ c * TickSpacing <= t /\ t < (c + 1) * TickSpacing
  BY <1>0, CompressedBounds
<1>2. PICK lo \in Int, hi \in Int : lo = Compressed(MinTick) /\ hi = Compressed(MaxTick)
  BY <1>0, CompressedBounds
<1>3. c \in lo .. hi
  BY <1>0, <1>1, <1>2, InWords
<1>4. WordPos(c) \in Words
  BY <1>2, <1>3, InWords
<1>5. PICK n \in Int :
          /\ NextInitialized(bitmap, t, TRUE).tick = n * TickSpacing
          /\ NextInitialized(bitmap, t, TRUE).initialized <=> IsSet(bitmap, n)
          /\ n <= c
          /\ WordPos(n) = WordPos(c)
          /\ \A m \in n + 1 .. c : ~IsSet(bitmap, m)
  BY <1>0, <1>1, <1>4, SearchDown
<1>6. PICK k \in Int : k = n * TickSpacing
  BY TickBitmapAssumption
<1>7. k <= t
  <2>1. PICK s \in Nat \ {0} : s = TickSpacing
    BY TickBitmapAssumption
  <2>2. n * s <= c * s
    BY <1>5
  <2> QED BY <1>1, <1>6, <2>1, <2>2
<1>8. PICK next : next = NextTick(t, TRUE)
  OBVIOUS
<1>9. next.tick = Clamped(k) /\ (next.initialized <=> IsSet(bitmap, n))
  BY <1>5, <1>6, <1>8, NextTickFields, Zenon
<1>10. Clamped(k) = (IF k < MinTick THEN MinTick ELSE k) /\ Clamped(k) \in MinTick .. t
  BY <1>0, <1>7 DEF Clamped
<1>11. ASSUME NEW u \in Clamped(k) + 1 .. t PROVE ~(ticks[u].liquidityGross > 0)
  <2>0. u \in Ticks /\ u \in Int /\ u > k
    BY <1>0, <1>10 DEF Ticks
  <2>1. ASSUME ticks[u].liquidityGross > 0 PROVE FALSE
    <3>1. PICK m \in Int : u = m * TickSpacing
      BY <2>0, <2>1 DEF TicksOnGrid
    <3>2. m > n
      BY <1>6, <2>0, <3>1, GridTick
    <3>3. m <= c
      <4>1. u < (c + 1) * TickSpacing
        <5>1. PICK e \in Int : e = (c + 1) * TickSpacing
          BY TickBitmapAssumption
        <5> QED BY <1>1, <1>10, <2>0, <5>1
      <4> QED BY <2>0, <3>1, <4>1, GridTick
    <3>4. m \in n + 1 .. c /\ ~IsSet(bitmap, m)
      BY <1>5, <3>2, <3>3
    <3>5. m >= lo
      <4>1. u >= lo * TickSpacing
        <5>1. PICK e \in Int : e = lo * TickSpacing /\ e <= MinTick
          BY <1>0, <1>2, CompressedBounds, TickBitmapAssumption
        <5> QED BY <1>0, <1>10, <2>0, <5>1
      <4> QED BY <2>0, <3>1, <4>1, GridTick
    <3>6. WordPos(m) \in Words
      <4>1. m \in lo .. hi + 1
        BY <1>3, <3>3, <3>5
      <4> QED BY <1>2, <4>1, InWords
    <3>7. IsSet(bitmap, m)
      BY <2>0, <2>1, <3>1, <3>6 DEF BitsOfTicks
    <3> QED BY <3>4, <3>7
  <2> QED BY <2>1
<1>12. Clamped(k) > MinTick => (IsSet(bitmap, n) <=> ticks[Clamped(k)].liquidityGross > 0)
  <2>1. ASSUME Clamped(k) > MinTick PROVE IsSet(bitmap, n) <=> ticks[k].liquidityGross > 0
    <3>1. k \in Ticks
      BY <1>0, <1>10, <2>1 DEF Ticks
    <3>2. WordPos(n) \in Words
      BY <1>4, <1>5
    <3> QED BY <1>6, <3>1, <3>2 DEF BitsOfTicks
  <2>2. Clamped(k) > MinTick => Clamped(k) = k
    BY <1>0, <1>10
  <2> QED BY <2>1, <2>2
<1> QED BY <1>8, <1>9, <1>10, <1>11, <1>12, Zenon

\* Upwards, the tick is the highest one of the pool or its bit tells.
LEMMA NextTickUp ==
    ASSUME bitmap \in [Words -> Bitmaps], BitsOfTicks, TicksOnGrid,
           NEW t \in MinTick .. MaxTick - 1
    PROVE  /\ NextTick(t, FALSE).tick \in t + 1 .. MaxTick
           /\ \A u \in t + 1 .. NextTick(t, FALSE).tick - 1 : ~(ticks[u].liquidityGross > 0)
           /\ NextTick(t, FALSE).tick < MaxTick =>
                 (NextTick(t, FALSE).initialized <=> ticks[NextTick(t, FALSE).tick].liquidityGross > 0)
<1>0. MinTick \in Int /\ MaxTick \in Int /\ t \in Int /\ t \in MinTick .. MaxTick
  BY PoolMathAssumption
<1>1. PICK c \in Int : c = Compressed(t) + 1 /\ (c - 1) * TickSpacing <= t /\ t < c * TickSpacing
  <2>1. PICK d \in Int : d = Compressed(t) /\ d * TickSpacing <= t /\ t < (d + 1) * TickSpacing
    BY <1>0, CompressedBounds
  <2>2. (d + 1) - 1 = d /\ d + 1 \in Int
    OBVIOUS
  <2> QED BY <2>1, <2>2, Zenon
<1>2. PICK lo \in Int, hi \in Int : lo = Compressed(MinTick) /\ hi = Compressed(MaxTick)
  BY <1>0, CompressedBounds
<1>3. c \in lo .. hi + 1
  <2>1. c - 1 \in lo .. hi
    <3>1. Compressed(t) \in lo .. hi
      BY <1>0, <1>2, InWords
    <3> QED BY <1>1, <3>1
  <2> QED BY <2>1
<1>4. WordPos(c) \in Words
  BY <1>2, <1>3, InWords
<1>5. PICK n \in Int :
          /\ NextInitialized(bitmap, t, FALSE).tick = n * TickSpacing
          /\ NextInitialized(bitmap, t, FALSE).initialized <=> IsSet(bitmap, n)
          /\ n >= c
          /\ WordPos(n) = WordPos(c)
          /\ \A m \in c .. n - 1 : ~IsSet(bitmap, m)
  BY <1>0, <1>1, <1>4, SearchUp
<1>6. PICK k \in Int : k = n * TickSpacing
  BY TickBitmapAssumption
<1>7. k > t
  <2>1. PICK s \in Nat \ {0} : s = TickSpacing
    BY TickBitmapAssumption
  <2>2. c * s <= n * s
    BY <1>5
  <2> QED BY <1>1, <1>6, <2>1, <2>2
<1>8. PICK next : next = NextTick(t, FALSE)
  OBVIOUS
<1>9. next.tick = Clamped(k) /\ (next.initialized <=> IsSet(bitmap, n))
  BY <1>5, <1>6, <1>8, NextTickFields, Zenon
<1>10. Clamped(k) = (IF k > MaxTick THEN MaxTick ELSE k) /\ Clamped(k) \in t + 1 .. MaxTick
  BY <1>0, <1>7 DEF Clamped
<1>11. ASSUME NEW u \in t + 1 .. Clamped(k) - 1 PROVE ~(ticks[u].liquidityGross > 0)
  <2>0. u \in Ticks /\ u \in Int /\ u < k /\ u > t
    BY <1>0, <1>10 DEF Ticks
  <2>1. ASSUME ticks[u].liquidityGross > 0 PROVE FALSE
    <3>1. PICK m \in Int : u = m * TickSpacing
      BY <2>0, <2>1 DEF TicksOnGrid
    <3>2. m < n
      BY <1>6, <2>0, <3>1, GridTick
    <3>3. m >= c
      <4>1. PICK e \in Int : e = (c - 1) * TickSpacing
        BY TickBitmapAssumption
      <4>2. u > (c - 1) * TickSpacing
        BY <1>1, <2>0, <4>1
      <4>3. m > c - 1
        BY <2>0, <3>1, <4>2, GridTick
      <4> QED BY <4>3
    <3>4. m \in c .. n - 1 /\ ~IsSet(bitmap, m)
      BY <1>5, <3>2, <3>3
    <3>5. m <= hi
      <4>1. u < (hi + 1) * TickSpacing
        <5>1. PICK e \in Int : e = (hi + 1) * TickSpacing /\ MaxTick < e
          BY <1>0, <1>2, CompressedBounds, TickBitmapAssumption
        <5> QED BY <1>0, <1>10, <2>0, <5>1
      <4> QED BY <2>0, <3>1, <4>1, GridTick
    <3>6. WordPos(m) \in Words
      <4>1. m \in lo .. hi + 1
        BY <1>3, <3>3, <3>5
      <4> QED BY <1>2, <4>1, InWords
    <3>7. IsSet(bitmap, m)
      BY <2>0, <2>1, <3>1, <3>6 DEF BitsOfTicks
    <3> QED BY <3>4, <3>7
  <2> QED BY <2>1
<1>12. Clamped(k) < MaxTick => (IsSet(bitmap, n) <=> ticks[Clamped(k)].liquidityGross > 0)
  <2>1. ASSUME Clamped(k) < MaxTick PROVE IsSet(bitmap, n) <=> ticks[k].liquidityGross > 0
    <3>1. k \in Ticks
      BY <1>0, <1>7, <1>10, <2>1 DEF Ticks
    <3>2. WordPos(n) \in Words
      BY <1>4, <1>5
    <3> QED BY <1>6, <3>1, <3>2 DEF BitsOfTicks
  <2>2. Clamped(k) < MaxTick => Clamped(k) = k
    BY <1>0, <1>10
  <2> QED BY <2>1, <2>2
<1> QED BY <1>8, <1>9, <1>10, <1>11, <1>12, Zenon

-----------------------------------------------------------------------------
(* Types *)

Keys == {PositionKey(r) : r \in Ranges}

PoolTyped ==
    /\ slot0 \in [sqrtPrice : Nat, tick : Ticks \cup {None}]
    /\ liquidity \in Nat
    /\ feeGrowth \in [Tokens -> Int]
    /\ ticks \in [Ticks -> TickInfos]
    /\ bitmap \in [Words -> Bitmaps]
    /\ positions \in [Keys -> PositionInfos]
    /\ swap = None \/ swap \in Swaps

LEMMA InsideTyped ==
    ASSUME feeGrowth \in [Tokens -> Int], NEW infos \in [Ticks -> TickInfos], NEW range \in Ranges
    PROVE  FeeGrowthInside(infos, range) \in [Tokens -> Int]
<1>1. range[1] \in Ticks /\ range[2] \in Ticks
  BY RangesFinite
<1>2. PICK lower \in [Tokens -> Int], upper \in [Tokens -> Int] :
          lower = infos[range[1]].outside /\ upper = infos[range[2]].outside
  <2>1. infos[range[1]] \in TickInfos /\ infos[range[2]] \in TickInfos
    BY <1>1
  <2> QED BY <2>1 DEF TickInfos
<1>3. ASSUME NEW i \in Tokens, NEW below, NEW above,
             below = IF slot0.tick >= range[1] THEN lower[i] ELSE feeGrowth[i] - lower[i],
             above = IF slot0.tick < range[2] THEN upper[i] ELSE feeGrowth[i] - upper[i]
      PROVE  Wrap256(feeGrowth[i] - below - above) \in Int
  <2>1. feeGrowth[i] \in Int /\ lower[i] \in Int /\ upper[i] \in Int
    OBVIOUS
  <2>2. below \in Int
    BY <1>3, <2>1
  <2>3. above \in Int
    BY <1>3, <2>1
  <2>4. feeGrowth[i] - below - above \in Int
    BY <2>1, <2>2, <2>3
  <2>5. Wrap256(feeGrowth[i] - below - above) \in Nat
    BY <2>4, WrapNat
  <2> QED BY <2>5
<1>4. FeeGrowthInside(infos, range) =
        [i \in Tokens |-> Wrap256(feeGrowth[i]
            - (IF slot0.tick >= range[1] THEN lower[i] ELSE feeGrowth[i] - lower[i])
            - (IF slot0.tick < range[2] THEN upper[i] ELSE feeGrowth[i] - upper[i]))]
  BY <1>2, Zenon DEF FeeGrowthInside
<1>5. \A i \in Tokens : Wrap256(feeGrowth[i]
            - (IF slot0.tick >= range[1] THEN lower[i] ELSE feeGrowth[i] - lower[i])
            - (IF slot0.tick < range[2] THEN upper[i] ELSE feeGrowth[i] - upper[i])) \in Int
  BY <1>3, Zenon
<1> QED BY <1>4, <1>5, Zenon

LEMMA PositionFields ==
    ASSUME NEW p \in PositionInfos
    PROVE  p.liquidity \in Nat /\ p.insideLast \in [Tokens -> Int] /\ p.tokensOwed \in [Tokens -> Int]
BY DEF PositionInfos

LEMMA PositionMade ==
    ASSUME NEW l \in Nat, NEW inside \in [Tokens -> Int], NEW owed \in [Tokens -> Int],
           NEW p, p = [liquidity |-> l, insideLast |-> inside, tokensOwed |-> owed]
    PROVE  /\ p \in PositionInfos
           /\ p.liquidity = l /\ p.insideLast = inside /\ p.tokensOwed = owed
BY DEF PositionInfos

\* What is owed for some liquidity since a fee growth was read
LEMMA OwedTyped ==
    ASSUME NEW owed \in [Tokens -> Int], NEW inside \in [Tokens -> Int],
           NEW last \in [Tokens -> Int], NEW l \in Nat
    PROVE  [i \in Tokens |-> Wrap128(owed[i] + MulDiv(Wrap256(inside[i] - last[i]), l, Q128))]
              \in [Tokens -> Int]
<1> SUFFICES ASSUME NEW i \in Tokens
             PROVE  Wrap128(owed[i] + MulDiv(Wrap256(inside[i] - last[i]), l, Q128)) \in Int
  OBVIOUS
<1>1. owed[i] \in Int /\ inside[i] - last[i] \in Int /\ Q128 \in Nat \ {0}
  BY PoolMathAssumption
<1>2. PICK w \in Nat : w = Wrap256(inside[i] - last[i])
  BY <1>1, WrapNat
<1>3. MulDiv(w, l, Q128) \in Nat
  BY <1>1, MulDivNat
<1>4. owed[i] + MulDiv(w, l, Q128) \in Int
  BY <1>1, <1>3
<1> QED BY <1>2, <1>4, WrapNat

LEMMA UpdatedTyped ==
    ASSUME NEW p \in PositionInfos, NEW delta \in Int, p.liquidity + delta \in Nat,
           NEW inside \in [Tokens -> Int]
    PROVE  /\ UpdatedPosition(p, delta, inside) \in PositionInfos
           /\ UpdatedPosition(p, delta, inside).liquidity = p.liquidity + delta
           /\ UpdatedPosition(p, delta, inside).insideLast = inside
<1>1. PICK owed : owed = [i \in Tokens |-> Wrap128(p.tokensOwed[i] +
                            MulDiv(Wrap256(inside[i] - p.insideLast[i]), p.liquidity, Q128))]
  OBVIOUS
<1>2. owed \in [Tokens -> Int]
  BY <1>1, PositionFields, OwedTyped
<1>3. UpdatedPosition(p, delta, inside) =
          [liquidity |-> p.liquidity + delta, insideLast |-> inside, tokensOwed |-> owed]
  BY <1>1 DEF UpdatedPosition
<1> QED BY <1>2, <1>3, PositionMade

LEMMA AmountsTyped ==
    ASSUME NEW range \in Ranges, NEW amount \in Nat, At(slot0.sqrtPrice, slot0.tick),
           slot0.sqrtPrice \in Nat
    PROVE  AmountsOf(range, amount, FALSE) \in [Tokens -> Int]
<1>1. PICK lo \in Int, hi \in Int : lo = range[1] /\ hi = range[2] /\ lo \in Ticks /\ hi \in Ticks /\ lo < hi
  BY RangesFinite, TickInt
<1>2. PICK a \in Nat \ {0}, b \in Nat \ {0} : a = SqrtRatio[lo] /\ b = SqrtRatio[hi] /\ a <= b
  BY <1>1, RatioGrows
<1>3. PICK t \in Int : t = slot0.tick /\ t \in MinTick .. MaxTick - 1
  BY PoolMathAssumption DEF At
<1>4. PICK p \in Nat : p = slot0.sqrtPrice
  OBVIOUS
<1>5. t \in Ticks /\ t + 1 \in Ticks /\ SqrtRatio[t] <= p /\ p <= SqrtRatio[t + 1]
  BY <1>3, <1>4, PoolMathAssumption DEF At, Ticks
<1>6. t >= lo => a <= p
  BY <1>1, <1>2, <1>5, RatioGrows
<1>7. t < hi => p <= b
  <2>1. t < hi => SqrtRatio[t + 1] <= SqrtRatio[hi]
    BY <1>1, <1>5, RatioGrows
  <2>2. SqrtRatio[t + 1] \in Nat
    BY <1>5, RatioGrows
  <2> QED BY <1>2, <1>5, <2>1, <2>2
<1>8. Amount0(a, b, amount, FALSE) \in Nat /\ Amount1(a, b, amount, FALSE) \in Nat
  BY <1>2, Amount0Down, Amount1Down
<1>9. t >= lo /\ t < hi => Amount0(p, b, amount, FALSE) \in Nat /\ Amount1(a, p, amount, FALSE) \in Nat
  <2>1. ASSUME t >= lo, t < hi PROVE Amount0(p, b, amount, FALSE) \in Nat /\ Amount1(a, p, amount, FALSE) \in Nat
    <3>1. a <= p /\ p <= b /\ p \in Nat \ {0}
      BY <1>6, <1>7, <2>1
    <3> QED BY <3>1, Amount0Down, Amount1Down
  <2> QED BY <2>1
<1>10. PICK x0, x1, y0, y1 :
          /\ x0 = Amount0(a, b, amount, FALSE) /\ x1 = Amount1(a, b, amount, FALSE)
          /\ y0 = Amount0(p, b, amount, FALSE) /\ y1 = Amount1(a, p, amount, FALSE)
  OBVIOUS
<1>a. x0 \in Nat /\ x1 \in Nat
  BY <1>8, <1>10, Zenon
<1>b. t >= lo /\ t < hi => y0 \in Nat /\ y1 \in Nat
  BY <1>9, <1>10, Zenon
<1>c. PICK amount0, amount1 : /\ amount0 = IF t < lo THEN x0 ELSE IF t < hi THEN y0 ELSE 0
                              /\ amount1 = IF t < lo THEN 0 ELSE IF t < hi THEN y1 ELSE x1
  OBVIOUS
<1>11. AmountsOf(range, amount, FALSE) = [i \in Tokens |-> IF i = 0 THEN amount0 ELSE amount1]
  BY <1>1, <1>2, <1>3, <1>4, <1>10, <1>c, Zenon DEF AmountsOf
<1>12. amount0 \in Int
  BY <1>a, <1>b, <1>c
<1>13. amount1 \in Int
  BY <1>a, <1>b, <1>c
<1> QED BY <1>11, <1>12, <1>13

LEMMA LiquidityTyped ==
    ASSUME NEW range \in Ranges, NEW desired \in [Tokens -> Nat], slot0.sqrtPrice \in Nat
    PROVE  Liquidity(range, desired) \in Nat
<1>1. PICK lo \in Int, hi \in Int : lo = range[1] /\ hi = range[2] /\ lo \in Ticks /\ hi \in Ticks /\ lo < hi
  BY RangesFinite, TickInt
<1>2. PICK a \in Nat \ {0}, b \in Nat \ {0} : a = SqrtRatio[lo] /\ b = SqrtRatio[hi] /\ a < b
  BY <1>1, RatioGrows, PoolMathAssumption
<1>3. PICK p \in Nat, d0 \in Nat, d1 \in Nat : p = slot0.sqrtPrice /\ d0 = desired[0] /\ d1 = desired[1]
  BY DEF Tokens
<1>4. ASSUME NEW x \in Nat, NEW y \in Nat, x < y, NEW n \in Nat
      PROVE  LiquidityForAmount0(x, y, n) \in Nat /\ LiquidityForAmount1(x, y, n) \in Nat
  <2>1. y - x \in Nat \ {0} /\ Q96 \in Nat \ {0} /\ Q96 \in Nat
    BY <1>4, PoolMathAssumption
  <2>2. MulDiv(x, y, Q96) \in Nat
    BY <2>1, MulDivNat
  <2>3. MulDiv(n, MulDiv(x, y, Q96), y - x) \in Nat /\ MulDiv(n, Q96, y - x) \in Nat
    BY <2>1, <2>2, MulDivNat
  <2> QED BY <2>3 DEF LiquidityForAmount0, LiquidityForAmount1
<1>5. Liquidity(range, desired) = LiquidityForAmounts(p, a, b, d0, d1)
  BY <1>1, <1>2, <1>3 DEF Liquidity
<1>6. CASE p <= a
  <2>1. LiquidityForAmounts(p, a, b, d0, d1) = LiquidityForAmount0(a, b, d0)
    BY <1>6 DEF LiquidityForAmounts
  <2> QED BY <1>2, <1>4, <1>5, <2>1
<1>7. CASE ~(p <= a) /\ p < b
  <2>1. PICK m \in Nat, n \in Nat : m = LiquidityForAmount0(p, b, d0) /\ n = LiquidityForAmount1(a, p, d1)
    <3>1. LiquidityForAmount0(p, b, d0) \in Nat
      BY <1>4, <1>7
    <3>2. LiquidityForAmount1(a, p, d1) \in Nat
      <4>1. a < p /\ a \in Nat
        BY <1>7
      <4> QED BY <1>4, <4>1
    <3> QED BY <3>1, <3>2
  <2>2. LiquidityForAmounts(p, a, b, d0, d1) = Min({m, n})
    BY <1>7, <2>1, Zenon DEF LiquidityForAmounts
  <2>3. Min({m, n}) \in Nat
    BY LeastOfTwo
  <2> QED BY <1>5, <2>2, <2>3
<1>8. CASE ~(p <= a) /\ ~(p < b)
  <2>1. LiquidityForAmounts(p, a, b, d0, d1) = LiquidityForAmount1(a, b, d1)
    BY <1>8 DEF LiquidityForAmounts
  <2> QED BY <1>2, <1>4, <1>5, <2>1
<1> QED BY <1>6, <1>7, <1>8

-----------------------------------------------------------------------------
(* What a mint and a burn do to the ticks and to the bitmap *)

\* The ticks have what starts and ends there.
TickSums ==
    \A t \in Ticks :
        /\ ticks[t].liquidityGross = SumFunctionOnSet(LiquidityAt, StartingAt(t))
                                        + SumFunctionOnSet(LiquidityAt, EndingAt(t))
        /\ ticks[t].liquidityNet = SumFunctionOnSet(LiquidityAt, StartingAt(t))
                                        - SumFunctionOnSet(LiquidityAt, EndingAt(t))

LEMMA TickFields ==
    ASSUME NEW info \in TickInfos
    PROVE  info.liquidityGross \in Nat /\ info.liquidityNet \in Int /\ info.outside \in [Tokens -> Int]
BY DEF TickInfos

LEMMA TickMade ==
    ASSUME NEW gross \in Nat, NEW net \in Int, NEW outside \in [Tokens -> Int],
           NEW info, info = [liquidityGross |-> gross, liquidityNet |-> net, outside |-> outside]
    PROVE  info \in TickInfos /\ info.liquidityGross = gross /\ info.liquidityNet = net
BY DEF TickInfos

LEMMA LiquidityNat ==
    ASSUME positions \in [Keys -> PositionInfos]
    PROVE  /\ \A r \in Ranges : LiquidityAt[r] = positions[PositionKey(r)].liquidity
           /\ \A r \in Ranges : LiquidityAt[r] \in Nat
<1>1. \A r \in Ranges : LiquidityAt[r] = positions[PositionKey(r)].liquidity
  BY DEF LiquidityAt, Position
<1>2. ASSUME NEW r \in Ranges PROVE positions[PositionKey(r)].liquidity \in Nat
  <2>1. positions[PositionKey(r)] \in PositionInfos
    BY DEF Keys
  <2> QED BY <2>1, PositionFields
<1> QED BY <1>1, <1>2

LEMMA SumsMoved ==
    ASSUME NEW f, NEW g, NEW range \in Ranges, NEW delta \in Int,
           \A r \in Ranges : f[r] \in Nat /\ g[r] \in Nat /\ g[r] = f[r] + IF r = range THEN delta ELSE 0
    PROVE  \A R \in SUBSET Ranges :
              /\ SumFunctionOnSet(f, R) \in Nat /\ SumFunctionOnSet(g, R) \in Nat
              /\ SumFunctionOnSet(g, R) = SumFunctionOnSet(f, R) + IF range \in R THEN delta ELSE 0
<1>1. \A r \in Ranges : f[r] \in Int /\ g[r] \in Int
  OBVIOUS
<1>2. \A r \in Ranges : r # range => g[r] = f[r]
  OBVIOUS
<1>3. g[range] - f[range] = delta
  OBVIOUS
<1>4. \A R \in SUBSET Ranges :
          SumFunctionOnSet(g, R) = SumFunctionOnSet(f, R) + IF range \in R THEN g[range] - f[range] ELSE 0
  BY <1>1, <1>2, RangesFinite, SumChange
<1>5. \A R \in SUBSET Ranges : SumFunctionOnSet(f, R) \in Nat /\ SumFunctionOnSet(g, R) \in Nat
  BY SumRangesNat
<1> QED BY <1>3, <1>4, <1>5

LEMMA TicksMoved ==
    ASSUME ticks \in [Ticks -> TickInfos], feeGrowth \in [Tokens -> Int],
           positions \in [Keys -> PositionInfos], TickSums,
           NEW range \in Ranges, NEW delta \in Int, delta # 0,
           NEW g, \A r \in Ranges : g[r] \in Nat /\ g[r] = LiquidityAt[r] + IF r = range THEN delta ELSE 0
    PROVE  /\ TicksCleared(range, delta) \in [Ticks -> TickInfos]
           /\ \A t \in Ticks :
                /\ TicksCleared(range, delta)[t].liquidityGross =
                        SumFunctionOnSet(g, StartingAt(t)) + SumFunctionOnSet(g, EndingAt(t))
                /\ TicksCleared(range, delta)[t].liquidityNet =
                        SumFunctionOnSet(g, StartingAt(t)) - SumFunctionOnSet(g, EndingAt(t))
                /\ TicksCleared(range, delta)[t].liquidityGross =
                        ticks[t].liquidityGross + IF t \in {range[1], range[2]} THEN delta ELSE 0
                /\ TicksCleared(range, delta)[t].liquidityGross \in Nat
<1>1. range[1] \in Ticks /\ range[2] \in Ticks /\ range[1] < range[2] /\ range[1] \in Int /\ range[2] \in Int
  BY RangesFinite, TickInt
<1>2. \A r \in Ranges : LiquidityAt[r] \in Nat
  BY LiquidityNat
<1>3. \A R \in SUBSET Ranges :
          /\ SumFunctionOnSet(LiquidityAt, R) \in Nat /\ SumFunctionOnSet(g, R) \in Nat
          /\ SumFunctionOnSet(g, R) = SumFunctionOnSet(LiquidityAt, R) + IF range \in R THEN delta ELSE 0
  BY <1>2, SumsMoved
<1>4. ASSUME NEW t \in Ticks, NEW info, info = TicksCleared(range, delta)[t]
      PROVE  /\ info \in TickInfos
             /\ info.liquidityGross = SumFunctionOnSet(g, StartingAt(t)) + SumFunctionOnSet(g, EndingAt(t))
             /\ info.liquidityNet = SumFunctionOnSet(g, StartingAt(t)) - SumFunctionOnSet(g, EndingAt(t))
             /\ info.liquidityGross = ticks[t].liquidityGross + IF t \in {range[1], range[2]} THEN delta ELSE 0
  <2>1. StartingAt(t) \in SUBSET Ranges /\ EndingAt(t) \in SUBSET Ranges
    BY DEF StartingAt, EndingAt
  <2>2. (range \in StartingAt(t) <=> t = range[1]) /\ (range \in EndingAt(t) <=> t = range[2])
    BY DEF StartingAt, EndingAt
  <2>3. PICK s \in Nat, e \in Nat, s1 \in Nat, e1 \in Nat :
            /\ s = SumFunctionOnSet(LiquidityAt, StartingAt(t)) /\ e = SumFunctionOnSet(LiquidityAt, EndingAt(t))
            /\ s1 = SumFunctionOnSet(g, StartingAt(t)) /\ e1 = SumFunctionOnSet(g, EndingAt(t))
            /\ s1 = s + (IF t = range[1] THEN delta ELSE 0)
            /\ e1 = e + (IF t = range[2] THEN delta ELSE 0)
    BY <1>3, <2>1, <2>2
  <2>4. PICK old \in TickInfos : old = ticks[t]
    OBVIOUS
  <2>5. /\ old.liquidityGross = s + e /\ old.liquidityNet = s - e
        /\ old.liquidityGross \in Nat /\ old.liquidityNet \in Int /\ old.outside \in [Tokens -> Int]
    BY <2>3, <2>4, TickFields DEF TickSums
  <2>6. CASE t \notin {range[1], range[2]}
    <3>1. info = old
      BY <1>4, <2>4, <2>6 DEF TicksCleared, TicksAfter
    <3> QED BY <2>3, <2>4, <2>5, <2>6, <3>1
  <2>7. CASE t \in {range[1], range[2]} /\ delta < 0 /\ IsFlipped(t, delta)
    <3>1. info = NoTick
      BY <1>4, <2>7 DEF TicksCleared
    <3>2. s1 + e1 = s + e + delta
      BY <1>1, <2>3, <2>7
    <3>3. s + e + delta = 0
      BY <2>3, <2>4, <2>5, <2>7, <3>2 DEF IsFlipped
    <3>4. s1 = 0 /\ e1 = 0
      BY <3>2, <3>3
    <3>5. Zero \in [Tokens -> Int]
      BY DEF Zero
    <3>6. info \in TickInfos /\ info.liquidityGross = 0 /\ info.liquidityNet = 0
      <4>1. 0 \in Nat /\ 0 \in Int
        OBVIOUS
      <4>2. info = [liquidityGross |-> 0, liquidityNet |-> 0, outside |-> Zero]
        BY <3>1 DEF NoTick
      <4> QED BY ONLY <3>5, <4>1, <4>2, TickMade
    <3>7. ticks[t].liquidityGross = s + e
      BY <2>4, <2>5
    <3>8. ticks[t].liquidityGross + (IF t \in {range[1], range[2]} THEN delta ELSE 0) = 0
      BY <2>7, <3>3, <3>7
    <3>9. s1 + e1 = 0 /\ s1 - e1 = 0
      BY <3>4
    <3> QED BY <2>3, <3>6, <3>8, <3>9
  <2>8. CASE t \in {range[1], range[2]} /\ ~(delta < 0 /\ IsFlipped(t, delta))
    <3>1. info = UpdatedTick(t, range, delta)
      BY <1>4, <2>8 DEF TicksCleared, TicksAfter
    <3>2. PICK outside \in [Tokens -> Int] : outside = OutsideAfter(t)
      BY <2>4, <2>5 DEF OutsideAfter
    <3>3. PICK gross, net : gross = s + e + delta /\ net = s - e + IF t = range[2] THEN -delta ELSE delta
      OBVIOUS
    <3>4. info = [liquidityGross |-> gross, liquidityNet |-> net, outside |-> outside]
      <4>1. ticks[t].liquidityGross + delta = gross
        BY <2>4, <2>5, <3>3
      <4>2. NetAfter(t, range, delta) = net
        BY <2>4, <2>5, <3>3 DEF NetAfter
      <4> QED BY <3>1, <3>2, <4>1, <4>2 DEF UpdatedTick
    <3>5. gross = s1 + e1 /\ net = s1 - e1
      BY <1>1, <2>3, <2>8, <3>3
    <3>6. gross \in Nat /\ net \in Int
      BY <3>5
    <3>7. info \in TickInfos /\ info.liquidityGross = gross /\ info.liquidityNet = net
      BY <3>4, <3>6, TickMade
    <3> QED BY <2>3, <2>4, <2>5, <2>8, <3>3, <3>5, <3>7
  <2> QED BY <2>6, <2>7, <2>8
<1>5. \A t \in Ticks : TicksCleared(range, delta)[t] \in TickInfos
  BY <1>4
<1>6. TicksCleared(range, delta) \in [Ticks -> TickInfos]
  BY <1>5 DEF TicksCleared
<1>7. \A t \in Ticks : TicksCleared(range, delta)[t].liquidityGross \in Nat
  BY <1>5, TickFields
<1> QED BY <1>4, <1>6, <1>7

FlippedIf(bits, t, delta) == IF IsFlipped(t, delta) THEN Flipped(bits, t) ELSE bits

LEMMA FlippedIfTick ==
    ASSUME NEW bits \in [Words -> Bitmaps], NEW n \in Int, WordPos(n) \in Words,
           NEW t \in Int, t = n * TickSpacing, NEW delta \in Int
    PROVE  /\ FlippedIf(bits, t, delta) \in [Words -> Bitmaps]
           /\ IsSet(FlippedIf(bits, t, delta), n) <=> (IsSet(bits, n) <=> ~IsFlipped(t, delta))
           /\ \A m \in Int : m # n /\ WordPos(m) \in Words =>
                 (IsSet(FlippedIf(bits, t, delta), m) <=> IsSet(bits, m))
<1>1. CASE IsFlipped(t, delta)
  <2>1. FlippedIf(bits, t, delta) = Flipped(bits, t)
    BY <1>1 DEF FlippedIf
  <2> QED BY <1>1, <2>1, FlippedTick
<1>2. CASE ~IsFlipped(t, delta)
  <2>1. FlippedIf(bits, t, delta) = bits
    BY <1>2 DEF FlippedIf
  <2> QED BY <1>2, <2>1
<1> QED BY <1>1, <1>2

\* The ends of a range have bits of their own.
LEMMA RangeBits ==
    ASSUME NEW range \in Ranges
    PROVE  \E n1 \in Int, n2 \in Int :
              /\ range[1] = n1 * TickSpacing /\ range[2] = n2 * TickSpacing
              /\ n1 # n2 /\ WordPos(n1) \in Words /\ WordPos(n2) \in Words
<1>1. PICK s \in Nat \ {0} : s = TickSpacing
  BY TickBitmapAssumption
<1>2. ASSUME NEW t \in Ticks, Remainder(t, TickSpacing) = 0
      PROVE  \E n \in Int : t = n * TickSpacing /\ WordPos(n) \in Words
  <2>1. t \in Int /\ t \in MinTick .. MaxTick /\ MinTick \in Int /\ MaxTick \in Int
    BY TickInt, PoolMathAssumption DEF Ticks
  <2>2. PICK n \in Int : n = t \div s /\ n = Compressed(t)
    BY <1>1, <2>1, CompressedFloor, CompressedBounds
  <2>3. t % s = 0
    BY <1>1, <1>2 DEF Remainder
  <2>4. t % s = t - s * (t \div s)
    BY <2>1, ModIs
  <2>5. t = n * s
    BY <2>1, <2>2, <2>3, <2>4
  <2>6. n \in Compressed(MinTick) .. Compressed(MaxTick) + 1
    <3>1. n \in Compressed(MinTick) .. Compressed(MaxTick)
      BY <2>1, <2>2, InWords
    <3>2. Compressed(MinTick) \in Int /\ Compressed(MaxTick) \in Int
      BY <2>1, CompressedBounds
    <3> QED BY <3>1, <3>2
  <2> QED BY <1>1, <2>5, <2>6, InWords
<1>3. CheckTicks(range)
  BY PoolAssumption
<1>4. PICK n1 \in Int : range[1] = n1 * TickSpacing /\ WordPos(n1) \in Words
  BY <1>2, <1>3 DEF CheckTicks
<1>5. PICK n2 \in Int : range[2] = n2 * TickSpacing /\ WordPos(n2) \in Words
  BY <1>2, <1>3 DEF CheckTicks
<1>6. n1 # n2
  <2>1. range[1] # range[2]
    BY RangesFinite, TickInt
  <2> QED BY <1>4, <1>5, <2>1
<1> QED BY <1>4, <1>5, <1>6

LEMMA BitsMoved ==
    ASSUME bitmap \in [Words -> Bitmaps], BitsOfTicks, ticks \in [Ticks -> TickInfos],
           NEW range \in Ranges, NEW delta \in Int,
           NEW infos, \A t \in Ticks :
              /\ infos[t].liquidityGross \in Nat
              /\ infos[t].liquidityGross =
                    ticks[t].liquidityGross + IF t \in {range[1], range[2]} THEN delta ELSE 0
    PROVE  /\ BitmapAfter(range, delta) \in [Words -> Bitmaps]
           /\ \A n \in Int : WordPos(n) \in Words =>
                (IsSet(BitmapAfter(range, delta), n) <=>
                    (n * TickSpacing \in Ticks /\ infos[n * TickSpacing].liquidityGross > 0))
<1>1. PICK n1 \in Int, n2 \in Int :
          /\ range[1] = n1 * TickSpacing /\ range[2] = n2 * TickSpacing
          /\ n1 # n2 /\ WordPos(n1) \in Words /\ WordPos(n2) \in Words
  BY RangeBits
<1>2. PICK t1 \in Ticks, t2 \in Ticks : t1 = range[1] /\ t2 = range[2] /\ t1 \in Int /\ t2 \in Int /\ t1 # t2
  BY RangesFinite, TickInt
<1>3. PICK first : first = FlippedIf(bitmap, t1, delta)
  OBVIOUS
<1>4. PICK second : second = FlippedIf(first, t2, delta)
  OBVIOUS
<1>5. BitmapAfter(range, delta) = second
  BY <1>2, <1>3, <1>4, Zenon DEF BitmapAfter, FlippedIf
<1>6. /\ first \in [Words -> Bitmaps]
      /\ IsSet(first, n1) <=> (IsSet(bitmap, n1) <=> ~IsFlipped(t1, delta))
      /\ \A m \in Int : m # n1 /\ WordPos(m) \in Words => (IsSet(first, m) <=> IsSet(bitmap, m))
  BY <1>1, <1>2, <1>3, FlippedIfTick
<1>7. /\ second \in [Words -> Bitmaps]
      /\ IsSet(second, n2) <=> (IsSet(first, n2) <=> ~IsFlipped(t2, delta))
      /\ \A m \in Int : m # n2 /\ WordPos(m) \in Words => (IsSet(second, m) <=> IsSet(first, m))
  BY <1>1, <1>2, <1>4, <1>6, FlippedIfTick
<1>8. ASSUME NEW n \in Int, WordPos(n) \in Words
      PROVE  IsSet(second, n) <=> (n * TickSpacing \in Ticks /\ infos[n * TickSpacing].liquidityGross > 0)
  <2>1. IsSet(bitmap, n) <=> (n * TickSpacing \in Ticks /\ ticks[n * TickSpacing].liquidityGross > 0)
    BY <1>8 DEF BitsOfTicks
  <2>2. ASSUME NEW t \in Ticks, t = n * TickSpacing, t \in {t1, t2},
               IsSet(second, n) <=> (IsSet(bitmap, n) <=> ~IsFlipped(t, delta))
        PROVE  IsSet(second, n) <=> (n * TickSpacing \in Ticks /\ infos[n * TickSpacing].liquidityGross > 0)
    <3>1. PICK gross \in Nat : gross = ticks[t].liquidityGross
      <4>1. ticks[t] \in TickInfos
        OBVIOUS
      <4> QED BY <4>1, TickFields
    <3>2. infos[t].liquidityGross = gross + delta /\ gross + delta \in Nat
      BY <1>2, <2>2, <3>1
    <3>3. IsFlipped(t, delta) <=> ((gross + delta = 0) # (gross = 0))
      BY <3>1, Zenon DEF IsFlipped
    <3>4. IsSet(bitmap, n) <=> gross > 0
      BY <2>1, <2>2, <3>1
    <3>5. IsSet(second, n) <=> gross + delta > 0
      <4>1. CASE gross = 0
        BY <2>2, <3>2, <3>3, <3>4, <4>1
      <4>2. CASE gross # 0
        BY <2>2, <3>2, <3>3, <3>4, <4>2
      <4> QED BY <4>1, <4>2
    <3> QED BY <2>2, <3>2, <3>5
  <2>3. CASE n = n1
    <3>1. IsSet(second, n) <=> (IsSet(bitmap, n) <=> ~IsFlipped(t1, delta))
      BY <1>1, <1>6, <1>7, <2>3
    <3> QED BY <1>1, <1>2, <2>2, <2>3, <3>1
  <2>4. CASE n = n2
    <3>1. IsSet(second, n) <=> (IsSet(bitmap, n) <=> ~IsFlipped(t2, delta))
      BY <1>1, <1>6, <1>7, <2>4
    <3> QED BY <1>1, <1>2, <2>2, <2>4, <3>1
  <2>5. CASE n # n1 /\ n # n2
    <3>1. IsSet(second, n) <=> IsSet(bitmap, n)
      BY <1>6, <1>7, <1>8, <2>5
    <3>2. n * TickSpacing \notin {t1, t2}
      <4>1. \A a, b \in Int : a # b => a * TickSpacing # b * TickSpacing
        <5>1. PICK s \in Nat \ {0} : s = TickSpacing
          BY TickBitmapAssumption
        <5>2. \A a, b \in Int : a < b => a * s < b * s
          OBVIOUS
        <5>3. \A a, b \in Int : a # b => a * s # b * s
          <6>1. \A a, b \in Int : a # b => a < b \/ b < a
            OBVIOUS
          <6>2. \A a \in Int : a * s \in Int
            OBVIOUS
          <6> QED BY <5>2, <6>1, <6>2
        <5> QED BY <5>1, <5>3
      <4> QED BY <1>1, <1>2, <2>5, <4>1
    <3>3. n * TickSpacing \in Ticks => infos[n * TickSpacing].liquidityGross = ticks[n * TickSpacing].liquidityGross
      <4>1. ASSUME NEW t \in Ticks, t \notin {t1, t2} PROVE infos[t].liquidityGross = ticks[t].liquidityGross
        <5>1. ticks[t].liquidityGross \in Nat
          BY TickFields
        <5>2. t \notin {range[1], range[2]}
          BY <1>2, <4>1
        <5>3. infos[t].liquidityGross = ticks[t].liquidityGross + 0
          BY <5>2
        <5> QED BY <5>1, <5>3
      <4> QED BY <3>2, <4>1
    <3> QED BY <2>1, <3>1, <3>3
  <2> QED BY <2>3, <2>4, <2>5
<1> QED BY <1>5, <1>7, <1>8

-----------------------------------------------------------------------------
(* The inductive invariant of the pool *)

\* Two ranges never have the same position.
KeysDiffer == \A r1, r2 \in Ranges : PositionKey(r1) = PositionKey(r2) => r1 = r2

InRange ==
    IsCreated => /\ At(slot0.sqrtPrice, slot0.tick)
                 /\ liquidity = SumFunctionOnSet(LiquidityAt, Around(slot0.tick))

NotCreated ==
    ~IsCreated => /\ swap = None
                  /\ liquidity = 0
                  /\ \A r \in Ranges : LiquidityAt[r] = 0

\* A limit that the price does not go beyond, and that keeps it from the ends of all ticks
Limited(zeroForOne, limit, price) ==
    IF zeroForOne THEN MinRatio < limit /\ limit <= price
                  ELSE price <= limit /\ limit < MaxRatio

SameLiquidity(infos, others) ==
    \A t \in Ticks : /\ infos[t].liquidityGross = others[t].liquidityGross
                     /\ infos[t].liquidityNet = others[t].liquidityNet

SwapInv ==
    swap # None =>
        /\ IsCreated
        /\ At(swap.sqrtPrice, swap.tick)
        /\ swap.liquidity = SumFunctionOnSet(LiquidityAt, Around(swap.tick))
        /\ Limited(swap.zeroForOne, swap.limit, swap.sqrtPrice)
        /\ SameLiquidity(swap.ticksBefore, ticks)

PoolInv ==
    /\ PoolTyped
    /\ TickSums
    /\ BitsOfTicks
    /\ InRange
    /\ NotCreated
    /\ SwapInv

LEMMA PoolInvAtInit ==
    ASSUME PoolInit
    PROVE  PoolInv
<1>1. IsFiniteSet(Ranges) /\ \A t : IsFiniteSet(StartingAt(t)) /\ IsFiniteSet(EndingAt(t))
  BY RangesFinite, FS_Subset DEF StartingAt, EndingAt
<1>2. \A r \in Ranges : PositionKey(r) \in Keys
  BY DEF Keys
<1>3. NoPosition \in PositionInfos /\ NoPosition.liquidity = 0
  <2>1. Zero \in [Tokens -> Int] /\ 0 \in Nat
    BY DEF Zero
  <2>2. NoPosition = [liquidity |-> 0, insideLast |-> Zero, tokensOwed |-> Zero]
    BY DEF NoPosition
  <2> QED BY ONLY <2>1, <2>2, PositionMade
<1>4. NoTick \in TickInfos /\ NoTick.liquidityGross = 0 /\ NoTick.liquidityNet = 0
  <2>1. Zero \in [Tokens -> Int] /\ 0 \in Nat /\ 0 \in Int
    BY DEF Zero
  <2>2. NoTick = [liquidityGross |-> 0, liquidityNet |-> 0, outside |-> Zero]
    BY DEF NoTick
  <2> QED BY ONLY <2>1, <2>2, TickMade
<1>5. positions \in [Keys -> PositionInfos] /\ \A r \in Ranges : LiquidityAt[r] = 0
  <2>1. positions = [key \in Keys |-> NoPosition]
    BY DEF PoolInit, Keys
  <2> QED BY <1>2, <1>3, <2>1 DEF LiquidityAt, Position
<1>6. ticks \in [Ticks -> TickInfos] /\ \A t \in Ticks : ticks[t].liquidityGross = 0 /\ ticks[t].liquidityNet = 0
  BY <1>4 DEF PoolInit
<1>7. NoBits \in [Words -> Bitmaps] /\ \A w \in Words : NoBits[w] = 0
  <2>1. 0 \in Bitmaps
    BY BitMathAssumption, PowerNat DEF Bitmaps
  <2> QED BY <2>1 DEF NoBits
<1>8. PoolTyped
  <2>1. slot0 \in [sqrtPrice : Nat, tick : Ticks \cup {None}]
    BY DEF PoolInit
  <2>2. liquidity \in Nat /\ feeGrowth \in [Tokens -> Int] /\ swap = None /\ bitmap = NoBits
    BY DEF PoolInit, Zero
  <2> QED BY <1>5, <1>6, <1>7, <2>1, <2>2 DEF PoolTyped
<1>9. TickSums
  <2>1. \A t \in Ticks : /\ SumFunctionOnSet(LiquidityAt, StartingAt(t)) = 0
                         /\ SumFunctionOnSet(LiquidityAt, EndingAt(t)) = 0
    <3> SUFFICES ASSUME NEW t \in Ticks
                 PROVE  /\ SumFunctionOnSet(LiquidityAt, StartingAt(t)) = 0
                        /\ SumFunctionOnSet(LiquidityAt, EndingAt(t)) = 0
      OBVIOUS
    <3>1. /\ \A r \in StartingAt(t) : LiquidityAt[r] = 0
          /\ \A r \in EndingAt(t) : LiquidityAt[r] = 0
      BY <1>5 DEF StartingAt, EndingAt
    <3> QED BY <1>1, <3>1, SumZero
  <2> QED BY <1>6, <2>1 DEF TickSums
<1>10. BitsOfTicks
  <2> SUFFICES ASSUME NEW n \in Int, WordPos(n) \in Words
               PROVE  ~IsSet(bitmap, n) /\ ~(n * TickSpacing \in Ticks /\ ticks[n * TickSpacing].liquidityGross > 0)
    BY DEF BitsOfTicks
  <2>1. PICK w \in Int, b \in Bits : WordPos(n) = w /\ BitPos(n) = b
    BY Places
  <2>2. ~HasBit(0, b)
    BY WordBits, NoBitsInZero
  <2>3. ~IsSet(bitmap, n)
    BY <1>7, <2>1, <2>2 DEF PoolInit, IsSet
  <2> QED BY <1>6, <2>3
<1>11. ~IsCreated /\ swap = None /\ liquidity = 0
  BY DEF PoolInit, IsCreated
<1> QED BY <1>5, <1>8, <1>9, <1>10, <1>11 DEF PoolInv, InRange, NotCreated, SwapInv

\* The liquidity of one range changes, by delta.
Moved(range, delta) ==
    \A r \in Ranges : LiquidityAt'[r] = LiquidityAt[r] + IF r = range THEN delta ELSE 0

\* A mint and a burn: a position, the ends of its range, and the liquidity in range all
\* change by the same amount.
LEMMA LiquidityMoved ==
    ASSUME KeysDiffer, PoolInv, Idle, NEW range \in Ranges, NEW delta \in Int, delta # 0,
           NEW p \in PositionInfos,
           p.liquidity = positions[PositionKey(range)].liquidity + delta,
           ModifyLiquidity(range, delta),
           positions' = [positions EXCEPT ![PositionKey(range)] = p],
           UNCHANGED <<slot0, feeGrowth, swap>>
    PROVE  PoolInv' /\ Moved(range, delta)
<1>0. PoolTyped /\ TickSums /\ BitsOfTicks /\ InRange /\ IsCreated /\ swap = None
  BY DEF PoolInv, Idle
<1>1. PICK f : f = LiquidityAt
  OBVIOUS
<1>2. PICK g : g = LiquidityAt'
  OBVIOUS
<1>3. positions' \in [Keys -> PositionInfos]
  BY <1>0 DEF PoolTyped
<1>4. /\ \A r \in Ranges : f[r] = positions[PositionKey(r)].liquidity /\ f[r] \in Nat
      /\ PositionKey(range) \in Keys
  BY <1>0, <1>1, LiquidityNat DEF PoolTyped, Keys
<1>5. ASSUME NEW r \in Ranges
      PROVE  g[r] \in Nat /\ g[r] = f[r] + IF r = range THEN delta ELSE 0
  <2>1. g[r] = positions'[PositionKey(r)].liquidity
    BY <1>2 DEF LiquidityAt, Position
  <2>2. CASE r = range
    <3>1. positions'[PositionKey(r)] = p
      BY <1>0, <1>4, <2>2 DEF PoolTyped
    <3>2. p.liquidity \in Nat
      BY PositionFields
    <3> QED BY <1>4, <2>1, <2>2, <3>1, <3>2
  <2>3. CASE r # range
    <3>1. PositionKey(r) # PositionKey(range) /\ PositionKey(r) \in Keys
      BY <2>3 DEF KeysDiffer, Keys
    <3>2. positions'[PositionKey(r)] = positions[PositionKey(r)]
      BY <1>0, <3>1 DEF PoolTyped
    <3>3. g[r] = f[r]
      BY <1>4, <2>1, <3>2
    <3> QED BY <1>4, <2>3, <3>3
  <2> QED BY <2>2, <2>3
<1>6. ticks' = TicksCleared(range, delta) /\ bitmap' = BitmapAfter(range, delta)
  BY DEF ModifyLiquidity
<1>7. /\ ticks' \in [Ticks -> TickInfos]
      /\ \A t \in Ticks :
            /\ ticks'[t].liquidityGross = SumFunctionOnSet(g, StartingAt(t)) + SumFunctionOnSet(g, EndingAt(t))
            /\ ticks'[t].liquidityNet = SumFunctionOnSet(g, StartingAt(t)) - SumFunctionOnSet(g, EndingAt(t))
            /\ ticks'[t].liquidityGross =
                    ticks[t].liquidityGross + IF t \in {range[1], range[2]} THEN delta ELSE 0
            /\ ticks'[t].liquidityGross \in Nat
  <2>1. \A r \in Ranges : g[r] \in Nat /\ g[r] = LiquidityAt[r] + IF r = range THEN delta ELSE 0
    BY <1>1, <1>5
  <2> QED BY <1>0, <1>6, <2>1, TicksMoved DEF PoolTyped
<1>8. /\ bitmap' \in [Words -> Bitmaps]
      /\ \A n \in Int : WordPos(n) \in Words =>
            (IsSet(bitmap', n) <=>
                (n * TickSpacing \in Ticks /\ ticks'[n * TickSpacing].liquidityGross > 0))
  <2>1. PICK infos : infos = ticks'
    OBVIOUS
  <2>2. bitmap \in [Words -> Bitmaps] /\ ticks \in [Ticks -> TickInfos]
    BY <1>0 DEF PoolTyped
  <2>3. \A t \in Ticks :
            /\ infos[t].liquidityGross \in Nat
            /\ infos[t].liquidityGross =
                    ticks[t].liquidityGross + IF t \in {range[1], range[2]} THEN delta ELSE 0
    BY <1>7, <2>1
  <2>4. PICK bits : bits = BitmapAfter(range, delta)
    OBVIOUS
  <2>5. /\ bits \in [Words -> Bitmaps]
        /\ \A n \in Int : WordPos(n) \in Words =>
              (IsSet(bits, n) <=>
                  (n * TickSpacing \in Ticks /\ infos[n * TickSpacing].liquidityGross > 0))
    BY <1>0, <2>2, <2>3, <2>4, BitsMoved, Zenon
  <2> QED BY <1>6, <2>1, <2>4, <2>5, Zenon
<1>9. \A R \in SUBSET Ranges :
          /\ SumFunctionOnSet(f, R) \in Nat /\ SumFunctionOnSet(g, R) \in Nat
          /\ SumFunctionOnSet(g, R) = SumFunctionOnSet(f, R) + IF range \in R THEN delta ELSE 0
  BY <1>4, <1>5, SumsMoved
<1>10. liquidity' = SumFunctionOnSet(g, Around(slot0.tick)) /\ liquidity' \in Nat
  <2>1. PICK t : t = slot0.tick
    OBVIOUS
  <2>2. Around(t) \in SUBSET Ranges /\ (range \in Around(t) <=> Covers(range, t))
    BY DEF Around
  <2>3. liquidity = SumFunctionOnSet(f, Around(t))
    BY <1>0, <1>1, <2>1 DEF InRange
  <2>4. liquidity' = liquidity + IF Covers(range, t) THEN delta ELSE 0
    BY <2>1 DEF ModifyLiquidity
  <2>5. liquidity' = SumFunctionOnSet(g, Around(t)) /\ SumFunctionOnSet(g, Around(t)) \in Nat
    BY <1>9, <2>2, <2>3, <2>4
  <2> QED BY <2>1, <2>5
<1>11. PoolTyped'
  BY <1>0, <1>3, <1>7, <1>8, <1>10 DEF PoolTyped
<1>12. TickSums'
  BY <1>2, <1>7 DEF TickSums
<1>13. BitsOfTicks'
  BY <1>8 DEF BitsOfTicks
<1>14. InRange'
  BY <1>0, <1>2, <1>10 DEF InRange, IsCreated
<1>15. NotCreated' /\ SwapInv'
  BY <1>0 DEF NotCreated, SwapInv, IsCreated
<1>16. Moved(range, delta)
  <2>1. \A r \in Ranges : g[r] = f[r] + IF r = range THEN delta ELSE 0
    BY <1>5
  <2> QED BY <1>1, <1>2, <2>1, Zenon DEF Moved
<1> QED BY <1>11, <1>12, <1>13, <1>14, <1>15, <1>16 DEF PoolInv

-----------------------------------------------------------------------------
(* Actions that move the liquidity of positions, or none *)

\* Actions that leave the liquidity alone
LEMMA LiquidityUnchanged ==
    ASSUME PoolInv, UNCHANGED <<slot0, liquidity, ticks, bitmap, swap>>,
           feeGrowth' \in [Tokens -> Int], positions' \in [Keys -> PositionInfos],
           \A key \in Keys : positions'[key].liquidity = positions[key].liquidity
    PROVE  PoolInv' /\ LiquidityAt' = LiquidityAt
<1>1. LiquidityAt' = LiquidityAt
  <2>1. \A r \in Ranges : positions'[PositionKey(r)].liquidity = positions[PositionKey(r)].liquidity
    BY DEF Keys
  <2> QED BY <2>1 DEF LiquidityAt, Position
<1>2. PoolTyped'
  BY DEF PoolInv, PoolTyped
<1>3. TickSums' /\ BitsOfTicks'
  BY <1>1 DEF PoolInv, TickSums, BitsOfTicks
<1>4. InRange' /\ NotCreated'
  BY <1>1 DEF PoolInv, InRange, NotCreated, IsCreated
<1>5. SwapInv'
  BY <1>1 DEF PoolInv, SwapInv, IsCreated
<1> QED BY <1>1, <1>2, <1>3, <1>4, <1>5 DEF PoolInv

LEMMA ShareTyped ==
    ASSUME NEW i \in Tokens, NEW amount \in Int
    PROVE  ShareOf(i, amount) \in Int
<1>1. FeeProtocol[i] = 0 \/ FeeProtocol[i] \in Nat \ {0}
  BY PoolAssumption DEF ValidFeeProtocol
<1>2. CASE FeeProtocol[i] = 0
  BY <1>2 DEF ShareOf
<1>3. CASE FeeProtocol[i] \in Nat \ {0}
  <2>1. amount \div FeeProtocol[i] \in Int
    BY <1>3, DivBounds
  <2> QED BY <1>3, <2>1 DEF ShareOf
<1> QED BY <1>1, <1>2, <1>3

\* The growth after fees of so much have come to some liquidity
LEMMA GrowthTyped ==
    ASSUME NEW growth \in Int, NEW fees \in Int, NEW l \in Nat \ {0}
    PROVE  Wrap256(growth + MulDiv(fees, Q128, l)) \in Int
<1>1. PICK n \in Int : n = MulDiv(fees, Q128, l)
  <2>1. Q128 \in Int
    BY PoolMathAssumption
  <2> QED BY <2>1, MulDivInt
<1>2. growth + n \in Int
  OBVIOUS
<1> QED BY <1>1, <1>2, WrapNat

LEMMA FlashKeeps ==
    ASSUME PoolInv, NEW loan, NEW paid \in [Tokens -> Nat], Flash(loan, paid)
    PROVE  PoolInv'
<1>1. liquidity \in Nat \ {0} /\ feeGrowth \in [Tokens -> Int] /\ positions \in [Keys -> PositionInfos]
  BY DEF PoolInv, PoolTyped, Flash
<1>2. ASSUME NEW i \in Tokens
      PROVE  Wrap256(feeGrowth[i] + MulDiv(PaidToPositions(i, paid), Q128, liquidity)) \in Int
  <2>1. PICK fees \in Int : fees = PaidToPositions(i, paid)
    <3>1. paid[i] \in Int
      OBVIOUS
    <3>2. ShareOf(i, paid[i]) \in Int
      BY <3>1, ShareTyped
    <3> QED BY <3>1, <3>2 DEF PaidToPositions
  <2>2. feeGrowth[i] \in Int
    BY <1>1
  <2> QED BY <1>1, <2>1, <2>2, GrowthTyped
<1>3. feeGrowth' \in [Tokens -> Int]
  BY <1>2, Zenon DEF Flash
<1>4. UNCHANGED <<slot0, liquidity, ticks, bitmap, positions, swap>>
  BY DEF Flash
<1> QED BY <1>1, <1>3, <1>4, LiquidityUnchanged

LEMMA CollectKeeps ==
    ASSUME PoolInv, NEW range \in Ranges, NEW position \in PositionInfos,
           position.liquidity = positions[PositionKey(range)].liquidity,
           NEW requested \in [Tokens -> Int], Collect(range, position, requested)
    PROVE  PoolInv' /\ LiquidityAt' = LiquidityAt
<1>1. /\ positions \in [Keys -> PositionInfos] /\ feeGrowth \in [Tokens -> Int]
      /\ PositionKey(range) \in Keys
  BY DEF PoolInv, PoolTyped, Keys
<1>2. PICK amounts : amounts = CollectedAmounts(position, requested)
  OBVIOUS
<1>3. PICK l \in Nat, inside \in [Tokens -> Int], owed \in [Tokens -> Int] :
          /\ l = position.liquidity /\ inside = position.insideLast /\ owed = position.tokensOwed
          /\ position = [liquidity |-> l, insideLast |-> inside, tokensOwed |-> owed]
  BY DEF PositionInfos
<1>4. \A i \in Tokens : amounts[i] \in Int
  <2> SUFFICES ASSUME NEW i \in Tokens PROVE amounts[i] \in Int
    OBVIOUS
  <2>1. requested[i] \in Int /\ owed[i] \in Int
    OBVIOUS
  <2>2. amounts[i] = Min({requested[i], owed[i]})
    BY <1>2, <1>3 DEF CollectedAmounts
  <2> QED BY <2>1, <2>2, LeastOfTwo
<1>5. PICK left \in [Tokens -> Int] : left = [i \in Tokens |-> owed[i] - amounts[i]]
  <2>1. \A i \in Tokens : owed[i] - amounts[i] \in Int
    BY <1>4
  <2> QED BY <2>1
<1>6. PICK p : p = [liquidity |-> l, insideLast |-> inside, tokensOwed |-> left]
  OBVIOUS
<1>7. p \in PositionInfos /\ p.liquidity = l
  BY <1>6, PositionMade
<1>8. positions' = [positions EXCEPT ![PositionKey(range)] = p]
  <2>1. [position EXCEPT !.tokensOwed = [i \in Tokens |-> @[i] - amounts[i]]] = p
    BY <1>3, <1>5, <1>6
  <2> QED BY <1>2, <2>1 DEF Collect
<1>9. positions' \in [Keys -> PositionInfos]
  BY <1>1, <1>7, <1>8
<1>10. \A key \in Keys : positions'[key].liquidity = positions[key].liquidity
  BY <1>1, <1>3, <1>7, <1>8
<1>11. UNCHANGED <<slot0, liquidity, feeGrowth, ticks, bitmap, swap>>
  BY DEF Collect
<1> QED BY <1>1, <1>9, <1>10, <1>11, LiquidityUnchanged

LEMMA AfterTyped ==
    ASSUME ticks \in [Ticks -> TickInfos], feeGrowth \in [Tokens -> Int],
           NEW range \in Ranges, NEW delta \in Int,
           \A t \in {range[1], range[2]} : ticks[t].liquidityGross + delta \in Nat
    PROVE  TicksAfter(range, delta) \in [Ticks -> TickInfos]
<1>1. CASE delta = 0
  BY <1>1 DEF TicksAfter
<1>2. CASE delta # 0
  <2>1. ASSUME NEW t \in {range[1], range[2]} PROVE UpdatedTick(t, range, delta) \in TickInfos
    <3>1. t \in Ticks
      BY RangesFinite
    <3>2. PICK gross \in Nat : gross = ticks[t].liquidityGross + delta
      BY <2>1
    <3>3. ticks[t].liquidityNet \in Int /\ ticks[t].outside \in [Tokens -> Int]
      BY <3>1, TickFields
    <3>4. PICK net \in Int : net = NetAfter(t, range, delta)
      BY <3>3 DEF NetAfter
    <3>5. PICK outside \in [Tokens -> Int] : outside = OutsideAfter(t)
      BY <3>3 DEF OutsideAfter
    <3>6. UpdatedTick(t, range, delta) = [liquidityGross |-> gross, liquidityNet |-> net, outside |-> outside]
      BY <3>2, <3>4, <3>5 DEF UpdatedTick
    <3> QED BY <3>6, TickMade
  <2> QED BY <1>2, <2>1 DEF TicksAfter
<1> QED BY <1>1, <1>2

\* The position of a range after a mint, a burn or a poke
LEMMA PositionTyped ==
    ASSUME PoolTyped, NEW range \in Ranges, NEW delta \in Int,
           \A t \in {range[1], range[2]} : ticks[t].liquidityGross + delta \in Nat,
           positions[PositionKey(range)].liquidity + delta \in Nat
    PROVE  /\ PositionAfter(range, delta) \in PositionInfos
           /\ PositionAfter(range, delta).liquidity = positions[PositionKey(range)].liquidity + delta
<1>1. PICK infos \in [Ticks -> TickInfos] : infos = TicksAfter(range, delta)
  BY AfterTyped DEF PoolTyped
<1>2. PICK inside \in [Tokens -> Int] : inside = FeeGrowthInside(infos, range)
  BY InsideTyped DEF PoolTyped
<1>3. PICK old \in PositionInfos : old = positions[PositionKey(range)]
  BY DEF PoolTyped, Keys
<1>4. PositionAfter(range, delta) = UpdatedPosition(old, delta, inside)
  BY <1>1, <1>2, <1>3 DEF PositionAfter
<1> QED BY <1>3, <1>4, UpdatedTyped

LEMMA MintKeeps ==
    ASSUME KeysDiffer, PoolInv, Idle, NEW range \in Ranges, NEW amount \in Nat, Mint(range, amount)
    PROVE  PoolInv' /\ Moved(range, amount)
<1>1. amount \in Int /\ amount # 0
  BY DEF Mint
<1>2. PoolTyped
  BY DEF PoolInv
<1>3. \A t \in {range[1], range[2]} : ticks[t].liquidityGross + amount \in Nat
  <2>1. \A t \in Ticks : ticks[t].liquidityGross \in Nat
    BY <1>2, TickFields DEF PoolTyped
  <2> QED BY <2>1, RangesFinite
<1>4. positions[PositionKey(range)].liquidity + amount \in Nat
  BY <1>2, PositionFields DEF PoolTyped, Keys
<1>5. PICK p \in PositionInfos : /\ p = PositionAfter(range, amount)
                                 /\ p.liquidity = positions[PositionKey(range)].liquidity + amount
  BY <1>1, <1>2, <1>3, <1>4, PositionTyped
<1>6. /\ ModifyLiquidity(range, amount)
      /\ positions' = [positions EXCEPT ![PositionKey(range)] = p]
      /\ UNCHANGED <<slot0, feeGrowth, swap>>
  BY <1>5 DEF Mint
<1> QED BY <1>1, <1>5, <1>6, LiquidityMoved

LEMMA BurnKeeps ==
    ASSUME KeysDiffer, PoolInv, Idle, NEW range \in Ranges, NEW amount \in Nat, amount > 0,
           Burn(range, amount)
    PROVE  PoolInv' /\ Moved(range, -amount)
<1>1. -amount \in Int /\ -amount # 0
  OBVIOUS
<1>2. PoolTyped /\ At(slot0.sqrtPrice, slot0.tick) /\ slot0.sqrtPrice \in Nat
  BY DEF PoolInv, PoolTyped, InRange, Idle
<1>3. \A t \in {range[1], range[2]} : ticks[t].liquidityGross + (-amount) \in Nat
  <2>1. \A t \in Ticks : ticks[t].liquidityGross \in Nat
    BY <1>2, TickFields DEF PoolTyped
  <2>2. \A t \in {range[1], range[2]} : ticks[t].liquidityGross >= amount
    BY DEF Burn
  <2> QED BY <2>1, <2>2, RangesFinite
<1>4. positions[PositionKey(range)].liquidity + (-amount) \in Nat
  <2>1. positions[PositionKey(range)].liquidity \in Nat
    BY <1>2, PositionFields DEF PoolTyped, Keys
  <2>2. positions[PositionKey(range)].liquidity >= amount
    BY DEF Burn
  <2> QED BY <2>1, <2>2
<1>5. PICK position \in PositionInfos :
          /\ position = PositionAfter(range, -amount)
          /\ position.liquidity = positions[PositionKey(range)].liquidity + (-amount)
  BY <1>1, <1>2, <1>3, <1>4, PositionTyped
<1>6. PICK l \in Nat, inside \in [Tokens -> Int], owed \in [Tokens -> Int] :
          /\ l = position.liquidity
          /\ position = [liquidity |-> l, insideLast |-> inside, tokensOwed |-> owed]
  BY DEF PositionInfos
<1>7. PICK burnt \in [Tokens -> Int] : burnt = BurntAmounts(range, amount)
  BY <1>2, AmountsTyped DEF BurntAmounts
<1>8. PICK after \in [Tokens -> Int] : after = [i \in Tokens |-> Wrap128(owed[i] + burnt[i])]
  <2>1. \A i \in Tokens : Wrap128(owed[i] + burnt[i]) \in Int
    <3> SUFFICES ASSUME NEW i \in Tokens PROVE Wrap128(owed[i] + burnt[i]) \in Int
      OBVIOUS
    <3>1. owed[i] + burnt[i] \in Int
      OBVIOUS
    <3> QED BY <3>1, WrapNat
  <2> QED BY <2>1
<1>9. PICK p : p = [liquidity |-> l, insideLast |-> inside, tokensOwed |-> after]
  OBVIOUS
<1>10. p \in PositionInfos /\ p.liquidity = l
  BY <1>9, PositionMade
<1>11. BurntPosition(range, amount) = p
  <2>1. BurntPosition(range, amount) =
            [position EXCEPT !.tokensOwed = [i \in Tokens |-> Wrap128(@[i] + burnt[i])]]
    BY <1>5, <1>7 DEF BurntPosition
  <2> QED BY <1>6, <1>8, <1>9, <2>1
<1>12. /\ ModifyLiquidity(range, -amount)
       /\ positions' = [positions EXCEPT ![PositionKey(range)] = p]
       /\ UNCHANGED <<slot0, feeGrowth, swap>>
  BY <1>11 DEF Burn
<1> QED BY <1>1, <1>5, <1>6, <1>10, <1>12, LiquidityMoved

LEMMA CreateKeeps ==
    ASSUME PoolInv, NEW price \in Prices, CreatePool(price)
    PROVE  PoolInv'
<1>1. /\ PoolTyped /\ TickSums /\ BitsOfTicks /\ swap = None /\ liquidity = 0
      /\ \A r \in Ranges : LiquidityAt[r] = 0
  BY DEF PoolInv, NotCreated, CreatePool
<1>2. price \in MinRatio .. MaxRatio - 1
  BY PoolAssumption
<1>3. PICK t : t = TickAtSqrtRatio(price) /\ t \in MinTick .. MaxTick - 1
                /\ SqrtRatio[t] <= price /\ price < SqrtRatio[t + 1]
  BY <1>2, TickOfPrice
<1>4. price \in Nat \ {0} /\ t \in Ticks /\ t + 1 \in Ticks /\ At(price, t)
  <2>1. t \in Ticks /\ t + 1 \in Ticks /\ MinTick \in Ticks
    BY <1>3, PoolMathAssumption DEF Ticks
  <2>2. SqrtRatio[t] \in Nat \ {0} /\ SqrtRatio[t + 1] \in Nat \ {0} /\ MinRatio \in Nat \ {0} /\ MaxRatio \in Nat
    BY <2>1, RatioGrows, PoolMathAssumption DEF Ticks, MinRatio, MaxRatio
  <2> QED BY <1>2, <1>3, <2>1, <2>2 DEF At
<1>5. /\ slot0' = [sqrtPrice |-> price, tick |-> t]
      /\ UNCHANGED <<liquidity, feeGrowth, ticks, bitmap, positions, swap>>
  BY <1>3 DEF CreatePool
<1>6. SumFunctionOnSet(LiquidityAt, Around(t)) = 0
  <2>1. IsFiniteSet(Around(t)) /\ \A r \in Around(t) : LiquidityAt[r] = 0
    BY <1>1, RangesFinite, FS_Subset DEF Around
  <2> QED BY <2>1, SumZero
<1>7. LiquidityAt' = LiquidityAt
  BY <1>5 DEF LiquidityAt, Position
<1>8. PoolTyped'
  BY <1>1, <1>4, <1>5 DEF PoolTyped
<1>9. TickSums' /\ BitsOfTicks'
  BY <1>1, <1>5, <1>7 DEF TickSums, BitsOfTicks
<1>10. InRange'
  BY <1>1, <1>4, <1>5, <1>6, <1>7 DEF InRange
<1>11. NotCreated' /\ SwapInv'
  BY <1>1, <1>4, <1>5 DEF NotCreated, SwapInv, IsCreated
<1> QED BY <1>8, <1>9, <1>10, <1>11 DEF PoolInv

-----------------------------------------------------------------------------
(* A step of the swap and the liquidity around its tick *)

\* Liquidity begins and ends at multiples of the spacing only.
LEMMA OnGrid ==
    ASSUME PoolTyped, TickSums
    PROVE  TicksOnGrid
<1> SUFFICES ASSUME NEW t \in Ticks, ticks[t].liquidityGross > 0
             PROVE  \E n \in Int : t = n * TickSpacing
  BY DEF TicksOnGrid
<1>1. \E r \in Ranges : r[1] = t \/ r[2] = t
  <2>1. ASSUME \A r \in Ranges : r[1] # t /\ r[2] # t PROVE FALSE
    <3>1. StartingAt(t) = {} /\ EndingAt(t) = {}
      BY <2>1 DEF StartingAt, EndingAt
    <3>2. ticks[t].liquidityGross = SumFunctionOnSet(LiquidityAt, {}) + SumFunctionOnSet(LiquidityAt, {})
      BY <3>1 DEF TickSums
    <3>3. ticks[t].liquidityGross = 0
      BY <3>2, SumEmpty
    <3> QED BY <3>3
  <2> QED BY <2>1
<1>2. PICK r \in Ranges : r[1] = t \/ r[2] = t
  BY <1>1
<1> QED BY <1>2, RangeBits

\* What starts and ends at a tick; nothing if it has no liquidity
LEMMA TickHas ==
    ASSUME PoolTyped, TickSums, NEW t \in Ticks
    PROVE  \E s \in Nat, e \in Nat :
              /\ s = SumFunctionOnSet(LiquidityAt, StartingAt(t))
              /\ e = SumFunctionOnSet(LiquidityAt, EndingAt(t))
              /\ ticks[t].liquidityNet = s - e
              /\ ~(ticks[t].liquidityGross > 0) => s = 0 /\ e = 0
<1>1. \A r \in Ranges : LiquidityAt[r] \in Nat
  BY LiquidityNat DEF PoolTyped
<1>2. StartingAt(t) \in SUBSET Ranges /\ EndingAt(t) \in SUBSET Ranges
  BY DEF StartingAt, EndingAt
<1>3. PICK s \in Nat, e \in Nat : /\ s = SumFunctionOnSet(LiquidityAt, StartingAt(t))
                                  /\ e = SumFunctionOnSet(LiquidityAt, EndingAt(t))
  BY <1>1, <1>2, SumRangesNat
<1>4. ticks[t].liquidityNet = s - e /\ ticks[t].liquidityGross = s + e
  BY <1>3 DEF TickSums
<1> QED BY <1>3, <1>4

\* Between ticks without liquidity, the liquidity in range is the same.
LEMMA SameBetween ==
    ASSUME PoolTyped, TickSums, NEW u \in Int, NEW v \in Int, u <= v,
           \A t \in u + 1 .. v : ~(ticks[t].liquidityGross > 0)
    PROVE  SumFunctionOnSet(LiquidityAt, Around(u)) = SumFunctionOnSet(LiquidityAt, Around(v))
<1>1. \A r \in Ranges : LiquidityAt[r] \in Nat
  BY LiquidityNat DEF PoolTyped
<1>2. \A t \in u + 1 .. v : t \in Ticks =>
          SumFunctionOnSet(LiquidityAt, StartingAt(t)) = 0 /\ SumFunctionOnSet(LiquidityAt, EndingAt(t)) = 0
  BY TickHas
<1>3. PICK f : f = LiquidityAt
  OBVIOUS
<1>4. SumFunctionOnSet(f, Around(u)) = SumFunctionOnSet(f, Around(v))
  BY <1>1, <1>2, <1>3, SumBetween
<1> QED BY <1>3, <1>4

\* What is in range below and above a tick, which adds its net liquidity if it has any
LEMMA AcrossTick ==
    ASSUME PoolTyped, TickSums, NEW t \in Ticks, NEW initialized,
           initialized <=> ticks[t].liquidityGross > 0
    PROVE  \E below \in Nat, above \in Nat, net \in Int :
              /\ below = SumFunctionOnSet(LiquidityAt, Around(t - 1))
              /\ above = SumFunctionOnSet(LiquidityAt, Around(t))
              /\ net = ticks[t].liquidityNet
              /\ above = below + IF initialized THEN net ELSE 0
<1>1. \A r \in Ranges : LiquidityAt[r] \in Nat
  BY LiquidityNat DEF PoolTyped
<1>2. t \in Int /\ Around(t) \in SUBSET Ranges /\ Around(t - 1) \in SUBSET Ranges
  BY TickInt DEF Around
<1>3. PICK below \in Nat, above \in Nat :
          /\ below = SumFunctionOnSet(LiquidityAt, Around(t - 1))
          /\ above = SumFunctionOnSet(LiquidityAt, Around(t))
  BY <1>1, <1>2, SumRangesNat
<1>4. PICK s \in Nat, e \in Nat :
          /\ s = SumFunctionOnSet(LiquidityAt, StartingAt(t))
          /\ e = SumFunctionOnSet(LiquidityAt, EndingAt(t))
          /\ ticks[t].liquidityNet = s - e
          /\ ~(ticks[t].liquidityGross > 0) => s = 0 /\ e = 0
  BY TickHas
<1>5. above = below + s - e
  <2>1. PICK f : f = LiquidityAt
    OBVIOUS
  <2>2. SumFunctionOnSet(f, Around(t)) = SumFunctionOnSet(f, Around(t - 1))
                + SumFunctionOnSet(f, StartingAt(t)) - SumFunctionOnSet(f, EndingAt(t))
    BY <1>1, <1>2, <2>1, SumCrossing
  <2> QED BY <1>3, <1>4, <2>1, <2>2
<1>6. PICK net \in Int : net = s - e /\ net = ticks[t].liquidityNet
  BY <1>4
<1>7. above = below + IF initialized THEN net ELSE 0
  BY <1>4, <1>5, <1>6
<1> QED BY <1>3, <1>6, <1>7

\* The tick and the liquidity in range that belong to the price p, to which an iteration
\* has gone down from the price c in the tick t
Fallen(c, t, limit, next, p) ==
    /\ p \in Nat /\ limit <= p /\ next.tick \in Ticks
    /\ p = SqrtRatio[next.tick] =>
          /\ At(p, next.tick - 1)
          /\ SumFunctionOnSet(LiquidityAt, Around(next.tick - 1))
               = SumFunctionOnSet(LiquidityAt, Around(t))
                  + IF next.initialized THEN -ticks[next.tick].liquidityNet ELSE 0
    /\ p # SqrtRatio[next.tick] /\ p # c =>
          /\ At(p, TickAtSqrtRatio(p))
          /\ SumFunctionOnSet(LiquidityAt, Around(TickAtSqrtRatio(p)))
               = SumFunctionOnSet(LiquidityAt, Around(t))

LEMMA StepDown ==
    ASSUME PoolTyped, TickSums, BitsOfTicks,
           NEW c \in Nat, NEW t, At(c, t), NEW limit \in Nat, MinRatio < limit, limit <= c,
           NEW next, next = NextTick(t, TRUE),
           NEW p, Between(c, Max({SqrtRatio[next.tick], limit}), p)
    PROVE  Fallen(c, t, limit, next, p)
<1>0. MinTick \in Int /\ MaxTick \in Int /\ t \in Int /\ t \in MinTick .. MaxTick - 1
  BY PoolMathAssumption DEF At
<1>1. TicksOnGrid /\ bitmap \in [Words -> Bitmaps]
  BY OnGrid DEF PoolTyped
<1>2. PICK n, initialized : n = next.tick /\ initialized = next.initialized
  OBVIOUS
<1>3. /\ n \in MinTick .. t /\ n \in Int
      /\ \A u \in n + 1 .. t : ~(ticks[u].liquidityGross > 0)
      /\ n > MinTick => (initialized <=> ticks[n].liquidityGross > 0)
  <2>1. /\ next.tick \in MinTick .. t
        /\ \A u \in next.tick + 1 .. t : ~(ticks[u].liquidityGross > 0)
        /\ next.tick > MinTick => (next.initialized <=> ticks[next.tick].liquidityGross > 0)
    BY <1>0, <1>1, NextTickDown, Zenon
  <2>2. MinTick .. t \subseteq Int
    BY ONLY <1>0
  <2> QED BY <1>2, <2>1, <2>2, Zenon
<1>4. n \in Ticks /\ t \in Ticks /\ t + 1 \in Ticks /\ MinTick \in Ticks /\ MaxTick \in Ticks
  BY <1>0, <1>3 DEF Ticks
<1>5. PICK target \in Nat : /\ target = Max({SqrtRatio[n], limit})
                            /\ target >= SqrtRatio[n] /\ target >= limit /\ target <= c
                            /\ SqrtRatio[n] \in Nat
  <2>1. SqrtRatio[n] \in Nat /\ SqrtRatio[n] <= SqrtRatio[t] /\ SqrtRatio[t] <= c /\ SqrtRatio[t] \in Nat
    BY <1>3, <1>4, RatioGrows DEF At
  <2>2. PICK k \in Nat : k = SqrtRatio[n] /\ k <= c
    BY <2>1
  <2>3. Max({k, limit}) = IF k >= limit THEN k ELSE limit
    BY GreatestOfTwo
  <2> QED BY <2>2, <2>3
<1>6. p \in Nat /\ limit <= p /\ SqrtRatio[n] <= p /\ p <= c
  <2>1. Between(c, target, p)
    BY <1>2, <1>5
  <2> QED BY <1>5, <2>1 DEF Between
<1>7. ASSUME p = SqrtRatio[n]
      PROVE  /\ At(p, n - 1)
             /\ SumFunctionOnSet(LiquidityAt, Around(n - 1))
                  = SumFunctionOnSet(LiquidityAt, Around(t)) + IF initialized THEN -ticks[n].liquidityNet ELSE 0
  <2>1. n > MinTick
    <3>1. MinRatio < SqrtRatio[n] /\ SqrtRatio[MinTick] \in Nat
      BY <1>4, <1>6, <1>7, RatioGrows DEF MinRatio
    <3> QED BY <1>0, <1>3, <3>1 DEF MinRatio
  <2>2. n - 1 \in Ticks /\ n - 1 \in MinTick .. MaxTick - 1 /\ (n - 1) + 1 = n
    BY <1>0, <1>3, <2>1 DEF Ticks
  <2>3. At(p, n - 1)
    <3>1. SqrtRatio[n - 1] <= SqrtRatio[n]
      BY <1>3, <1>4, <2>2, RatioGrows
    <3> QED BY <1>5, <1>7, <2>2, <3>1 DEF At
  <2>4. PICK below \in Nat, above \in Nat, net \in Int :
              /\ below = SumFunctionOnSet(LiquidityAt, Around(n - 1))
              /\ above = SumFunctionOnSet(LiquidityAt, Around(n))
              /\ net = ticks[n].liquidityNet
              /\ above = below + IF initialized THEN net ELSE 0
    BY <1>3, <1>4, <2>1, AcrossTick
  <2>5. above = SumFunctionOnSet(LiquidityAt, Around(t))
    <3>1. n <= t
      BY <1>0, <1>3
    <3>2. SumFunctionOnSet(LiquidityAt, Around(n)) = SumFunctionOnSet(LiquidityAt, Around(t))
      BY <1>0, <1>3, <3>1, SameBetween
    <3> QED BY <2>4, <3>2
  <2>6. below = above + IF initialized THEN -net ELSE 0
    BY <2>4
  <2> QED BY <2>3, <2>4, <2>5, <2>6
<1>8. ASSUME p # SqrtRatio[n], p # c
      PROVE  /\ At(p, TickAtSqrtRatio(p))
             /\ SumFunctionOnSet(LiquidityAt, Around(TickAtSqrtRatio(p)))
                     = SumFunctionOnSet(LiquidityAt, Around(t))
  <2>1. /\ SqrtRatio[t + 1] \in Nat /\ MinRatio \in Nat /\ MaxRatio \in Nat
        /\ c <= SqrtRatio[t + 1] /\ SqrtRatio[t + 1] <= MaxRatio
    BY <1>0, <1>4, RatioGrows DEF At, MinRatio, MaxRatio
  <2>2. p \in MinRatio .. MaxRatio - 1
    BY <1>6, <1>8, <2>1
  <2>3. PICK m \in Int : /\ m = TickAtSqrtRatio(p) /\ m \in MinTick .. MaxTick - 1
                         /\ SqrtRatio[m] <= p /\ p < SqrtRatio[m + 1]
    BY <1>0, <2>2, TickOfPrice
  <2>4. m \in Ticks /\ m + 1 \in Ticks
    BY <1>0, <2>3 DEF Ticks
  <2>5. SqrtRatio[m] \in Nat /\ SqrtRatio[m + 1] \in Nat
    BY <2>4, RatioGrows
  <2>6. n <= m
    <3>1. SqrtRatio[n] < SqrtRatio[m + 1]
      BY <1>5, <1>6, <2>3, <2>5
    <3> QED BY <1>3, <1>4, <2>3, <2>4, <3>1, RatioGrows
  <2>7. m <= t
    <3>1. SqrtRatio[m] < SqrtRatio[t + 1]
      BY <1>6, <1>8, <2>1, <2>3, <2>5
    <3> QED BY <1>0, <1>4, <2>3, <2>4, <3>1, RatioGrows
  <2>8. At(p, m)
    BY <1>6, <2>3, <2>5 DEF At
  <2>9. SumFunctionOnSet(LiquidityAt, Around(m)) = SumFunctionOnSet(LiquidityAt, Around(t))
    BY <1>0, <1>3, <2>6, <2>7, SameBetween
  <2> QED BY <2>3, <2>8, <2>9
<1> QED BY <1>2, <1>4, <1>6, <1>7, <1>8 DEF Fallen

\* And up
Risen(c, t, limit, next, p) ==
    /\ p \in Nat /\ p <= limit /\ next.tick \in Ticks
    /\ p = SqrtRatio[next.tick] =>
          /\ At(p, next.tick)
          /\ SumFunctionOnSet(LiquidityAt, Around(next.tick))
               = SumFunctionOnSet(LiquidityAt, Around(t))
                  + IF next.initialized THEN ticks[next.tick].liquidityNet ELSE 0
    /\ p # SqrtRatio[next.tick] /\ p # c =>
          /\ At(p, TickAtSqrtRatio(p))
          /\ SumFunctionOnSet(LiquidityAt, Around(TickAtSqrtRatio(p)))
               = SumFunctionOnSet(LiquidityAt, Around(t))

LEMMA StepUp ==
    ASSUME PoolTyped, TickSums, BitsOfTicks,
           NEW c \in Nat, NEW t, At(c, t), NEW limit \in Nat, c <= limit, limit < MaxRatio,
           NEW next, next = NextTick(t, FALSE),
           NEW p, Between(c, Min({SqrtRatio[next.tick], limit}), p)
    PROVE  Risen(c, t, limit, next, p)
<1>0. MinTick \in Int /\ MaxTick \in Int /\ t \in Int /\ t \in MinTick .. MaxTick - 1
  BY PoolMathAssumption DEF At
<1>1. TicksOnGrid /\ bitmap \in [Words -> Bitmaps]
  BY OnGrid DEF PoolTyped
<1>2. PICK n, initialized : n = next.tick /\ initialized = next.initialized
  OBVIOUS
<1>3. /\ n \in t + 1 .. MaxTick /\ n \in Int
      /\ \A u \in t + 1 .. n - 1 : ~(ticks[u].liquidityGross > 0)
      /\ n < MaxTick => (initialized <=> ticks[n].liquidityGross > 0)
  <2>1. /\ next.tick \in t + 1 .. MaxTick
        /\ \A u \in t + 1 .. next.tick - 1 : ~(ticks[u].liquidityGross > 0)
        /\ next.tick < MaxTick => (next.initialized <=> ticks[next.tick].liquidityGross > 0)
    BY <1>0, <1>1, NextTickUp, Zenon
  <2>2. t + 1 .. MaxTick \subseteq Int
    BY ONLY <1>0
  <2> QED BY <1>2, <2>1, <2>2, Zenon
<1>4. n \in Ticks /\ t \in Ticks /\ t + 1 \in Ticks /\ MinTick \in Ticks /\ MaxTick \in Ticks
  BY <1>0, <1>3 DEF Ticks
<1>5. PICK target \in Nat : /\ target = Min({SqrtRatio[n], limit})
                            /\ target <= SqrtRatio[n] /\ target <= limit /\ target >= c
                            /\ SqrtRatio[n] \in Nat
  <2>1. SqrtRatio[n] \in Nat /\ SqrtRatio[t + 1] <= SqrtRatio[n] /\ c <= SqrtRatio[t + 1] /\ SqrtRatio[t + 1] \in Nat
    BY <1>0, <1>3, <1>4, RatioGrows DEF At
  <2>2. PICK k \in Nat : k = SqrtRatio[n] /\ c <= k
    BY <2>1
  <2>3. Min({k, limit}) = IF k <= limit THEN k ELSE limit
    BY LeastOfTwo
  <2> QED BY <2>2, <2>3
<1>6. p \in Nat /\ p <= limit /\ p <= SqrtRatio[n] /\ c <= p
  <2>1. Between(c, target, p)
    BY <1>2, <1>5
  <2> QED BY <1>5, <2>1 DEF Between
<1>7. ASSUME p = SqrtRatio[n]
      PROVE  /\ At(p, n)
             /\ SumFunctionOnSet(LiquidityAt, Around(n))
                  = SumFunctionOnSet(LiquidityAt, Around(t)) + IF initialized THEN ticks[n].liquidityNet ELSE 0
  <2>1. n < MaxTick
    <3>1. SqrtRatio[n] < MaxRatio /\ SqrtRatio[MaxTick] \in Nat
      BY <1>4, <1>6, <1>7, RatioGrows DEF MaxRatio
    <3> QED BY <1>0, <1>3, <3>1 DEF MaxRatio
  <2>2. n + 1 \in Ticks /\ n \in MinTick .. MaxTick - 1
    BY <1>0, <1>3, <2>1 DEF Ticks
  <2>3. At(p, n)
    <3>1. SqrtRatio[n] <= SqrtRatio[n + 1]
      BY <1>3, <1>4, <2>2, RatioGrows
    <3> QED BY <1>5, <1>7, <2>2, <3>1 DEF At
  <2>4. PICK below \in Nat, above \in Nat, net \in Int :
              /\ below = SumFunctionOnSet(LiquidityAt, Around(n - 1))
              /\ above = SumFunctionOnSet(LiquidityAt, Around(n))
              /\ net = ticks[n].liquidityNet
              /\ above = below + IF initialized THEN net ELSE 0
    BY <1>3, <1>4, <2>1, AcrossTick
  <2>5. below = SumFunctionOnSet(LiquidityAt, Around(t))
    <3>1. n - 1 \in Int /\ t <= n - 1
      BY <1>0, <1>3
    <3> QED BY <1>0, <1>3, <2>4, <3>1, SameBetween
  <2> QED BY <2>3, <2>4, <2>5
<1>8. ASSUME p # SqrtRatio[n], p # c
      PROVE  /\ At(p, TickAtSqrtRatio(p))
             /\ SumFunctionOnSet(LiquidityAt, Around(TickAtSqrtRatio(p)))
                     = SumFunctionOnSet(LiquidityAt, Around(t))
  <2>1. /\ SqrtRatio[t] \in Nat /\ MinRatio \in Nat /\ MaxRatio \in Nat
        /\ SqrtRatio[t] <= c /\ MinRatio <= SqrtRatio[t]
    BY <1>0, <1>4, RatioGrows DEF At, MinRatio, MaxRatio
  <2>2. p \in MinRatio .. MaxRatio - 1
    BY <1>6, <1>8, <2>1
  <2>3. PICK m \in Int : /\ m = TickAtSqrtRatio(p) /\ m \in MinTick .. MaxTick - 1
                         /\ SqrtRatio[m] <= p /\ p < SqrtRatio[m + 1]
    BY <1>0, <2>2, TickOfPrice
  <2>4. m \in Ticks /\ m + 1 \in Ticks
    BY <1>0, <2>3 DEF Ticks
  <2>5. SqrtRatio[m] \in Nat /\ SqrtRatio[m + 1] \in Nat
    BY <2>4, RatioGrows
  <2>6. m < n
    <3>1. SqrtRatio[m] < SqrtRatio[n]
      BY <1>5, <1>6, <1>8, <2>3, <2>5
    <3> QED BY <1>4, <2>4, <3>1, RatioGrows
  <2>7. t <= m
    <3>1. SqrtRatio[t] < SqrtRatio[m + 1]
      BY <1>6, <1>8, <2>1, <2>3, <2>5
    <3> QED BY <1>0, <1>4, <2>3, <2>4, <3>1, RatioGrows
  <2>8. At(p, m)
    BY <1>6, <2>3, <2>5 DEF At
  <2>9. SumFunctionOnSet(LiquidityAt, Around(t)) = SumFunctionOnSet(LiquidityAt, Around(m))
    <3>1. \A u \in t + 1 .. m : ~(ticks[u].liquidityGross > 0)
      BY <1>0, <1>3, <2>6
    <3> QED BY <1>0, <2>7, <3>1, SameBetween
  <2> QED BY <2>3, <2>8, <2>9
<1> QED BY <1>2, <1>4, <1>6, <1>7, <1>8 DEF Risen

-----------------------------------------------------------------------------
(* The loop of a swap *)

LEMMA SwapFields ==
    ASSUME NEW s \in Swaps
    PROVE  /\ s.zeroForOne \in BOOLEAN /\ s.specified \in Int /\ s.limit \in Nat /\ s.unlimited \in BOOLEAN
           /\ s.byTransfer \in BOOLEAN /\ s.remaining \in Int /\ s.amountIn \in Int /\ s.amountOut \in Int
           /\ s.crossed \in Nat /\ s.sqrtPrice \in Nat /\ s.tick \in Ticks /\ s.feeGrowth \in Int
           /\ s.protocolFee \in Int /\ s.liquidity \in Nat /\ s.ticksBefore \in [Ticks -> TickInfos]
           /\ s = [zeroForOne |-> s.zeroForOne, specified |-> s.specified, limit |-> s.limit,
                   unlimited |-> s.unlimited, byTransfer |-> s.byTransfer, remaining |-> s.remaining,
                   amountIn |-> s.amountIn, amountOut |-> s.amountOut, crossed |-> s.crossed,
                   sqrtPrice |-> s.sqrtPrice, tick |-> s.tick, feeGrowth |-> s.feeGrowth,
                   protocolFee |-> s.protocolFee, liquidity |-> s.liquidity, ticksBefore |-> s.ticksBefore]
BY DEF Swaps

LEMMA SwapStartKeeps ==
    ASSUME PoolInv, NEW z \in BOOLEAN, NEW amount \in Int, NEW limit \in Nat \cup {None},
           NEW byTransfer \in BOOLEAN, SwapStart(z, amount, limit, byTransfer)
    PROVE  PoolInv'
<1>1. /\ PoolTyped /\ TickSums /\ BitsOfTicks /\ IsCreated /\ swap = None
      /\ At(slot0.sqrtPrice, slot0.tick)
      /\ liquidity = SumFunctionOnSet(LiquidityAt, Around(slot0.tick))
  BY DEF PoolInv, InRange, SwapStart, Idle
<1>2. PICK c \in Nat, t \in Ticks : c = slot0.sqrtPrice /\ t = slot0.tick
  <2>1. slot0.sqrtPrice \in Nat
    BY <1>1 DEF PoolTyped
  <2>2. slot0.tick \in Ticks
    BY <1>1, PoolMathAssumption DEF At, Ticks
  <2> QED BY <2>1, <2>2
<1>3. MinRatio \in Nat /\ MaxRatio \in Nat \ {0}
  BY RatioGrows, PoolMathAssumption DEF MinRatio, MaxRatio, Ticks
<1>4. PICK bound \in Nat : bound = Limit(z, limit)
  <2>1. Limit(z, limit) = IF limit # None THEN limit ELSE IF z THEN MinRatio + 1 ELSE MaxRatio - 1
    BY DEF Limit
  <2>2. MinRatio + 1 \in Nat /\ MaxRatio - 1 \in Nat
    BY <1>3
  <2>3. CASE limit # None
    BY <2>1, <2>3
  <2>4. CASE limit = None
    BY <2>1, <2>2, <2>4
  <2> QED BY <2>3, <2>4
<1>5. IF z THEN bound < c /\ bound > MinRatio ELSE bound > c /\ bound < MaxRatio
  BY <1>2, <1>4, Zenon DEF SwapStart
<1>6. Limited(z, bound, c)
  <2>1. CASE z
    BY <1>3, <1>5, <2>1 DEF Limited
  <2>2. CASE ~z
    BY <1>3, <1>5, <2>2 DEF Limited
  <2> QED BY <2>1, <2>2
<1>7. PICK in : in = (IF z THEN 0 ELSE 1) /\ in \in Tokens
  BY DEF Tokens
<1>8. PICK growth \in Int : growth = feeGrowth[in]
  BY <1>1, <1>7 DEF PoolTyped
<1>9. PICK unlimited \in BOOLEAN : unlimited <=> (limit = None)
  OBVIOUS
<1>10. swap' = [zeroForOne |-> z, specified |-> amount,
                limit |-> bound, unlimited |-> unlimited, byTransfer |-> byTransfer,
                remaining |-> amount, amountIn |-> 0, amountOut |-> 0, crossed |-> 0,
                sqrtPrice |-> c, tick |-> t,
                feeGrowth |-> growth, protocolFee |-> 0,
                liquidity |-> liquidity, ticksBefore |-> ticks]
  <2>1. unlimited = (limit = None)
    BY <1>9, Zenon
  <2> QED BY <1>2, <1>4, <1>7, <1>8, <2>1, Zenon DEF SwapStart
<1>11. 0 \in Int /\ 0 \in Nat /\ liquidity \in Nat /\ ticks \in [Ticks -> TickInfos]
  BY <1>1 DEF PoolTyped
<1>12. PICK s : s = swap'
  OBVIOUS
<1>13. /\ s \in Swaps
       /\ s.zeroForOne = z /\ s.limit = bound /\ s.sqrtPrice = c /\ s.tick = t
       /\ s.liquidity = liquidity /\ s.ticksBefore = ticks
  <2>1. PICK l \in Nat, before \in [Ticks -> TickInfos], zero \in Nat :
            l = liquidity /\ before = ticks /\ zero = 0 /\ zero \in Int
    BY <1>11
  <2>2. s = [zeroForOne |-> z, specified |-> amount,
             limit |-> bound, unlimited |-> unlimited, byTransfer |-> byTransfer,
             remaining |-> amount, amountIn |-> zero, amountOut |-> zero, crossed |-> zero,
             sqrtPrice |-> c, tick |-> t,
             feeGrowth |-> growth, protocolFee |-> zero,
             liquidity |-> l, ticksBefore |-> before]
    BY <1>10, <1>12, <2>1, Zenon
  <2>3. /\ s \in Swaps
        /\ s.zeroForOne = z /\ s.limit = bound /\ s.sqrtPrice = c /\ s.tick = t
        /\ s.liquidity = l /\ s.ticksBefore = before
    <3>1. z \in BOOLEAN /\ byTransfer \in BOOLEAN /\ unlimited \in BOOLEAN /\ amount \in Int
      OBVIOUS
    <3> QED BY ONLY <2>1, <2>2, <3>1 DEF Swaps
  <2> QED BY <2>1, <2>3, Zenon
<1>14. UNCHANGED <<slot0, liquidity, feeGrowth, ticks, bitmap, positions>>
  BY DEF SwapStart
<1>15. LiquidityAt' = LiquidityAt
  BY <1>14 DEF LiquidityAt, Position
<1>16. PoolTyped'
  BY <1>1, <1>12, <1>13, <1>14 DEF PoolTyped
<1>17. TickSums' /\ BitsOfTicks' /\ InRange' /\ NotCreated' /\ IsCreated'
  <2>1. TickSums' /\ BitsOfTicks'
    BY <1>1, <1>14, <1>15 DEF TickSums, BitsOfTicks
  <2>2. InRange' /\ NotCreated' /\ IsCreated'
    BY <1>1, <1>14, <1>15 DEF InRange, NotCreated, IsCreated
  <2> QED BY <2>1, <2>2
<1>18. SwapInv'
  <2>1. At(s.sqrtPrice, s.tick) /\ s.liquidity = SumFunctionOnSet(LiquidityAt, Around(s.tick))
    BY <1>1, <1>2, <1>13
  <2>2. Limited(s.zeroForOne, s.limit, s.sqrtPrice)
    BY <1>6, <1>13, Zenon
  <2>3. SameLiquidity(s.ticksBefore, ticks)
    BY <1>13 DEF SameLiquidity
  <2> QED BY <1>12, <1>14, <1>15, <1>17, <2>1, <2>2, <2>3, Zenon DEF SwapInv
<1> QED BY <1>16, <1>17, <1>18 DEF PoolInv

LEMMA SameLiquidityKeeps ==
    ASSUME TickSums, BitsOfTicks, SameLiquidity(ticks', ticks), UNCHANGED <<bitmap, positions>>
    PROVE  TickSums' /\ BitsOfTicks' /\ LiquidityAt' = LiquidityAt
<1>1. LiquidityAt' = LiquidityAt
  BY DEF LiquidityAt, Position
<1>2. TickSums'
  BY <1>1 DEF TickSums, SameLiquidity
<1>3. BitsOfTicks'
  BY DEF BitsOfTicks, SameLiquidity
<1> QED BY <1>1, <1>2, <1>3

LEMMA SwapEndKeeps ==
    ASSUME PoolInv, SwapEnd
    PROVE  PoolInv'
<1>1. /\ PoolTyped /\ TickSums /\ BitsOfTicks /\ IsCreated /\ swap # None
      /\ At(swap.sqrtPrice, swap.tick)
      /\ swap.liquidity = SumFunctionOnSet(LiquidityAt, Around(swap.tick))
  BY DEF PoolInv, SwapInv, SwapEnd
<1>2. PICK c \in Nat, t \in Ticks, l \in Nat, growth \in Int :
          c = swap.sqrtPrice /\ t = swap.tick /\ l = swap.liquidity /\ growth = swap.feeGrowth
  <2>1. swap \in Swaps
    BY <1>1 DEF PoolTyped
  <2> QED BY <2>1, SwapFields
<1>3. /\ slot0' = [sqrtPrice |-> c, tick |-> t] /\ liquidity' = l /\ swap' = None
      /\ feeGrowth' = [feeGrowth EXCEPT ![TokenIn] = growth]
      /\ UNCHANGED <<ticks, bitmap, positions>>
  BY <1>2 DEF SwapEnd
<1>4. LiquidityAt' = LiquidityAt
  BY <1>3 DEF LiquidityAt, Position
<1>5. PoolTyped'
  <2>1. feeGrowth' \in [Tokens -> Int]
    BY <1>1, <1>3 DEF PoolTyped
  <2> QED BY <1>1, <1>3, <2>1 DEF PoolTyped
<1>6. TickSums' /\ BitsOfTicks'
  BY <1>1, <1>3, <1>4 DEF TickSums, BitsOfTicks
<1>7. InRange'
  BY <1>1, <1>2, <1>3, <1>4 DEF InRange
<1>8. NotCreated' /\ SwapInv'
  <2>1. c # 0
    <3>1. SqrtRatio[t] \in Nat \ {0} /\ SqrtRatio[t] <= c
      BY <1>1, <1>2, RatioGrows DEF At
    <3> QED BY <3>1
  <2> QED BY <1>3, <2>1 DEF NotCreated, SwapInv, IsCreated
<1> QED BY <1>5, <1>6, <1>7, <1>8 DEF PoolInv

LEMMA SwapRevertKeeps ==
    ASSUME PoolInv, SwapRevert
    PROVE  PoolInv'
<1>1. /\ PoolTyped /\ TickSums /\ BitsOfTicks /\ InRange /\ IsCreated
      /\ swap \in Swaps /\ SameLiquidity(swap.ticksBefore, ticks)
  BY DEF PoolInv, PoolTyped, SwapInv, SwapRevert
<1>2. /\ ticks' = swap.ticksBefore /\ swap' = None
      /\ UNCHANGED <<slot0, liquidity, feeGrowth, bitmap, positions>>
  BY DEF SwapRevert
<1>3. ticks' \in [Ticks -> TickInfos] /\ SameLiquidity(ticks', ticks)
  BY <1>1, <1>2, SwapFields
<1>4. TickSums' /\ BitsOfTicks' /\ LiquidityAt' = LiquidityAt
  BY <1>1, <1>2, <1>3, SameLiquidityKeeps
<1>5. PoolTyped'
  BY <1>1, <1>2, <1>3 DEF PoolTyped
<1>6. InRange' /\ NotCreated' /\ SwapInv'
  BY <1>1, <1>2, <1>4 DEF InRange, NotCreated, SwapInv, IsCreated
<1> QED BY <1>4, <1>5, <1>6 DEF PoolInv

LEMMA TicksTouched ==
    ASSUME ticks \in [Ticks -> TickInfos], NEW t \in Ticks, NEW outside \in [Tokens -> Int],
           NEW infos, infos = [ticks EXCEPT ![t].outside = outside]
    PROVE  infos \in [Ticks -> TickInfos] /\ SameLiquidity(infos, ticks)
<1>1. PICK gross \in Nat, net \in Int, old \in [Tokens -> Int] :
          ticks[t] = [liquidityGross |-> gross, liquidityNet |-> net, outside |-> old]
  <2>1. ticks[t] \in TickInfos
    OBVIOUS
  <2> QED BY <2>1 DEF TickInfos
<1>2. PICK info : info = [liquidityGross |-> gross, liquidityNet |-> net, outside |-> outside]
  OBVIOUS
<1>3. infos = [ticks EXCEPT ![t] = info]
  <2>1. [ticks[t] EXCEPT !.outside = outside] = info
    BY <1>1, <1>2
  <2>2. infos = [ticks EXCEPT ![t] = [ticks[t] EXCEPT !.outside = outside]]
    OBVIOUS
  <2> QED BY <2>1, <2>2, Zenon
<1>4. info \in TickInfos /\ info.liquidityGross = gross /\ info.liquidityNet = net
  BY <1>2, TickMade
<1>5. infos \in [Ticks -> TickInfos]
  BY <1>3, <1>4
<1>6. ASSUME NEW u \in Ticks
      PROVE  /\ infos[u].liquidityGross = ticks[u].liquidityGross
             /\ infos[u].liquidityNet = ticks[u].liquidityNet
  BY <1>1, <1>3, <1>4
<1> QED BY <1>5, <1>6 DEF SameLiquidity

\* The tick and the liquidity after an iteration that has gone to the price p
TickAfterStep(next, p) ==
    IF p = SqrtRatio[next.tick] THEN TickBeyond(next.tick)
    ELSE IF p # swap.sqrtPrice THEN TickAtSqrtRatio(p) ELSE swap.tick
LiquidityAfterStep(next, p) ==
    swap.liquidity + IF p = SqrtRatio[next.tick] /\ next.initialized THEN NetCrossed(next.tick) ELSE 0

LEMMA StepTakes ==
    ASSUME PoolInv, swap # None, NEW next, next = NextTick(swap.tick, swap.zeroForOne),
           NEW p, Between(swap.sqrtPrice, Target(next), p)
    PROVE  /\ p \in Nat /\ next.tick \in Ticks
           /\ At(p, TickAfterStep(next, p))
           /\ LiquidityAfterStep(next, p) = SumFunctionOnSet(LiquidityAt, Around(TickAfterStep(next, p)))
           /\ Limited(swap.zeroForOne, swap.limit, p)
<1>1. /\ PoolTyped /\ TickSums /\ BitsOfTicks /\ swap \in Swaps
      /\ At(swap.sqrtPrice, swap.tick)
      /\ swap.liquidity = SumFunctionOnSet(LiquidityAt, Around(swap.tick))
      /\ Limited(swap.zeroForOne, swap.limit, swap.sqrtPrice)
  BY DEF PoolInv, PoolTyped, SwapInv
<1>2. PICK c \in Nat, t \in Ticks, limit \in Nat, l \in Nat :
          c = swap.sqrtPrice /\ t = swap.tick /\ limit = swap.limit /\ l = swap.liquidity
  BY <1>1, SwapFields
<1>3. PICK n : n = next.tick
  OBVIOUS
<1>4. l = SumFunctionOnSet(LiquidityAt, Around(t)) /\ At(c, t)
  BY <1>1, <1>2
<1>5. CASE swap.zeroForOne
  <2>1. MinRatio < limit /\ limit <= c
    BY <1>1, <1>2, <1>5, Zenon DEF Limited
  <2>2. next = NextTick(t, TRUE)
    <3>1. swap.zeroForOne = TRUE
      BY <1>1, <1>5, SwapFields
    <3> QED BY <1>2, <3>1, Zenon
  <2>3. Between(c, Max({SqrtRatio[n], limit}), p)
    BY <1>2, <1>3, <1>5, Zenon DEF Target
  <2>4. Fallen(c, t, limit, next, p)
    BY <1>1, <1>3, <1>4, <2>1, <2>2, <2>3, StepDown, Zenon
  <2>5. Limited(swap.zeroForOne, swap.limit, p)
    BY <1>2, <1>5, <2>1, <2>4, Zenon DEF Limited, Fallen
  <2>6. CASE p = SqrtRatio[n]
    <3>1. TickAfterStep(next, p) = n - 1
      BY <1>3, <1>5, <2>6, Zenon DEF TickAfterStep, TickBeyond
    <3>2. LiquidityAfterStep(next, p) = l + IF next.initialized THEN -ticks[n].liquidityNet ELSE 0
      BY <1>2, <1>3, <1>5, <2>6, Zenon DEF LiquidityAfterStep, NetCrossed
    <3> QED BY <1>3, <1>4, <2>4, <2>5, <2>6, <3>1, <3>2, Zenon DEF Fallen
  <2>7. CASE p # SqrtRatio[n] /\ p # c
    <3>1. TickAfterStep(next, p) = TickAtSqrtRatio(p)
      BY <1>2, <1>3, <2>7, Zenon DEF TickAfterStep
    <3>2. LiquidityAfterStep(next, p) = l
      <4>1. LiquidityAfterStep(next, p) = l + 0
        BY <1>2, <1>3, <2>7, Zenon DEF LiquidityAfterStep
      <4>2. l + 0 = l
        OBVIOUS
      <4> QED BY <4>1, <4>2, Zenon
    <3> QED BY <1>3, <1>4, <2>4, <2>5, <2>7, <3>1, <3>2, Zenon DEF Fallen
  <2>8. CASE p # SqrtRatio[n] /\ p = c
    <3>1. TickAfterStep(next, p) = t
      BY <1>2, <1>3, <2>8, Zenon DEF TickAfterStep
    <3>2. LiquidityAfterStep(next, p) = l
      <4>1. LiquidityAfterStep(next, p) = l + 0
        BY <1>2, <1>3, <2>8, Zenon DEF LiquidityAfterStep
      <4>2. l + 0 = l
        OBVIOUS
      <4> QED BY <4>1, <4>2, Zenon
    <3> QED BY <1>3, <1>4, <2>4, <2>5, <2>8, <3>1, <3>2, Zenon DEF Fallen
  <2> QED BY <2>6, <2>7, <2>8, Zenon
<1>6. CASE ~swap.zeroForOne
  <2>1. c <= limit /\ limit < MaxRatio
    BY <1>1, <1>2, <1>6, Zenon DEF Limited
  <2>2. next = NextTick(t, FALSE)
    <3>1. swap.zeroForOne = FALSE
      BY <1>1, <1>6, SwapFields
    <3> QED BY <1>2, <3>1, Zenon
  <2>3. Between(c, Min({SqrtRatio[n], limit}), p)
    BY <1>2, <1>3, <1>6, Zenon DEF Target
  <2>4. Risen(c, t, limit, next, p)
    BY <1>1, <1>3, <1>4, <2>1, <2>2, <2>3, StepUp, Zenon
  <2>5. Limited(swap.zeroForOne, swap.limit, p)
    BY <1>2, <1>6, <2>1, <2>4, Zenon DEF Limited, Risen
  <2>6. CASE p = SqrtRatio[n]
    <3>1. TickAfterStep(next, p) = n
      BY <1>3, <1>6, <2>6, Zenon DEF TickAfterStep, TickBeyond
    <3>2. LiquidityAfterStep(next, p) = l + IF next.initialized THEN ticks[n].liquidityNet ELSE 0
      BY <1>2, <1>3, <1>6, <2>6, Zenon DEF LiquidityAfterStep, NetCrossed
    <3> QED BY <1>3, <1>4, <2>4, <2>5, <2>6, <3>1, <3>2, Zenon DEF Risen
  <2>7. CASE p # SqrtRatio[n] /\ p # c
    <3>1. TickAfterStep(next, p) = TickAtSqrtRatio(p)
      BY <1>2, <1>3, <2>7, Zenon DEF TickAfterStep
    <3>2. LiquidityAfterStep(next, p) = l
      <4>1. LiquidityAfterStep(next, p) = l + 0
        BY <1>2, <1>3, <2>7, Zenon DEF LiquidityAfterStep
      <4>2. l + 0 = l
        OBVIOUS
      <4> QED BY <4>1, <4>2, Zenon
    <3> QED BY <1>3, <1>4, <2>4, <2>5, <2>7, <3>1, <3>2, Zenon DEF Risen
  <2>8. CASE p # SqrtRatio[n] /\ p = c
    <3>1. TickAfterStep(next, p) = t
      BY <1>2, <1>3, <2>8, Zenon DEF TickAfterStep
    <3>2. LiquidityAfterStep(next, p) = l
      <4>1. LiquidityAfterStep(next, p) = l + 0
        BY <1>2, <1>3, <2>8, Zenon DEF LiquidityAfterStep
      <4>2. l + 0 = l
        OBVIOUS
      <4> QED BY <4>1, <4>2, Zenon
    <3> QED BY <1>3, <1>4, <2>4, <2>5, <2>8, <3>1, <3>2, Zenon DEF Risen
  <2> QED BY <2>6, <2>7, <2>8, Zenon
<1> QED BY <1>5, <1>6

\* The growth of the fees after an iteration
GrowthAfterStep(feeAmount) ==
    IF swap.liquidity = 0 THEN swap.feeGrowth
    ELSE Wrap256(swap.feeGrowth + MulDiv(FeeToPositions(feeAmount), Q128, swap.liquidity))

LEMMA IterateKeeps ==
    ASSUME PoolInv, swap # None, NEW next, next = NextTick(swap.tick, swap.zeroForOne),
           NEW step, Between(swap.sqrtPrice, Target(next), step.sqrtPrice),
           step.amountIn \in Nat, step.amountOut \in Nat, step.feeAmount \in Int,
           Iterate(next, step)
    PROVE  PoolInv'
<1>1. /\ PoolTyped /\ TickSums /\ BitsOfTicks /\ InRange /\ IsCreated /\ swap \in Swaps
      /\ SameLiquidity(swap.ticksBefore, ticks)
  BY DEF PoolInv, PoolTyped, SwapInv
<1>2. PICK p : p = step.sqrtPrice
  OBVIOUS
<1>3. PICK t2, l2 : t2 = TickAfterStep(next, p) /\ l2 = LiquidityAfterStep(next, p)
  OBVIOUS
<1>4. /\ p \in Nat /\ next.tick \in Ticks /\ At(p, t2)
      /\ l2 = SumFunctionOnSet(LiquidityAt, Around(t2))
      /\ Limited(swap.zeroForOne, swap.limit, p)
  BY <1>2, <1>3, StepTakes, Zenon
<1>5. t2 \in Ticks /\ l2 \in Nat
  <2>1. t2 \in Ticks
    BY <1>4, PoolMathAssumption DEF At, Ticks
  <2>2. \A r \in Ranges : LiquidityAt[r] \in Nat
    BY <1>1, LiquidityNat DEF PoolTyped
  <2>3. Around(t2) \in SUBSET Ranges
    BY DEF Around
  <2> QED BY <1>4, <2>1, <2>2, <2>3, SumRangesNat
<1>6. TokenIn \in Tokens
  BY DEF TokenIn, Tokens
<1>7. PICK share \in Int : share = ProtocolShare(step.feeAmount)
  BY <1>6, ShareTyped DEF ProtocolShare
<1>8. PICK growth \in Int : growth = GrowthAfterStep(step.feeAmount)
  <2>1. swap.feeGrowth \in Int /\ swap.liquidity \in Nat
    BY <1>1, SwapFields
  <2>2. FeeToPositions(step.feeAmount) \in Int
    BY <1>7 DEF FeeToPositions
  <2>3. GrowthAfterStep(step.feeAmount) \in Int
    <3>1. CASE swap.liquidity = 0
      BY <2>1, <3>1 DEF GrowthAfterStep
    <3>2. CASE swap.liquidity # 0
      <4>1. swap.liquidity \in Nat \ {0}
        BY <2>1, <3>2
      <4>2. Wrap256(swap.feeGrowth + MulDiv(FeeToPositions(step.feeAmount), Q128, swap.liquidity)) \in Int
        BY <2>1, <2>2, <4>1, GrowthTyped
      <4> QED BY <3>2, <4>2 DEF GrowthAfterStep
    <3> QED BY <3>1, <3>2
  <2> QED BY <2>3
<1>9. PICK crossed \in BOOLEAN : crossed <=> (p = SqrtRatio[next.tick] /\ next.initialized)
  OBVIOUS
<1>10. PICK s : s = swap'
  OBVIOUS
<1>a. /\ swap.specified \in Int /\ swap.remaining \in Int /\ swap.amountIn \in Int
      /\ swap.amountOut \in Int /\ swap.crossed \in Nat /\ swap.protocolFee \in Int
      /\ step.amountIn \in Int /\ step.amountOut \in Int /\ step.feeAmount \in Int
  BY <1>1, SwapFields
<1>b. PICK remaining \in Int :
          remaining = IF swap.specified > 0 THEN swap.remaining - step.amountIn - step.feeAmount
                                            ELSE swap.remaining + step.amountOut
  <2>1. /\ swap.remaining - step.amountIn - step.feeAmount \in Int
        /\ swap.remaining + step.amountOut \in Int
    BY <1>a
  <2> QED BY <2>1, Zenon
<1>c. PICK in \in Int, out \in Int, fees \in Int :
          /\ in = swap.amountIn + step.amountIn + step.feeAmount
          /\ out = swap.amountOut + step.amountOut
          /\ fees = swap.protocolFee + share
  BY <1>a
<1>d. PICK count \in Nat :
          count = swap.crossed + IF p = SqrtRatio[next.tick] /\ next.initialized THEN 1 ELSE 0
  <2>1. PICK n \in Nat : n = IF p = SqrtRatio[next.tick] /\ next.initialized THEN 1 ELSE 0
    <3>1. 0 \in Nat /\ 1 \in Nat
      OBVIOUS
    <3> QED BY <3>1, Zenon
  <2>2. swap.crossed + n \in Nat
    BY <1>a
  <2> QED BY <2>1, <2>2, Zenon
<1>11. /\ remaining = (IF swap.specified > 0 THEN swap.remaining - step.amountIn - step.feeAmount
                                              ELSE swap.remaining + step.amountOut)
       /\ in = swap.amountIn + step.amountIn + step.feeAmount
       /\ out = swap.amountOut + step.amountOut
       /\ count = swap.crossed + IF p = SqrtRatio[next.tick] /\ next.initialized THEN 1 ELSE 0
       /\ fees = swap.protocolFee + share
  BY <1>b, <1>c, <1>d, Zenon
<1>12. s = [swap EXCEPT !.remaining = remaining, !.amountIn = in, !.amountOut = out,
                        !.sqrtPrice = p, !.tick = t2, !.feeGrowth = growth,
                        !.protocolFee = fees, !.crossed = count, !.liquidity = l2]
  BY <1>2, <1>3, <1>7, <1>8, <1>10, <1>11, ZenonT(60)
     DEF Iterate, TickAfterStep, LiquidityAfterStep, GrowthAfterStep
<1>13. /\ s \in Swaps
       /\ s.zeroForOne = swap.zeroForOne /\ s.limit = swap.limit /\ s.sqrtPrice = p /\ s.tick = t2
       /\ s.liquidity = l2 /\ s.ticksBefore = swap.ticksBefore
  <2>1. PICK old \in Swaps : old = swap
    BY <1>1
  <2>2. s = [old EXCEPT !.remaining = remaining, !.amountIn = in, !.amountOut = out,
                        !.sqrtPrice = p, !.tick = t2, !.feeGrowth = growth,
                        !.protocolFee = fees, !.crossed = count, !.liquidity = l2]
    BY <1>12, <2>1, Zenon
  <2>3. /\ remaining \in Int /\ in \in Int /\ out \in Int /\ p \in Nat /\ t2 \in Ticks /\ growth \in Int
        /\ fees \in Int /\ count \in Nat /\ l2 \in Nat
    BY <1>4, <1>5
  <2>4. /\ s \in Swaps
        /\ s.zeroForOne = old.zeroForOne /\ s.limit = old.limit /\ s.sqrtPrice = p /\ s.tick = t2
        /\ s.liquidity = l2 /\ s.ticksBefore = old.ticksBefore
    BY ONLY <2>1, <2>2, <2>3, old \in Swaps DEF Swaps
  <2> QED BY <2>1, <2>4, Zenon
<1>14. UNCHANGED <<slot0, liquidity, feeGrowth, bitmap, positions>>
  BY DEF Iterate
<1>15. ticks' \in [Ticks -> TickInfos] /\ SameLiquidity(ticks', ticks)
  <2>1. ticks' = IF p = SqrtRatio[next.tick] /\ next.initialized
                 THEN [ticks EXCEPT ![next.tick].outside = CrossedOutside(next.tick, growth)] ELSE ticks
    BY <1>2, <1>8, Zenon DEF Iterate, GrowthAfterStep
  <2>2. PICK outside \in [Tokens -> Int] : outside = CrossedOutside(next.tick, growth)
    <3>1. ticks[next.tick].outside \in [Tokens -> Int] /\ feeGrowth \in [Tokens -> Int]
      BY <1>1, <1>4, TickFields DEF PoolTyped
    <3>2. PICK old \in [Tokens -> Int] : old = ticks[next.tick].outside
      BY <3>1
    <3>3. ASSUME NEW i \in Tokens
          PROVE  Wrap256((IF i = TokenIn THEN growth ELSE feeGrowth[i]) - old[i]) \in Int
      <4>1. (IF i = TokenIn THEN growth ELSE feeGrowth[i]) - old[i] \in Int
        BY <3>1
      <4> QED BY <4>1, WrapNat
    <3> QED BY <3>2, <3>3 DEF CrossedOutside
  <2>3. CASE p = SqrtRatio[next.tick] /\ next.initialized
    <3>1. ticks' = [ticks EXCEPT ![next.tick].outside = outside]
      BY <2>1, <2>2, <2>3, Zenon
    <3>2. PICK infos : infos = [ticks EXCEPT ![next.tick].outside = outside]
      OBVIOUS
    <3>3. infos \in [Ticks -> TickInfos] /\ SameLiquidity(infos, ticks)
      BY <1>1, <1>4, <3>2, TicksTouched DEF PoolTyped
    <3> QED BY <3>1, <3>2, <3>3, Zenon
  <2>4. CASE ~(p = SqrtRatio[next.tick] /\ next.initialized)
    BY <1>1, <2>1, <2>4 DEF PoolTyped, SameLiquidity
  <2> QED BY <2>3, <2>4
<1>16. TickSums' /\ BitsOfTicks' /\ LiquidityAt' = LiquidityAt
  BY <1>1, <1>14, <1>15, SameLiquidityKeeps
<1>17. PoolTyped'
  BY <1>1, <1>10, <1>13, <1>14, <1>15 DEF PoolTyped
<1>18. InRange' /\ NotCreated' /\ IsCreated'
  BY <1>1, <1>14, <1>16 DEF InRange, NotCreated, IsCreated
<1>19. SwapInv'
  <2>1. At(s.sqrtPrice, s.tick) /\ s.liquidity = SumFunctionOnSet(LiquidityAt, Around(s.tick))
    BY <1>4, <1>13, Zenon
  <2>2. Limited(s.zeroForOne, s.limit, s.sqrtPrice)
    BY <1>4, <1>13, Zenon
  <2>3. SameLiquidity(s.ticksBefore, ticks')
    BY <1>1, <1>13, <1>15 DEF SameLiquidity
  <2> QED BY <1>10, <1>16, <1>18, <2>1, <2>2, <2>3, Zenon DEF SwapInv
<1> QED BY <1>16, <1>17, <1>18, <1>19 DEF PoolInv

LEMMA SwapStepKeeps ==
    ASSUME PoolInv, SwapStep
    PROVE  PoolInv'
<1>1. PICK next, step :
          /\ next = NextTick(swap.tick, swap.zeroForOne)
          /\ step = ComputeSwapStep(swap.sqrtPrice, Target(next), swap.liquidity, swap.remaining, Fee)
          /\ Iterate(next, step)
  BY DEF SwapStep
<1>2. /\ swap # None /\ swap \in Swaps /\ PoolTyped /\ TickSums /\ BitsOfTicks
      /\ At(swap.sqrtPrice, swap.tick)
  BY DEF SwapStep, PoolInv, PoolTyped, SwapInv
<1>3. PICK c \in Nat, t \in Ticks, limit \in Nat, l \in Nat, remaining \in Int :
          /\ c = swap.sqrtPrice /\ t = swap.tick /\ limit = swap.limit /\ l = swap.liquidity
          /\ remaining = swap.remaining
  BY <1>2, SwapFields
<1>4. c \in Nat \ {0}
  <2>1. SqrtRatio[t] \in Nat \ {0} /\ SqrtRatio[t] <= c
    BY <1>2, <1>3, RatioGrows DEF At
  <2> QED BY <2>1
<1>5. next.tick \in Ticks
  <2>1. t \in MinTick .. MaxTick - 1 /\ TicksOnGrid /\ bitmap \in [Words -> Bitmaps]
    BY <1>2, <1>3, OnGrid DEF At, PoolTyped
  <2>2. NextTick(t, TRUE).tick \in MinTick .. t
    BY <1>2, <2>1, NextTickDown, Zenon
  <2>3. NextTick(t, FALSE).tick \in t + 1 .. MaxTick
    BY <1>2, <2>1, NextTickUp, Zenon
  <2>4. MinTick .. t \subseteq Ticks /\ t + 1 .. MaxTick \subseteq Ticks
    BY ONLY <2>1, PoolMathAssumption DEF Ticks
  <2>5. swap.zeroForOne = TRUE \/ swap.zeroForOne = FALSE
    BY <1>2, SwapFields
  <2> QED BY <1>1, <1>3, <2>2, <2>3, <2>4, <2>5, Zenon
<1>6. PICK target \in Nat \ {0} : target = Target(next)
  <2>1. PICK k \in Nat \ {0} : k = SqrtRatio[next.tick]
    BY <1>5, RatioGrows
  <2>2. limit # 0
    <3>1. Limited(swap.zeroForOne, limit, c) /\ MinRatio \in Nat
      BY <1>2, <1>3, RatioGrows, PoolMathAssumption DEF PoolInv, SwapInv, MinRatio, Ticks
    <3>2. MinRatio < limit \/ c <= limit
      BY <3>1, Zenon DEF Limited
    <3> QED BY <1>4, <3>1, <3>2
  <2>3. Max({k, limit}) \in Nat \ {0} /\ Min({k, limit}) \in Nat \ {0}
    BY <2>2, LeastOfTwo, GreatestOfTwo
  <2> QED BY <1>3, <2>1, <2>3, Zenon DEF Target
<1>7. /\ Between(c, target, step.sqrtPrice)
      /\ step.amountIn \in Nat /\ step.amountOut \in Nat /\ step.feeAmount \in Int
  <2>1. step = ComputeSwapStep(c, target, l, remaining, Fee)
    BY <1>1, <1>3, <1>6
  <2>2. Fee \in 0 .. FeeUnit - 1
    BY PoolAssumption
  <2>3. target \in Nat \ {0} /\ c \in Nat \ {0} /\ l \in Nat /\ remaining \in Int
    BY <1>4, PoolMathAssumption
  <2>4. PICK fee \in 0 .. FeeUnit - 1 : fee = Fee
    BY <2>2
  <2>5. Between(c, target, step.sqrtPrice) /\ step.amountIn \in Nat /\ step.amountOut \in Nat /\ step.feeAmount \in Nat
    BY <2>1, <2>3, <2>4, StepTyped
  <2> QED BY <2>5
<1>8. Between(swap.sqrtPrice, Target(next), step.sqrtPrice)
  BY <1>3, <1>6, <1>7
<1> QED BY <1>1, <1>2, <1>7, <1>8, IterateKeeps, Zenon

-----------------------------------------------------------------------------
(* The NFTs of the positions *)

\* What an NFT, or none, has of a range
WeightOf(n, r) == IF n # None /\ n.range = r THEN n.liquidity ELSE 0
NftWeight(table, r) == [id \in NftIds |-> WeightOf(table[id], r)]

\* The NFTs of a range have the liquidity of its position, and the next one is new.
NftInv ==
    /\ nfts \in [NftIds -> Nfts \cup {None}]
    /\ nextIndex \in Nat \ {0}
    /\ \A id \in NftIds : id >= nextIndex => nfts[id] = None
    /\ \A r \in Ranges : LiquidityAt[r] = SumFunctionOnSet(NftWeight(nfts, r), NftIds)

LEMMA NftFields ==
    ASSUME NEW n \in Nfts
    PROVE  /\ n # None
           /\ n.owner \in Users /\ n.range \in Ranges /\ n.liquidity \in Nat
           /\ n.insideLast \in [Tokens -> Int] /\ n.tokensOwed \in [Tokens -> Int]
           /\ n = [owner |-> n.owner, range |-> n.range, liquidity |-> n.liquidity,
                   insideLast |-> n.insideLast, tokensOwed |-> n.tokensOwed]
BY NoNftAssumption DEF Nfts

LEMMA WeightNat ==
    ASSUME NEW n \in Nfts \cup {None}, NEW r
    PROVE  WeightOf(n, r) \in Nat /\ WeightOf(None, r) = 0
<1>1. WeightOf(None, r) = 0
  BY DEF WeightOf
<1>2. CASE n \in Nfts
  BY <1>1, <1>2, NftFields DEF WeightOf
<1>3. CASE n = None
  BY <1>1, <1>3
<1> QED BY <1>1, <1>2, <1>3

WeightMoved(n, old, range, delta) ==
    \A r \in Ranges : WeightOf(n, r) = WeightOf(old, r) + IF r = range THEN delta ELSE 0

\* The liquidity of the positions is still that of the NFTs, of which one has changed.
NftsFollow(id) ==
    /\ nfts' \in [NftIds -> Nfts \cup {None}]
    /\ \A r \in Ranges : LiquidityAt'[r] = SumFunctionOnSet(NftWeight(nfts', r), NftIds)
    /\ \A k \in NftIds : k # id => nfts'[k] = nfts[k]

LEMMA NftChanged ==
    ASSUME NEW nft \in Nfts, NEW owed \in [Tokens -> Int], NEW inside \in [Tokens -> Int], NEW l \in Nat,
           NEW n, n = [nft EXCEPT !.tokensOwed = owed, !.insideLast = inside, !.liquidity = l]
    PROVE  n \in Nfts /\ n.range = nft.range /\ n.liquidity = l
BY DEF Nfts

LEMMA NftIdsFinite ==
    IsFiniteSet(NftIds)
BY PositionManagerAssumption, FS_Interval DEF NftIds

\* One NFT changes by as much as the position of a range.
LEMMA NftMoved ==
    ASSUME NftInv, NEW range \in Ranges, NEW delta \in Int, Moved(range, delta),
           NEW id \in NftIds, NEW n \in Nfts \cup {None}, nfts' = [nfts EXCEPT ![id] = n],
           WeightMoved(n, nfts[id], range, delta)
    PROVE  NftsFollow(id)
<1>1. nfts \in [NftIds -> Nfts \cup {None}]
  BY DEF NftInv
<1>2. PICK table \in [NftIds -> Nfts \cup {None}] : table = [nfts EXCEPT ![id] = n]
  BY <1>1
<1>3. /\ table[id] = n
      /\ \A k \in NftIds : k # id => table[k] = nfts[k]
  BY <1>1, <1>2
<1>4. ASSUME NEW r \in Ranges
      PROVE  SumFunctionOnSet(NftWeight(table, r), NftIds) = LiquidityAt[r] + IF r = range THEN delta ELSE 0
  <2>1. PICK f, g : f = NftWeight(nfts, r) /\ g = NftWeight(table, r)
    OBVIOUS
  <2>2. \A k \in NftIds : f[k] = WeightOf(nfts[k], r) /\ g[k] = WeightOf(table[k], r)
    BY <2>1 DEF NftWeight
  <2>3. \A k \in NftIds : f[k] \in Int /\ g[k] \in Int
    <3>1. \A k \in NftIds : nfts[k] \in Nfts \cup {None} /\ table[k] \in Nfts \cup {None}
      BY <1>1
    <3>2. \A m \in Nfts \cup {None} : WeightOf(m, r) \in Int
      BY WeightNat
    <3> QED BY <2>2, <3>1, <3>2
  <2>4. \A k \in NftIds : k # id => g[k] = f[k]
    BY <1>3, <2>2
  <2>5. SumFunctionOnSet(g, NftIds) = SumFunctionOnSet(f, NftIds) - f[id] + g[id]
    BY <2>3, <2>4, NftIdsFinite, SumUpdate
  <2>6. SumFunctionOnSet(f, NftIds) = LiquidityAt[r] /\ SumFunctionOnSet(f, NftIds) \in Int
    BY <2>1, <2>3, NftIdsFinite, SumInt DEF NftInv
  <2>7. g[id] = f[id] + IF r = range THEN delta ELSE 0
    BY <1>3, <2>2 DEF WeightMoved
  <2> QED BY <2>1, <2>3, <2>5, <2>6, <2>7
<1>5. \A r \in Ranges : LiquidityAt'[r] = SumFunctionOnSet(NftWeight(table, r), NftIds)
  BY <1>4 DEF Moved
<1> QED BY <1>2, <1>3, <1>5 DEF NftsFollow

\* An NFT keeps its liquidity, and so do all positions.
LEMMA NftTouched ==
    ASSUME NftInv, LiquidityAt' = LiquidityAt, UNCHANGED nextIndex,
           NEW id \in NftIds, nfts[id] # None, NEW n \in Nfts \cup {None}, nfts' = [nfts EXCEPT ![id] = n],
           \A r \in Ranges : WeightOf(n, r) = WeightOf(nfts[id], r)
    PROVE  NftInv'
<1>1. PICK old \in Nfts : old = nfts[id]
  BY DEF NftInv
<1>2. PICK range \in Ranges : range = old.range
  BY NftFields
<1>3. PICK f : f = LiquidityAt
  OBVIOUS
<1>4. \A r \in Ranges : f[r] \in Int
  <2> SUFFICES ASSUME NEW r \in Ranges PROVE f[r] \in Int
    OBVIOUS
  <2>1. \A k \in NftIds : NftWeight(nfts, r)[k] \in Int
    <3>1. \A k \in NftIds : nfts[k] \in Nfts \cup {None}
      BY DEF NftInv
    <3>2. \A m \in Nfts \cup {None} : WeightOf(m, r) \in Int
      BY WeightNat
    <3> QED BY <3>1, <3>2 DEF NftWeight
  <2>2. SumFunctionOnSet(NftWeight(nfts, r), NftIds) \in Int
    BY <2>1, NftIdsFinite, SumInt
  <2> QED BY <1>3, <2>2 DEF NftInv
<1>5. Moved(range, 0)
  <2>1. \A r \in Ranges : f[r] = f[r] + IF r = range THEN 0 ELSE 0
    BY <1>4
  <2> QED BY <1>3, <2>1, Zenon DEF Moved
<1>6. WeightMoved(n, nfts[id], range, 0)
  <2>1. \A r \in Ranges : WeightOf(nfts[id], r) \in Int
    BY <1>1, WeightNat
  <2> QED BY <2>1 DEF WeightMoved
<1>7. 0 \in Int
  OBVIOUS
<1>8. NftsFollow(id)
  BY <1>5, <1>6, <1>7, NftMoved, Zenon
<1>9. \A k \in NftIds : k >= nextIndex' => nfts'[k] = None
  BY <1>8 DEF NftInv, NftsFollow
<1> QED BY <1>8, <1>9 DEF NftInv, NftsFollow

LEMMA OwedToTyped ==
    ASSUME NEW nft \in Nfts, NEW inside \in [Tokens -> Int], NEW delta
    PROVE  OwedTo(nft, inside, delta) \in [Tokens -> Int]
BY NftFields, OwedTyped DEF OwedTo, OwedWith

LEMMA CreatedTick ==
    ASSUME PoolInv, Idle
    PROVE  PoolTyped /\ slot0.sqrtPrice \in Nat
BY DEF PoolInv, PoolTyped

\* What a mint and a burn leave, for the manager
LEMMA InsideOf ==
    ASSUME PoolTyped, NEW range \in Ranges, NEW delta \in Int,
           \A t \in {range[1], range[2]} : ticks[t].liquidityGross + delta \in Nat
    PROVE  PositionAfter(range, delta).insideLast \in [Tokens -> Int]
<1>1. PICK infos \in [Ticks -> TickInfos] : infos = TicksAfter(range, delta)
  BY AfterTyped DEF PoolTyped
<1>2. PICK inside \in [Tokens -> Int] : inside = FeeGrowthInside(infos, range)
  BY InsideTyped DEF PoolTyped
<1>3. PositionAfter(range, delta).insideLast = inside
  BY <1>1, <1>2 DEF PositionAfter, UpdatedPosition
<1> QED BY <1>3

LEMMA GrossAfter ==
    ASSUME PoolTyped, NEW range \in Ranges, NEW amount \in Nat
    PROVE  /\ \A t \in {range[1], range[2]} : ticks[t].liquidityGross + amount \in Nat
           /\ (\A t \in {range[1], range[2]} : ticks[t].liquidityGross >= amount) =>
                \A t \in {range[1], range[2]} : ticks[t].liquidityGross + (-amount) \in Nat
<1>1. \A t \in Ticks : ticks[t].liquidityGross \in Nat
  BY TickFields DEF PoolTyped
<1> QED BY <1>1, RangesFinite

LEMMA MintNftKeeps ==
    ASSUME KeysDiffer, PoolInv, NftInv, NEW user \in Users, NEW range \in Ranges,
           NEW desired \in [Tokens -> Nat], MintNft(user, range, desired)
    PROVE  PoolInv' /\ NftInv'
<1>1. Idle /\ PoolTyped /\ slot0.sqrtPrice \in Nat
  BY CreatedTick DEF MintNft, Command
<1>2. PICK amount \in Nat : amount = Liquidity(range, desired)
  BY <1>1, LiquidityTyped
<1>3. /\ nextIndex \in NftIds /\ Mint(range, amount) /\ nextIndex' = nextIndex + 1
      /\ nfts' = [nfts EXCEPT ![nextIndex] =
              [owner |-> user, range |-> range, liquidity |-> amount,
               insideLast |-> PositionAfter(range, amount).insideLast, tokensOwed |-> Zero]]
  BY <1>2 DEF MintNft
<1>4. PoolInv' /\ Moved(range, amount)
  BY <1>1, <1>3, MintKeeps
<1>5. PICK inside \in [Tokens -> Int] : inside = PositionAfter(range, amount).insideLast
  BY <1>1, GrossAfter, InsideOf
<1>6. PICK n : n = [owner |-> user, range |-> range, liquidity |-> amount,
                    insideLast |-> inside, tokensOwed |-> Zero]
  OBVIOUS
<1>7. n \in Nfts /\ n.range = range /\ n.liquidity = amount
  <2>1. Zero \in [Tokens -> Int]
    BY DEF Zero
  <2> QED BY <1>6, <2>1 DEF Nfts
<1>8. nfts' = [nfts EXCEPT ![nextIndex] = n]
  BY <1>3, <1>5, <1>6
<1>9. nfts[nextIndex] = None /\ nextIndex \in Nat
  BY <1>3 DEF NftInv
<1>10. WeightMoved(n, nfts[nextIndex], range, amount)
  <2>1. \A r \in Ranges : WeightOf(n, r) = IF r = range THEN amount ELSE 0
    BY <1>7, NftFields DEF WeightOf
  <2>2. \A r \in Ranges : WeightOf(nfts[nextIndex], r) = 0
    BY <1>9, WeightNat
  <2> QED BY <2>1, <2>2 DEF WeightMoved
<1>11. PICK id \in NftIds : id = nextIndex
  BY <1>3
<1>12. NftsFollow(id)
  <2>1. nfts' = [nfts EXCEPT ![id] = n] /\ WeightMoved(n, nfts[id], range, amount)
    BY <1>8, <1>10, <1>11
  <2>2. amount \in Int /\ n \in Nfts \cup {None}
    BY <1>7
  <2> QED BY <1>4, <2>1, <2>2, NftMoved, Zenon
<1>13. \A k \in NftIds : k >= nextIndex' => nfts'[k] = None
  BY <1>3, <1>9, <1>11, <1>12 DEF NftInv, NftIds, NftsFollow
<1>14. nextIndex' \in Nat \ {0}
  BY <1>3, <1>9
<1> QED BY <1>4, <1>12, <1>13, <1>14 DEF NftInv, NftsFollow

LEMMA IncreaseKeeps ==
    ASSUME KeysDiffer, PoolInv, NftInv, NEW id \in NftIds,
           NEW desired \in [Tokens -> Nat], IncreaseLiquidity(id, desired)
    PROVE  PoolInv' /\ NftInv'
<1>1. Idle /\ PoolTyped /\ slot0.sqrtPrice \in Nat
  BY CreatedTick DEF IncreaseLiquidity, Command
<1>2. PICK nft \in Nfts : nft = nfts[id]
  BY DEF NftInv, IncreaseLiquidity
<1>3. PICK owner \in Users, range \in Ranges, l \in Nat, last \in [Tokens -> Int], before \in [Tokens -> Int] :
          /\ range = nft.range /\ l = nft.liquidity
          /\ nft = [owner |-> owner, range |-> range, liquidity |-> l, insideLast |-> last, tokensOwed |-> before]
  BY DEF Nfts
<1>4. PICK amount \in Nat : amount = Liquidity(range, desired)
  BY <1>1, LiquidityTyped
<1>5. PICK inside \in [Tokens -> Int] : inside = PositionAfter(range, amount).insideLast
  BY <1>1, GrossAfter, InsideOf
<1>6. PICK owed \in [Tokens -> Int] : owed = OwedTo(nft, inside, amount)
  BY OwedToTyped
<1>7. /\ Mint(range, amount) /\ UNCHANGED nextIndex
      /\ nfts' = [nfts EXCEPT ![id] = [nft EXCEPT !.tokensOwed = owed, !.insideLast = inside,
                                                  !.liquidity = @ + amount]]
  BY <1>2, <1>3, <1>4, <1>5, <1>6 DEF IncreaseLiquidity
<1>8. PICK n : n = [nft EXCEPT !.tokensOwed = owed, !.insideLast = inside, !.liquidity = l + amount]
  OBVIOUS
<1>9. n \in Nfts /\ n.range = range /\ n.liquidity = l + amount
  <2>1. l + amount \in Nat
    OBVIOUS
  <2> QED BY <1>3, <1>8, <2>1, NftChanged
<1>10. nfts' = [nfts EXCEPT ![id] = n]
  BY <1>3, <1>7, <1>8
<1>11. WeightMoved(n, nfts[id], range, amount)
  BY <1>2, <1>3, <1>9, NftFields DEF WeightOf, WeightMoved
<1>12. PoolInv' /\ Moved(range, amount)
  BY <1>1, <1>7, MintKeeps
<1>13. NftsFollow(id)
  <2>1. amount \in Int /\ n \in Nfts \cup {None}
    BY <1>9
  <2> QED BY <1>10, <1>11, <1>12, <2>1, NftMoved, Zenon
<1>14. \A k \in NftIds : k >= nextIndex' => nfts'[k] = None
  <2>1. ~(id >= nextIndex)
    BY <1>2, NftFields DEF NftInv
  <2> QED BY <1>7, <1>13, <2>1 DEF NftInv, NftsFollow
<1> QED BY <1>7, <1>12, <1>13, <1>14 DEF NftInv, NftsFollow

LEMMA DecreaseKeeps ==
    ASSUME KeysDiffer, PoolInv, NftInv, NEW user \in Users, NEW id \in NftIds, NEW amount \in Nat,
           DecreaseLiquidity(user, id, amount)
    PROVE  PoolInv' /\ NftInv'
<1>1. Idle /\ PoolTyped /\ slot0.sqrtPrice \in Nat /\ At(slot0.sqrtPrice, slot0.tick)
  BY CreatedTick DEF DecreaseLiquidity, Command, PoolInv, InRange, Idle
<1>2. PICK nft \in Nfts : nft = nfts[id]
  BY DEF NftInv, DecreaseLiquidity
<1>3. PICK owner \in Users, range \in Ranges, l \in Nat, last \in [Tokens -> Int], before \in [Tokens -> Int] :
          /\ range = nft.range /\ l = nft.liquidity
          /\ nft = [owner |-> owner, range |-> range, liquidity |-> l, insideLast |-> last, tokensOwed |-> before]
  BY DEF Nfts
<1>4. Burn(range, amount) /\ UNCHANGED nextIndex /\ amount > 0 /\ amount <= l
  BY <1>2, <1>3 DEF DecreaseLiquidity
<1>5. PICK inside \in [Tokens -> Int] : inside = PositionAfter(range, -amount).insideLast
  <2>1. \A t \in {range[1], range[2]} : ticks[t].liquidityGross + (-amount) \in Nat
    BY <1>1, <1>4, GrossAfter DEF Burn
  <2>2. -amount \in Int
    OBVIOUS
  <2> QED BY <1>1, <2>1, <2>2, InsideOf
<1>6. PICK owed \in [Tokens -> Int] : owed = OwedTo(nft, inside, -amount)
  BY OwedToTyped
<1>7. PICK burnt \in [Tokens -> Int] : burnt = BurntAmounts(range, amount)
  BY <1>1, AmountsTyped DEF BurntAmounts
<1>8. PICK after \in [Tokens -> Int] : after = [i \in Tokens |-> Wrap128(owed[i] + burnt[i])]
  <2>1. ASSUME NEW i \in Tokens PROVE Wrap128(owed[i] + burnt[i]) \in Int
    <3>1. owed[i] + burnt[i] \in Int
      OBVIOUS
    <3> QED BY <3>1, WrapNat
  <2> QED BY <2>1
<1>9. PICK n : n = [nft EXCEPT !.tokensOwed = after, !.insideLast = inside, !.liquidity = l - amount]
  OBVIOUS
<1>10. n \in Nfts /\ n.range = range /\ n.liquidity = l - amount
  <2>1. l - amount \in Nat
    BY <1>4
  <2> QED BY <1>3, <1>9, <2>1, NftChanged
<1>11. nfts' = [nfts EXCEPT ![id] = n]
  BY <1>2, <1>3, <1>5, <1>6, <1>7, <1>8, <1>9 DEF DecreaseLiquidity, LiquidityLeft
<1>12. WeightMoved(n, nfts[id], range, -amount)
  BY <1>2, <1>3, <1>10, NftFields DEF WeightOf, WeightMoved
<1>13. PoolInv' /\ Moved(range, -amount)
  BY <1>1, <1>4, BurnKeeps
<1>14. NftsFollow(id)
  <2>1. -amount \in Int /\ n \in Nfts \cup {None}
    BY <1>10
  <2> QED BY <1>11, <1>12, <1>13, <2>1, NftMoved, Zenon
<1>15. \A k \in NftIds : k >= nextIndex' => nfts'[k] = None
  <2>1. ~(id >= nextIndex)
    BY <1>2, NftFields DEF NftInv
  <2> QED BY <1>4, <1>14, <2>1 DEF NftInv, NftsFollow
<1> QED BY <1>4, <1>13, <1>14, <1>15 DEF NftInv, NftsFollow

LEMMA CollectNftKeeps ==
    ASSUME PoolInv, NftInv, NEW user \in Users, NEW id \in NftIds, NEW requested \in [Tokens -> Nat],
           CollectNft(user, id, requested)
    PROVE  PoolInv' /\ NftInv'
<1>1. Idle /\ PoolTyped
  BY CreatedTick DEF CollectNft, Command
<1>2. PICK nft \in Nfts : nft = nfts[id]
  BY DEF NftInv, CollectNft
<1>3. PICK owner \in Users, range \in Ranges, l \in Nat, last \in [Tokens -> Int], before \in [Tokens -> Int] :
          /\ range = nft.range /\ l = nft.liquidity /\ last = nft.insideLast /\ before = nft.tokensOwed
          /\ nft = [owner |-> owner, range |-> range, liquidity |-> l, insideLast |-> last, tokensOwed |-> before]
  BY DEF Nfts
<1>4. PICK old \in PositionInfos : old = positions[PositionKey(range)] /\ old.liquidity \in Nat
  BY <1>1, PositionFields DEF PoolTyped, Keys
<1>5. PICK poked \in PositionInfos : poked = PositionAfter(range, 0) /\ poked.liquidity = old.liquidity
  <2>1. \A t \in {range[1], range[2]} : ticks[t].liquidityGross + 0 \in Nat
    BY <1>1, GrossAfter
  <2>2. old.liquidity + 0 \in Nat /\ 0 \in Int /\ old.liquidity + 0 = old.liquidity
    BY <1>4
  <2> QED BY <1>1, <1>4, <2>1, <2>2, PositionTyped
<1>6. PICK inside \in [Tokens -> Int] : inside = poked.insideLast
  BY PositionFields
<1>7. PICK position \in PositionInfos :
          /\ position = IF l > 0 THEN poked ELSE old
          /\ position.liquidity = positions[PositionKey(range)].liquidity
  <2>1. CASE l > 0
    BY <1>4, <1>5, <2>1
  <2>2. CASE ~(l > 0)
    BY <1>4, <2>2
  <2> QED BY <2>1, <2>2
<1>8. PICK owed \in [Tokens -> Int] : owed = IF l > 0 THEN OwedTo(nft, inside, 0) ELSE before
  <2>1. OwedTo(nft, inside, 0) \in [Tokens -> Int]
    BY OwedToTyped
  <2> QED BY <2>1
<1>9. PICK asked \in [Tokens -> Int] : asked = [i \in Tokens |-> Min({requested[i], owed[i]})]
  <2>1. ASSUME NEW i \in Tokens PROVE Min({requested[i], owed[i]}) \in Int
    <3>1. requested[i] \in Int /\ owed[i] \in Int
      OBVIOUS
    <3> QED BY <3>1, LeastOfTwo
  <2> QED BY <2>1
<1>10. /\ Collect(range, position, asked) /\ UNCHANGED nextIndex
       /\ nfts' = [nfts EXCEPT ![id] = [nft EXCEPT
              !.tokensOwed = [i \in Tokens |-> owed[i] - asked[i]],
              !.insideLast = IF l > 0 THEN inside ELSE @]]
  BY <1>2, <1>3, <1>4, <1>5, <1>6, <1>7, <1>8, <1>9, Zenon DEF CollectNft
<1>11. PICK left \in [Tokens -> Int] : left = [i \in Tokens |-> owed[i] - asked[i]]
  <2>1. \A i \in Tokens : owed[i] - asked[i] \in Int
    OBVIOUS
  <2> QED BY <2>1
<1>12. PICK touch \in [Tokens -> Int] : touch = IF l > 0 THEN inside ELSE last
  OBVIOUS
<1>13. PICK n : n = [nft EXCEPT !.tokensOwed = left, !.insideLast = touch]
  OBVIOUS
<1>14. n \in Nfts /\ n.range = range /\ n.liquidity = l
  BY <1>3, <1>13 DEF Nfts
<1>15. nfts' = [nfts EXCEPT ![id] = n]
  <2>1. nfts' = [nfts EXCEPT ![id] = [nft EXCEPT !.tokensOwed = left,
                                                 !.insideLast = IF l > 0 THEN inside ELSE last]]
    BY <1>3, <1>10, <1>11, Zenon
  <2> QED BY <1>12, <1>13, <2>1, Zenon
<1>16. \A r \in Ranges : WeightOf(n, r) = WeightOf(nfts[id], r)
  BY <1>2, <1>3, <1>14, NftFields DEF WeightOf
<1>17. PoolInv' /\ LiquidityAt' = LiquidityAt
  BY <1>7, <1>10, CollectKeeps
<1>18. nfts[id] # None
  BY <1>2, NftFields
<1> QED BY <1>10, <1>14, <1>15, <1>16, <1>17, <1>18, NftTouched

LEMMA BurnNftKeeps ==
    ASSUME PoolInv, NftInv, NEW user \in Users, NEW id \in NftIds, BurnNft(user, id)
    PROVE  PoolInv' /\ NftInv'
<1>1. PICK nft \in Nfts : nft = nfts[id] /\ nft.liquidity = 0
  BY DEF NftInv, BurnNft
<1>2. UNCHANGED poolVars /\ UNCHANGED nextIndex /\ nfts' = [nfts EXCEPT ![id] = None]
  BY DEF BurnNft
<1>3. LiquidityAt' = LiquidityAt
  BY <1>2 DEF poolVars, LiquidityAt, Position
<1>4. PoolInv'
  <2>1. feeGrowth' \in [Tokens -> Int] /\ positions' \in [Keys -> PositionInfos]
    BY <1>2 DEF PoolInv, PoolTyped, poolVars
  <2> QED BY <1>2, <2>1, LiquidityUnchanged DEF poolVars
<1>5. \A r \in Ranges : WeightOf(None, r) = WeightOf(nfts[id], r)
  BY <1>1 DEF WeightOf
<1>6. nfts[id] # None
  BY <1>1, NftFields
<1> QED BY <1>2, <1>3, <1>4, <1>5, <1>6, NftTouched

-----------------------------------------------------------------------------
(* Every action keeps the invariant *)

LEMMA InvInit ==
    ASSUME Init
    PROVE  PoolInv /\ NftInv
<1>1. PoolInv
  BY PoolInvAtInit DEF Init
<1>2. /\ nfts \in [NftIds -> Nfts \cup {None}] /\ nextIndex \in Nat \ {0}
      /\ \A id \in NftIds : nfts[id] = None
  BY DEF Init
<1>3. ASSUME NEW r \in Ranges
      PROVE  LiquidityAt[r] = SumFunctionOnSet(NftWeight(nfts, r), NftIds)
  <2>1. \A id \in NftIds : NftWeight(nfts, r)[id] = 0
    BY <1>2, WeightNat DEF NftWeight
  <2>2. SumFunctionOnSet(NftWeight(nfts, r), NftIds) = 0
    BY <2>1, NftIdsFinite, SumZero
  <2>3. LiquidityAt[r] = 0
    BY <1>1 DEF PoolInv, NotCreated, Init, PoolInit, IsCreated
  <2> QED BY <2>2, <2>3
<1> QED BY <1>1, <1>2, <1>3 DEF NftInv

LEMMA NftsUnchanged ==
    ASSUME NftInv, UNCHANGED <<positions, nfts, nextIndex>>
    PROVE  NftInv'
<1>1. LiquidityAt' = LiquidityAt
  BY DEF LiquidityAt, Position
<1> QED BY <1>1 DEF NftInv

LEMMA InvNext ==
    ASSUME KeysDiffer, PoolInv, NftInv, [Next]_vars
    PROVE  PoolInv' /\ NftInv'
<1>1. CASE Create
  BY <1>1, CreateKeeps, NftsUnchanged DEF Create, CreatePool
<1>2. CASE Add
  <2>1. PICK range \in Ranges, desired \in Desired, user \in Users : MintNft(user, range, desired)
    BY <1>2 DEF Add
  <2>2. desired \in [Tokens -> Nat]
    BY PositionManagerAssumption
  <2> QED BY <2>1, <2>2, MintNftKeeps
<1>3. CASE Increase
  <2>1. PICK id \in NftIds, desired \in Desired : IncreaseLiquidity(id, desired)
    BY <1>3 DEF Increase
  <2>2. desired \in [Tokens -> Nat]
    BY PositionManagerAssumption
  <2> QED BY <2>1, <2>2, IncreaseKeeps
<1>4. CASE Decrease
  <2>1. PICK id \in NftIds, user \in Users :
            /\ nfts[id] # None
            /\ \E n \in {nfts[id].liquidity, nfts[id].liquidity \div 2} : DecreaseLiquidity(user, id, n)
    BY <1>4 DEF Decrease
  <2>2. nfts[id].liquidity \in Nat
    BY <2>1, NftFields DEF NftInv
  <2>3. PICK l \in Nat : l = nfts[id].liquidity
    BY <2>2
  <2>4. l \div 2 \in Nat
    OBVIOUS
  <2>5. PICK n \in Nat : DecreaseLiquidity(user, id, n)
    BY <2>1, <2>3, <2>4
  <2> QED BY <2>5, DecreaseKeeps
<1>5. CASE CollectFees
  <2>1. PICK id \in NftIds, user \in Users, n \in Requests : CollectNft(user, id, n)
    BY <1>5 DEF CollectFees
  <2>2. n \in [Tokens -> Nat]
    BY PositionManagerAssumption
  <2> QED BY <2>1, <2>2, CollectNftKeeps
<1>6. CASE BurnEmpty
  BY <1>6, BurnNftKeeps DEF BurnEmpty
<1>7. CASE Swap
  <2>1. PICK z \in BOOLEAN, amount \in Specified, limit \in Nat \cup {None}, byTransfer \in BOOLEAN :
            SwapStart(z, amount, limit, byTransfer)
    <3>1. PICK z \in BOOLEAN, amount \in Specified :
              \/ \E limit \in Limits : SwapStart(z, amount, limit, FALSE)
              \/ SwapStart(z, amount, None, TRUE)
      BY <1>7, Zenon DEF Swap
    <3>2. Limits \subseteq Nat \cup {None} /\ None \in Nat \cup {None} /\ TRUE \in BOOLEAN /\ FALSE \in BOOLEAN
      BY PositionManagerAssumption
    <3> QED BY <3>1, <3>2, Zenon
  <2>2. amount \in Int
    BY PositionManagerAssumption
  <2>3. PoolInv'
    BY <2>1, <2>2, SwapStartKeeps
  <2>4. UNCHANGED <<positions, nfts, nextIndex>>
    BY <1>7, <2>1 DEF Swap, SwapStart
  <2> QED BY <2>3, <2>4, NftsUnchanged
<1>8. CASE Loop
  BY <1>8, SwapStepKeeps, NftsUnchanged DEF Loop, SwapStep, Iterate
<1>9. CASE Settle
  BY <1>9, SwapEndKeeps, NftsUnchanged DEF Settle, SwapEnd
<1>10. CASE Revert
  BY <1>10, SwapRevertKeeps, NftsUnchanged DEF Revert, SwapRevert
<1>11. CASE FlashLoan
  <2>1. PICK loan \in Loans : Flash(loan.lent, loan.paid)
    BY <1>11 DEF FlashLoan
  <2>2. loan.paid \in [Tokens -> Nat]
    BY PositionManagerAssumption
  <2>3. PoolInv'
    BY <2>1, <2>2, FlashKeeps
  <2>4. UNCHANGED <<positions, nfts, nextIndex>>
    BY <1>11, <2>1 DEF FlashLoan, Flash
  <2> QED BY <2>3, <2>4, NftsUnchanged
<1>12. CASE Horizon \/ UNCHANGED vars
  <2>1. UNCHANGED <<poolVars, nfts, nextIndex>>
    BY <1>12 DEF Horizon, vars
  <2>2. feeGrowth' \in [Tokens -> Int] /\ positions' \in [Keys -> PositionInfos]
    BY <2>1 DEF PoolInv, PoolTyped, poolVars
  <2>3. PoolInv'
    BY <2>1, <2>2, LiquidityUnchanged DEF poolVars
  <2>4. UNCHANGED <<positions, nfts, nextIndex>>
    BY <2>1 DEF poolVars
  <2> QED BY <2>3, <2>4, NftsUnchanged
<1> QED BY <1>1, <1>2, <1>3, <1>4, <1>5, <1>6, <1>7, <1>8, <1>9, <1>10, <1>11, <1>12 DEF Next

LEMMA PoolInvariant ==
    ASSUME KeysDiffer
    PROVE  Spec => [](PoolInv /\ NftInv)
<1>1. Init => PoolInv /\ NftInv
  BY InvInit
<1>2. PoolInv /\ NftInv /\ [Next]_vars => (PoolInv /\ NftInv)'
  BY InvNext
<1> QED BY <1>1, <1>2, PTL DEF Spec

LEMMA TicksHold ==
    ASSUME PoolInv
    PROVE  TicksOfPositions
<1> SUFFICES ASSUME NEW t \in Ticks
             PROVE  /\ ticks[t].liquidityGross =
                          SumFunctionOnSet(LiquidityAt, StartingAt(t)) + SumFunctionOnSet(LiquidityAt, EndingAt(t))
                    /\ ticks[t].liquidityNet =
                          SumFunctionOnSet(LiquidityAt, StartingAt(t)) - SumFunctionOnSet(LiquidityAt, EndingAt(t))
                    /\ t % TickSpacing = 0 =>
                          IsSet(bitmap, Compressed(t)) = (ticks[t].liquidityGross > 0)
  BY Zenon DEF TicksOfPositions, StartingAt, EndingAt
<1>1. TickSums /\ BitsOfTicks
  BY DEF PoolInv
<1>2. ASSUME t % TickSpacing = 0
      PROVE  IsSet(bitmap, Compressed(t)) <=> ticks[t].liquidityGross > 0
  <2>1. PICK s \in Nat \ {0} : s = TickSpacing
    BY TickBitmapAssumption
  <2>2. t \in Int /\ t \in MinTick .. MaxTick /\ MinTick \in Int /\ MaxTick \in Int
    BY TickInt, PoolMathAssumption DEF Ticks
  <2>3. PICK n \in Int : n = t \div s /\ n = Compressed(t)
    BY <2>1, <2>2, CompressedFloor, CompressedBounds
  <2>4. t = n * TickSpacing
    <3>1. t % s = t - s * (t \div s)
      BY <2>2, ModIs
    <3> QED BY <1>2, <2>1, <2>2, <2>3, <3>1
  <2>5. WordPos(n) \in Words
    <3>1. n \in Compressed(MinTick) .. Compressed(MaxTick)
      BY <2>2, <2>3, InWords
    <3>2. Compressed(MinTick) \in Int /\ Compressed(MaxTick) \in Int
      BY <2>2, CompressedBounds
    <3>3. n \in Compressed(MinTick) .. Compressed(MaxTick) + 1
      BY <3>1, <3>2
    <3> QED BY <3>3, InWords
  <2> QED BY <1>1, <2>3, <2>4, <2>5 DEF BitsOfTicks
<1>3. t % TickSpacing = 0 => IsSet(bitmap, Compressed(t)) = (ticks[t].liquidityGross > 0)
  <2>1. IsSet(bitmap, Compressed(t)) \in BOOLEAN
    BY DEF IsSet, HasBit
  <2>2. PICK set \in BOOLEAN : set = IsSet(bitmap, Compressed(t))
    BY <2>1, Zenon
  <2>3. t % TickSpacing = 0 => (set <=> ticks[t].liquidityGross > 0)
    BY <1>2, <2>2
  <2>4. t % TickSpacing = 0 => set = (ticks[t].liquidityGross > 0)
    BY <2>3
  <2> QED BY <2>2, <2>4, Zenon
<1> QED BY <1>1, <1>3 DEF TickSums

LEMMA NftsHold ==
    ASSUME PoolInv, NftInv
    PROVE  NftsShareThePosition
<1> SUFFICES ASSUME NEW r \in Ranges
             PROVE  LiquidityAt[r] = SumFunctionOnSet(LiquidityOfNft, {id \in Held : nfts[id].range = r})
  BY DEF NftsShareThePosition, LiquidityAt
<1>1. PICK R \in SUBSET NftIds : R = {id \in Held : nfts[id].range = r}
  BY DEF Held
<1>2. PICK w : w = NftWeight(nfts, r)
  OBVIOUS
<1>3. \A id \in NftIds : w[id] \in Int /\ w[id] = WeightOf(nfts[id], r)
  <2>1. \A id \in NftIds : nfts[id] \in Nfts \cup {None}
    BY DEF NftInv
  <2>2. \A m \in Nfts \cup {None} : WeightOf(m, r) \in Int
    BY WeightNat
  <2> QED BY <1>2, <2>1, <2>2 DEF NftWeight
<1>4. \A id \in NftIds \ R : w[id] = 0
  BY <1>1, <1>3 DEF WeightOf, Held
<1>5. SumFunctionOnSet(w, NftIds) = SumFunctionOnSet(w, R)
  BY <1>3, <1>4, NftIdsFinite, SumDrop
<1>6. \A id \in R : w[id] = LiquidityOfNft[id]
  BY <1>1, <1>3 DEF WeightOf, Held, LiquidityOfNft
<1>7. IsFiniteSet(R)
  BY NftIdsFinite, FS_Subset
<1>8. SumFunctionOnSet(w, R) = SumFunctionOnSet(LiquidityOfNft, R)
  BY <1>6, <1>7, SumCongruence
<1> QED BY <1>1, <1>2, <1>5, <1>8 DEF NftInv

LEMMA RangeHolds ==
    ASSUME PoolInv
    PROVE  LiquidityOfPositionsInRange
<1> SUFFICES ASSUME IsCreated
             PROVE  CurrentLiquidity = SumFunctionOnSet(LiquidityAt, Around(CurrentTick))
  BY DEF LiquidityOfPositionsInRange, Around
<1>1. CASE swap = None
  BY <1>1 DEF PoolInv, InRange, CurrentLiquidity, CurrentTick
<1>2. CASE swap # None
  BY <1>2 DEF PoolInv, SwapInv, CurrentLiquidity, CurrentTick
<1> QED BY <1>1, <1>2

\* The types of the pool, with the price in its tick at all times
THEOREM PoolTypes == KeysDiffer => (Spec => []PoolTyped)
<1> SUFFICES ASSUME KeysDiffer PROVE Spec => []PoolTyped
  OBVIOUS
<1>1. PoolInv => PoolTyped
  BY DEF PoolInv
<1> QED BY <1>1, PoolInvariant, PTL

\* Tick.update and flipTick, in whatever order positions are minted, burnt and swapped
\* across: every tick has the liquidity of the positions that start and end there, and
\* its bit is set exactly as long as there are any.
THEOREM TicksMatchPositions == KeysDiffer => (Spec => []TicksOfPositions)
<1> SUFFICES ASSUME KeysDiffer PROVE Spec => []TicksOfPositions
  OBVIOUS
<1>1. PoolInv => TicksOfPositions
  BY TicksHold
<1> QED BY <1>1, PoolInvariant, PTL

\* DEXPool.swap, at every iteration, in both directions and over all words of the bitmap:
\* the liquidity it works with is that of the positions around the tick it is in. No tick
\* with liquidity is passed over and none is crossed twice.
THEOREM LiquidityInRange == KeysDiffer => (Spec => []LiquidityOfPositionsInRange)
<1> SUFFICES ASSUME KeysDiffer PROVE Spec => []LiquidityOfPositionsInRange
  OBVIOUS
<1>1. PoolInv => LiquidityOfPositionsInRange
  BY RangeHolds
<1> QED BY <1>1, PoolInvariant, PTL

\* The position manager: the NFTs of a range have between them exactly the liquidity of
\* the position that the pool keeps for the range.
THEOREM NftsShare == KeysDiffer => (Spec => []NftsShareThePosition)
<1> SUFFICES ASSUME KeysDiffer PROVE Spec => []NftsShareThePosition
  OBVIOUS
<1>1. PoolInv /\ NftInv => NftsShareThePosition
  BY NftsHold
<1> QED BY <1>1, PoolInvariant, PTL
===============================================================================
