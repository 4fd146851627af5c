----------------------------- MODULE QuoterProofs -----------------------------
(***************************************************************************)
(* What the quotes of an ICO pool compute, for every amount and price: how *)
(* far the rounding may be off, and that a quote grows with its amount.    *)
(***************************************************************************)
EXTENDS IcoQuoter, TLAPS

\* An amount is read as a number that is close to it.
LEMMA ReadIs ==
    ASSUME NEW n \in Nat, NEW k, k = Read(n)
    PROVE  /\ k \in Nat /\ (n <= Exact => k = n)
           /\ Exact * (k - n) <= 2 * n /\ Exact * (n - k) <= 2 * n
<1>1. CASE n <= MaxAmount
  <2>1. n \in 0 .. MaxAmount
    BY <1>1, IcoQuoterAssumption
  <2>2. AsNumber[n] \in Nat /\ k = AsNumber[n]
    BY <1>1, <2>1, IcoQuoterAssumption DEF Read
  <2>3. /\ n <= Exact => AsNumber[n] = n
        /\ Exact * (AsNumber[n] - n) <= 2 * n /\ Exact * (n - AsNumber[n]) <= 2 * n
    BY <2>1, IcoQuoterAssumption DEF NumbersAreClose
  <2> QED BY <2>2, <2>3
<1>2. CASE ~(n <= MaxAmount)
  <2>1. k = n
    BY <1>2 DEF Read
  <2>2. Exact * (k - n) = 0 /\ Exact * (n - k) = 0
    BY <2>1, IcoQuoterAssumption
  <2> QED BY <2>1, <2>2
<1> QED BY <1>1, <1>2

\* A larger amount is not read as a smaller number.
LEMMA ReadGrows ==
    ASSUME NEW m \in Nat, NEW n \in Nat, m <= n, n <= MaxAmount
    PROVE  Read(m) <= Read(n)
<1>1. n \in 0 .. MaxAmount /\ m \in 0 .. n /\ m <= MaxAmount
  BY IcoQuoterAssumption
<1>2. AsNumber[m] <= AsNumber[n]
  BY <1>1, IcoQuoterAssumption DEF NumbersAreClose
<1> QED BY <1>1, <1>2 DEF Read

\* What the digits of a result are scaled by
LEMMA ScaleIs ==
    ASSUME NEW part \in Nat, NEW s, s = Scale(part)
    PROVE  s \in Nat /\ (s = 1 \/ s >= 10)
<1>1. CASE part <= MaxAmount
  <2>1. part \in 0 .. MaxAmount
    BY <1>1, IcoQuoterAssumption
  <2> QED BY <1>1, <2>1, IcoQuoterAssumption DEF Scale
<1>2. CASE ~(part <= MaxAmount)
  BY <1>2 DEF Scale
<1> QED BY <1>1, <1>2

\* A fraction rounded half up is off by half a unit at most.
LEMMA HalfUpIs ==
    ASSUME NEW num \in Nat, NEW den \in Nat \ {0}, NEW q, q = HalfUp(num, den)
    PROVE  /\ q \in Nat
           /\ 2 * (den * q) <= 2 * num + den /\ 2 * num < 2 * (den * q) + den
<1>1. PICK n, d \in Nat : n = 2 * num + den /\ d = 2 * den /\ d > 0
  OBVIOUS
<1>2. q = n \div d
  BY <1>1 DEF HalfUp
<1>3. q \in Nat /\ d * q <= n /\ n < d * q + d
  BY <1>1, <1>2
<1>4. d * q = 2 * (den * q)
  BY <1>1, <1>3
<1>5. PICK p \in Int : p = den * q
  BY <1>3
<1> QED BY <1>1, <1>3, <1>4, <1>5

\* The digits of decimal.js and the rounding together are off by eleven twentieths.
LEMMA RoundedIs ==
    ASSUME NEW num \in Nat, NEW den \in Nat \ {0}, NEW p, p = Rounded(num, den)
    PROVE  /\ p \in Nat
           /\ 20 * (den * p - num) <= 11 * den /\ 20 * (num - den * p) <= 11 * den
<1>1. num \div den \in Nat
  OBVIOUS
<1>2. PICK s : s = Scale(num \div den)
  OBVIOUS
<1>3. s \in Nat /\ (s = 1 \/ s >= 10)
  BY <1>1, <1>2, ScaleIs
<1>4. PICK k \in Nat : k = s * num
  BY <1>3
<1>5. PICK q : q = HalfUp(k, den)
  OBVIOUS
<1>6. q \in Nat /\ 2 * (den * q) <= 2 * k + den /\ 2 * k < 2 * (den * q) + den
  BY <1>5, HalfUpIs
<1>7. p = HalfUp(q, s)
  BY <1>2, <1>4, <1>5 DEF Rounded
<1>8. p \in Nat /\ 2 * (s * p) <= 2 * q + s /\ 2 * q < 2 * (s * p) + s
  <2>1. s \in Nat \ {0}
    BY <1>3
  <2> QED BY <1>6, <1>7, <2>1, HalfUpIs
<1>9. PICK x, y \in Int : x = den * p - num /\ y = den * q
  BY <1>6, <1>8
<1>10. CASE s = 1
  <2>1. k = num /\ s * p = p
    BY <1>4, <1>8, <1>10
  <2>2. p = q
    BY <1>6, <1>8, <1>10, <2>1
  <2> QED BY <1>6, <1>8, <1>9, <2>1, <2>2
<1>11. CASE s >= 10
  <2>1. PICK a, b \in Int : a = s * p /\ b = s * p - q
    BY <1>3, <1>6, <1>8
  <2>2. 2 * b <= s /\ -2 * b <= s
    BY <1>3, <1>6, <1>8, <2>1
  <2>3. PICK c, e \in Int : c = den * b /\ e = den * s
    BY <1>3, <2>1
  <2>4. 2 * c <= e /\ -2 * c <= e
    <3>1. den * (2 * b) <= den * s /\ den * (-2 * b) <= den * s
      <4>1. PICK u, v \in Int : u = 2 * b /\ v = -2 * b
        BY <2>1
      <4>2. den * u <= den * s /\ den * v <= den * s
        BY <1>3, <2>2, <4>1
      <4> QED BY <4>1, <4>2
    <3>2. den * (2 * b) = 2 * c /\ den * (-2 * b) = -2 * c
      BY <2>3
    <3> QED BY <2>3, <3>1, <3>2
  <2>5. PICK z \in Int : z = s * x
    BY <1>3, <1>9
  <2>6. z = c + y - k
    <3>1. s * (den * p) = den * (s * p)
      BY <1>3, <1>8
    <3>2. den * (s * p) = c + y
      BY <1>6, <1>9, <2>1, <2>3
    <3>3. s * (den * p - num) = s * (den * p) - s * num
      BY <1>3, <1>8
    <3> QED BY <1>4, <1>9, <2>5, <3>1, <3>2, <3>3
  <2>7. 2 * z <= e + den /\ -2 * z <= e + den
    BY <1>4, <1>6, <1>9, <2>3, <2>4, <2>6
  <2>8. e >= 10 * den
    BY <1>3, <1>11, <2>3
  <2>9. 20 * z <= 11 * e /\ -20 * z <= 11 * e
    BY <2>3, <2>5, <2>7, <2>8
  <2>10. 20 * x <= 11 * den /\ -20 * x <= 11 * den
    <3>1. PICK f, g, h \in Int : f = 20 * x /\ g = -20 * x /\ h = 11 * den
      BY <1>9
    <3>2. s * f = 20 * z /\ s * g = -20 * z /\ s * h = 11 * e
      BY <1>3, <1>9, <2>3, <2>5, <3>1
    <3>3. s * f <= s * h /\ s * g <= s * h
      BY <2>9, <3>2
    <3>4. f <= h
      BY <1>3, <1>11, <3>1, <3>3
    <3>5. g <= h
      BY <1>3, <1>11, <3>1, <3>3
    <3> QED BY <3>1, <3>4, <3>5
  <2> QED BY <1>8, <1>9, <2>10
<1> QED BY <1>3, <1>10, <1>11

\* Rounding keeps the order.
LEMMA HalfUpGrows ==
    ASSUME NEW m \in Nat, NEW n \in Nat, m <= n, NEW den \in Nat \ {0}
    PROVE  HalfUp(m, den) <= HalfUp(n, den)
<1>1. PICK a, b : a = HalfUp(m, den) /\ b = HalfUp(n, den)
  OBVIOUS
<1>2. a \in Nat /\ 2 * (den * a) <= 2 * m + den
  BY <1>1, HalfUpIs
<1>3. b \in Nat /\ 2 * n < 2 * (den * b) + den
  BY <1>1, HalfUpIs
<1>4. den * a < den * b + den
  <2>1. PICK x, y \in Int : x = den * a /\ y = den * b
    BY <1>2, <1>3
  <2> QED BY <1>2, <1>3, <2>1
<1>5. den * b + den = den * (b + 1)
  BY <1>3
<1>6. a < b + 1
  BY <1>2, <1>3, <1>4, <1>5
<1> QED BY <1>1, <1>2, <1>3, <1>6

\* A whole number of tokens is left as it is by every rounding.
LEMMA HalfUpWhole ==
    ASSUME NEW a \in Nat, NEW den \in Nat \ {0}
    PROVE  HalfUp(den * a, den) = a
<1>1. PICK k \in Nat : k = den * a
  OBVIOUS
<1>2. PICK q : q = HalfUp(k, den)
  OBVIOUS
<1>3. q \in Nat /\ 2 * (den * q) <= 2 * k + den /\ 2 * k < 2 * (den * q) + den
  BY <1>2, HalfUpIs
<1>4. PICK d \in Int, z \in Int : d = q - a /\ z = den * d
  BY <1>3
<1>5. den * q = k + z
  BY <1>1, <1>3, <1>4
<1>6. 2 * z <= den /\ -2 * z < den
  BY <1>3, <1>4, <1>5
<1>7. ~(d >= 1)
  <2> SUFFICES ASSUME d >= 1 PROVE FALSE
    OBVIOUS
  <2>1. z >= den
    BY <1>4
  <2> QED BY <1>6, <2>1
<1>8. ~(d <= -1)
  <2> SUFFICES ASSUME d <= -1 PROVE FALSE
    OBVIOUS
  <2>1. z <= -den
    BY <1>4
  <2> QED BY <1>6, <2>1
<1> QED BY <1>1, <1>2, <1>3, <1>4, <1>7, <1>8

\* Neither fewer digits of a larger result nor the rounding turn the order around.
LEMMA RoundedGrows ==
    ASSUME NEW m \in Nat, NEW n \in Nat, m <= n, NEW den \in Nat \ {0}
    PROVE  Rounded(m, den) <= Rounded(n, den)
<1>1. PICK a, b \in Nat : a = m \div den /\ b = n \div den
  OBVIOUS
<1>2. /\ den * a <= m /\ m < den * a + den
      /\ den * b <= n /\ n < den * b + den
  BY <1>1
<1>3. PICK s, t : s = Scale(a) /\ t = Scale(b)
  OBVIOUS
<1>4. s \in Nat \ {0} /\ t \in Nat \ {0}
  <2>1. s \in Nat /\ (s = 1 \/ s >= 10)
    BY <1>3, ScaleIs
  <2>2. t \in Nat /\ (t = 1 \/ t >= 10)
    BY <1>3, ScaleIs
  <2> QED BY <2>1, <2>2
<1>5. PICK f, g : f = HalfUp(s * m, den) /\ g = HalfUp(t * n, den)
  OBVIOUS
<1>6. s * m \in Nat /\ t * n \in Nat
  BY <1>4
<1>7. f \in Nat /\ g \in Nat
  BY <1>5, <1>6, HalfUpIs
<1>8. Rounded(m, den) = HalfUp(f, s) /\ Rounded(n, den) = HalfUp(g, t)
  BY <1>1, <1>3, <1>5 DEF Rounded
<1>9. CASE a = b
  <2>1. s = t /\ s * m <= t * n
    BY <1>3, <1>4, <1>9
  <2>2. f <= g
    BY <1>5, <1>6, <2>1, HalfUpGrows
  <2> QED BY <1>4, <1>7, <1>8, <2>1, <2>2, HalfUpGrows
<1>10. CASE a # b
  <2>1. a + 1 <= b
    <3>1. den * a < den * b + den
      BY <1>2
    <3>2. den * b + den = den * (b + 1)
      OBVIOUS
    <3>3. a < b + 1
      BY <3>1, <3>2
    <3> QED BY <1>10, <3>3
  <2>2. PICK up, low \in Nat : up = s * (a + 1) /\ low = t * b
    BY <1>4
  <2>3. HalfUp(f, s) <= a + 1
    <3>1. den * up = s * (den * a + den)
      BY <1>4, <2>2
    <3>2. s * m <= s * (den * a + den)
      BY <1>2, <1>4
    <3>3. s * m <= den * up /\ den * up \in Nat
      BY <3>1, <3>2
    <3>4. f <= HalfUp(den * up, den)
      BY <1>5, <1>6, <3>3, HalfUpGrows
    <3>5. f <= up
      BY <3>4, HalfUpWhole
    <3>6. HalfUp(f, s) <= HalfUp(s * (a + 1), s)
      BY <1>4, <1>7, <2>2, <3>5, HalfUpGrows
    <3>7. HalfUp(s * (a + 1), s) = a + 1
      BY <1>4, HalfUpWhole
    <3> QED BY <3>6, <3>7
  <2>4. b <= HalfUp(g, t)
    <3>1. den * low = t * (den * b)
      BY <1>4, <2>2
    <3>2. t * (den * b) <= t * n
      BY <1>2, <1>4
    <3>3. den * low <= t * n /\ den * low \in Nat
      BY <3>1, <3>2
    <3>4. HalfUp(den * low, den) <= g
      BY <1>5, <1>6, <3>3, HalfUpGrows
    <3>5. low <= g
      BY <3>4, HalfUpWhole
    <3>6. HalfUp(t * b, t) <= HalfUp(g, t)
      BY <1>4, <1>7, <2>2, <3>5, HalfUpGrows
    <3>7. HalfUp(t * b, t) = b
      BY <1>4, HalfUpWhole
    <3> QED BY <3>6, <3>7
  <2>5. HalfUp(f, s) \in Nat /\ HalfUp(g, t) \in Nat
    BY <1>4, <1>7, HalfUpIs
  <2> QED BY <1>8, <2>1, <2>3, <2>4, <2>5
<1> QED BY <1>9, <1>10

-------------------------------------------------------------------------------
(* Quotes and the price *)

Unit(price) == IF price.num > price.den THEN price.num ELSE price.den

\* WithinRounding, side by side
OffBy(unit, gap, quotes, inexact) == Exact * (20 * gap - 11 * quotes * unit) <= 40 * inexact

LEMMA WithinRoundingIs ==
    ASSUME NEW price, NEW gap \in Int, NEW quotes, NEW inexact
    PROVE  WithinRounding(price, gap, quotes, inexact) <=>
               /\ OffBy(Unit(price), gap, quotes, inexact)
               /\ OffBy(Unit(price), -gap, quotes, inexact)
BY DEF WithinRounding, OffBy, Unit

\* A quote is off by its rounding and by what its amount is read as.
LEMMA QuoteClose ==
    ASSUME NEW n \in Nat, NEW num \in Nat \ {0}, NEW den \in Nat, NEW unit \in Nat, num <= unit,
           NEW q, q = Rounded(Read(n) * den, num), NEW b, b = BeyondNumber(n, den),
           NEW gap \in Int, gap = num * q - n * den
    PROVE  q \in Nat /\ b \in Nat /\ OffBy(unit, gap, 1, b) /\ OffBy(unit, -gap, 1, b)
<1>1. PICK k : k = Read(n)
  OBVIOUS
<1>2. /\ k \in Nat /\ (n <= Exact => k = n)
      /\ Exact * (k - n) <= 2 * n /\ Exact * (n - k) <= 2 * n
  BY <1>1, ReadIs
<1>3. PICK kd, nd \in Nat : kd = k * den /\ nd = n * den
  BY <1>2
<1>4. q = Rounded(kd, num)
  BY <1>1, <1>3
<1>5. q \in Nat /\ 20 * (num * q - kd) <= 11 * num /\ 20 * (kd - num * q) <= 11 * num
  BY <1>3, <1>4, RoundedIs
<1>6. PICK p \in Int : p = num * q
  BY <1>5
<1>7. b \in Nat /\ Exact * (kd - nd) <= 2 * b /\ Exact * (nd - kd) <= 2 * b /\ Exact \in Nat
  <2>1. Exact \in Nat
    BY IcoQuoterAssumption
  <2>2. CASE n > Exact
    <3>1. b = nd
      BY <1>3, <2>2 DEF BeyondNumber
    <3>2. PICK d, e \in Int : d = Exact * (k - n) /\ e = Exact * (n - k)
      BY <1>2, <2>1
    <3>3. den * d <= den * (2 * n) /\ den * e <= den * (2 * n)
      BY <1>2, <3>2
    <3>4. den * d = Exact * (kd - nd)
      <4>1. den * (k - n) = kd - nd
        BY <1>2, <1>3
      <4>2. den * (Exact * (k - n)) = Exact * (den * (k - n))
        BY <1>2, <2>1
      <4> QED BY <3>2, <4>1, <4>2
    <3>5. den * e = Exact * (nd - kd)
      <4>1. den * (n - k) = nd - kd
        BY <1>2, <1>3
      <4>2. den * (Exact * (n - k)) = Exact * (den * (n - k))
        BY <1>2, <2>1
      <4> QED BY <3>2, <4>1, <4>2
    <3>6. den * (2 * n) = 2 * nd
      BY <1>3
    <3> QED BY <1>3, <2>1, <3>1, <3>3, <3>4, <3>5, <3>6
  <2>3. CASE ~(n > Exact)
    <3>1. b = 0 /\ k = n
      BY <1>2, <2>1, <2>3 DEF BeyondNumber
    <3>2. kd - nd = 0 /\ nd - kd = 0
      BY <1>3, <3>1
    <3> QED BY <2>1, <3>1, <3>2
  <2> QED BY <2>2, <2>3
<1>8. ASSUME NEW g \in Int, NEW r \in Int, NEW c \in Int, g = r + c,
             20 * r <= 11 * num, Exact * c <= 2 * b
      PROVE  OffBy(unit, g, 1, b)
  <2>1. 20 * g - 11 * 1 * unit <= 20 * c
    BY <1>8
  <2>2. PICK x \in Int : x = 20 * g - 11 * 1 * unit
    BY <1>8
  <2>3. Exact * x <= Exact * (20 * c)
    BY <1>7, <1>8, <2>1, <2>2
  <2>4. Exact * (20 * c) = 20 * (Exact * c)
    BY <1>7, <1>8
  <2>5. PICK ec \in Int : ec = Exact * c
    BY <1>7, <1>8
  <2>6. PICK ex \in Int : ex = Exact * x
    BY <1>7, <2>2
  <2>7. ex <= 40 * b
    BY <1>7, <1>8, <2>3, <2>4, <2>5, <2>6
  <2> QED BY <2>2, <2>6, <2>7 DEF OffBy
<1>9. OffBy(unit, gap, 1, b)
  <2>1. PICK r, c \in Int : r = p - kd /\ c = kd - nd
    BY <1>3, <1>6
  <2>2. gap = r + c /\ 20 * r <= 11 * num /\ Exact * c <= 2 * b
    BY <1>3, <1>5, <1>6, <1>7, <2>1
  <2> QED BY <1>8, <2>1, <2>2
<1>10. OffBy(unit, -gap, 1, b)
  <2>1. PICK g, r, c \in Int : g = -gap /\ r = kd - p /\ c = nd - kd
    BY <1>3, <1>6
  <2>2. g = r + c /\ 20 * r <= 11 * num /\ Exact * c <= 2 * b
    BY <1>3, <1>5, <1>6, <1>7, <2>1
  <2> QED BY <1>8, <2>1, <2>2
<1> QED BY <1>5, <1>7, <1>9, <1>10

\* What quotes are off by adds up.
LEMMA OffByAdds ==
    ASSUME NEW unit \in Int, NEW g \in Int, NEW t \in Int, NEW x \in Int, OffBy(unit, g, t, x),
           NEW e \in Int, NEW y \in Int, OffBy(unit, e, 1, y),
           NEW h, h = g + e, NEW z, z = x + y, NEW u, u = t + 1
    PROVE  OffBy(unit, h, u, z)
<1>1. Exact \in Int
  BY IcoQuoterAssumption
<1>a. PICK tu \in Int : tu = t * unit
  OBVIOUS
<1>b. PICK v \in Int : v = 20 * g - 11 * tu
  <2>1. 20 * g - 11 * tu \in Int
    OBVIOUS
  <2> QED BY ONLY <2>1
<1>c. PICK w \in Int : w = 20 * e - 11 * unit
  <2>1. 20 * e - 11 * unit \in Int
    OBVIOUS
  <2> QED BY ONLY <2>1
<1>2. v = 20 * g - 11 * tu /\ w = 20 * e - 11 * unit
  BY <1>b, <1>c
<1>3. 11 * t * unit = 11 * tu /\ 11 * 1 * unit = 11 * unit
  BY <1>a
<1>4. PICK ev, ew \in Int : ev = Exact * v /\ ew = Exact * w
  BY <1>1, <1>2
<1>5. ev <= 40 * x /\ ew <= 40 * y
  BY <1>2, <1>3, <1>4 DEF OffBy
<1>6. u * unit = tu + unit
  BY <1>a
<1>7. 11 * u * unit = 11 * (u * unit)
  OBVIOUS
<1>8. 20 * h - 11 * u * unit = v + w
  <2>1. PICK uu \in Int : uu = u * unit
    OBVIOUS
  <2> QED BY <1>a, <1>2, <1>6, <1>7, <2>1
<1>9. Exact * (v + w) = ev + ew
  BY <1>1, <1>2, <1>4
<1>10. Exact * (20 * h - 11 * u * unit) = ev + ew
  BY <1>8, <1>9
<1> QED BY <1>4, <1>5, <1>10 DEF OffBy

\* ICOQuoter: what the quotes give for an amount is what it is worth at the price, but for
\* the rounding of one quote and for what the amount is read as.
THEOREM QuoteIsNear ==
    ASSUME NEW price \in [num : Nat \ {0}, den : Nat \ {0}], NEW amount \in Nat
    PROVE  /\ WithinRounding(price,
                  price.num * QuoteExactInputSingle(price, amount) - amount * price.den,
                  1, BeyondNumber(amount, price.den))
           /\ WithinRounding(price,
                  price.den * QuoteExactOutputSingle(price, amount) - amount * price.num,
                  1, BeyondNumber(amount, price.num))
<1>1. PICK num, den \in Nat \ {0} : num = price.num /\ den = price.den
  OBVIOUS
<1>2. PICK unit \in Nat : unit = Unit(price) /\ num <= unit /\ den <= unit
  <2>1. Unit(price) = IF num > den THEN num ELSE den
    BY <1>1 DEF Unit
  <2> QED BY <2>1
<1>3. ASSUME NEW n \in Nat \ {0}, NEW d \in Nat \ {0}, n <= unit,
             NEW q, q = Rounded(Read(amount) * d, n)
      PROVE  WithinRounding(price, n * q - amount * d, 1, BeyondNumber(amount, d))
  <2>1. q \in Nat
    <3>1. PICK k \in Nat : k = Read(amount)
      BY ReadIs
    <3>2. PICK x \in Nat : x = k * d
      OBVIOUS
    <3>3. q = Rounded(x, n)
      BY <1>3, <3>1, <3>2
    <3> QED BY <3>3, RoundedIs
  <2>2. PICK gap \in Int : gap = n * q - amount * d
    <3>1. n * q - amount * d \in Int
      BY <2>1
    <3> QED BY ONLY <3>1
  <2>3. PICK b : b = BeyondNumber(amount, d)
    OBVIOUS
  <2>4. OffBy(unit, gap, 1, b) /\ OffBy(unit, -gap, 1, b)
    <3>1. n <= unit /\ q = Rounded(Read(amount) * d, n) /\ d \in Nat
      BY <1>3
    <3> QED BY ONLY <2>2, <2>3, <3>1, QuoteClose, amount \in Nat, n \in Nat \ {0}, unit \in Nat, gap \in Int
  <2>5. WithinRounding(price, gap, 1, b)
    BY <1>2, <2>4, WithinRoundingIs
  <2> QED BY <2>2, <2>3, <2>5
<1>4. /\ QuoteExactInputSingle(price, amount) = Rounded(Read(amount) * den, num)
      /\ QuoteExactOutputSingle(price, amount) = Rounded(Read(amount) * num, den)
  BY <1>1 DEF QuoteExactInputSingle, QuoteExactOutputSingle
<1>5. PICK in, out : /\ in = QuoteExactInputSingle(price, amount)
                     /\ out = QuoteExactOutputSingle(price, amount)
  OBVIOUS
<1>6. WithinRounding(price, num * in - amount * den, 1, BeyondNumber(amount, den))
  BY <1>2, <1>3, <1>4, <1>5
<1>7. WithinRounding(price, den * out - amount * num, 1, BeyondNumber(amount, num))
  BY <1>2, <1>3, <1>4, <1>5
<1> QED BY <1>1, <1>5, <1>6, <1>7
===============================================================================
