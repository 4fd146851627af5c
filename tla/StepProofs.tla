------------------------------- MODULE StepProofs -------------------------------
(***************************************************************************)
(* The arithmetic of the dex: division and rounding, and that a step of a  *)
(* swap goes from the price towards its target and no further, for         *)
(* amounts that are not negative.                                          *)
(***************************************************************************)
EXTENDS PoolMath, SumProofs

-----------------------------------------------------------------------------
(* Division *)

LEMMA DivBounds ==
    ASSUME NEW n \in Int, NEW d \in Nat \ {0}
    PROVE  n \div d \in Int /\ d * (n \div d) <= n /\ n < d * (n \div d) + d
OBVIOUS

LEMMA DivIs ==
    ASSUME NEW n \in Int, NEW d \in Nat \ {0}, NEW q \in Int, d * q <= n, n < d * q + d
    PROVE  n \div d = q
OBVIOUS

LEMMA ModIs ==
    ASSUME NEW n \in Int, NEW d \in Nat \ {0}
    PROVE  n % d \in 0 .. d - 1 /\ n % d = n - d * (n \div d)
OBVIOUS

LEMMA DivDiv ==
    ASSUME NEW n \in Int, NEW a \in Nat \ {0}, NEW b \in Nat \ {0}
    PROVE  (n \div a) \div b = n \div (a * b)
<1>1. PICK q \in Int : q = n \div a /\ a * q <= n /\ n < a * q + a
  BY DivBounds
<1>2. PICK p \in Int : p = q \div b /\ b * p <= q /\ q < b * p + b
  BY DivBounds
<1>3. a * b \in Nat \ {0}
  OBVIOUS
<1>4. a * b * p <= n
  <2>1. a * (b * p) <= a * q
    BY <1>2
  <2> QED BY <2>1, <1>1
<1>5. n < a * b * p + a * b
  <2>1. q + 1 <= b * p + b
    BY <1>2
  <2>2. a * (q + 1) <= a * (b * p + b)
    BY <2>1
  <2> QED BY <2>2, <1>1
<1>6. n \div (a * b) = p
  BY <1>3, <1>4, <1>5, DivIs
<1> QED BY <1>1, <1>2, <1>6

LEMMA DivGrows ==
    ASSUME NEW a \in Int, NEW b \in Int, a <= b, NEW d \in Nat \ {0}
    PROVE  a \div d <= b \div d
<1>1. PICK p \in Int : p = a \div d /\ d * p <= a
  BY DivBounds
<1>2. PICK q \in Int : q = b \div d /\ b < d * q + d
  BY DivBounds
<1>3. ASSUME p > q PROVE FALSE
  <2>1. d * (q + 1) <= d * p
    BY <1>3
  <2>2. d * (q + 1) = d * q + d
    OBVIOUS
  <2> QED BY <1>1, <1>2, <2>1, <2>2
<1> QED BY <1>1, <1>2, <1>3

LEMMA HasGreatest ==
    ASSUME NEW a \in Int, NEW b \in Int, NEW S \in SUBSET (a .. b), a \in S
    PROVE  Max(S) \in S /\ \A y \in S : Max(S) >= y
<1> DEFINE Good == {k \in 0 .. b - a : \E m \in S : m <= a + k /\ \A y \in S : y <= a + k => m >= y}
<1>1. a <= b /\ b - a \in Nat
  OBVIOUS
<1>2. 0 \in Good
  BY <1>1
<1>3. ASSUME NEW k \in 0 .. (b - a) - 1, k \in Good PROVE k + 1 \in Good
  <2>1. PICK m \in S : m <= a + k /\ \A y \in S : y <= a + k => m >= y
    BY <1>3
  <2>2. CASE a + (k + 1) \in S
    <3>1. \A y \in S : y <= a + (k + 1) => a + (k + 1) >= y
      OBVIOUS
    <3> QED BY <2>2, <3>1
  <2>3. CASE a + (k + 1) \notin S
    <3>1. \A y \in S : y <= a + (k + 1) => y <= a + k
      BY <2>3
    <3>2. m <= a + (k + 1)
      BY <2>1
    <3> QED BY <2>1, <3>1, <3>2
  <2> QED BY <2>2, <2>3
<1>4. \A k \in 0 .. b - a : k \in Good
  <2> HIDE DEF Good
  <2> QED BY <1>1, <1>2, <1>3, UpTo
<1>5. PICK m \in S : \A y \in S : m >= y
  <2>1. b - a \in Good
    BY <1>1, <1>4
  <2>2. \A y \in S : y <= a + (b - a)
    OBVIOUS
  <2> QED BY <2>1, <2>2
<1>6. \E x \in S : \A y \in S : x >= y
  BY <1>5
<1> QED BY <1>6 DEF Max

LEMMA ModNat ==
    ASSUME NEW n \in Int, NEW d \in Nat \ {0}
    PROVE  n % d \in Nat
BY ModIs

-----------------------------------------------------------------------------
(* A step of a swap goes from the price towards the target and no further. *)

LEMMA DivNat ==
    ASSUME NEW n \in Nat, NEW d \in Nat \ {0}
    PROVE  n \div d \in Nat
<1>1. PICK q \in Int : q = n \div d /\ n < d * q + d
  <2>1. n \in Int
    OBVIOUS
  <2> QED BY <2>1, DivBounds
<1>2. ASSUME q < 0 PROVE FALSE
  <2>1. d * (q + 1) <= 0
    BY <1>2
  <2> QED BY <1>1, <2>1
<1> QED BY <1>1, <1>2

\* The least k with d * k >= n
LEMMA RoundedUp ==
    ASSUME NEW n \in Nat, NEW d \in Nat \ {0}
    PROVE  \E k \in Nat : k = (n + d - 1) \div d /\ n <= d * k /\ d * k < n + d
<1>1. n + d - 1 \in Nat
  OBVIOUS
<1>2. PICK m \in Nat : m = n + d - 1
  BY <1>1
<1>3. PICK k \in Nat : k = m \div d
  BY DivNat
<1>4. d * k <= m /\ m < d * k + d
  <2>1. m \in Int
    OBVIOUS
  <2> QED BY <1>3, <2>1, DivBounds
<1> QED BY <1>2, <1>3, <1>4

LEMMA MulDivNat ==
    ASSUME NEW a \in Nat, NEW b \in Nat, NEW d \in Nat \ {0}
    PROVE  /\ MulDiv(a, b, d) \in Nat
           /\ d * MulDiv(a, b, d) <= a * b
           /\ a * b < d * MulDiv(a, b, d) + d
<1>1. PICK n \in Nat : n = a * b
  OBVIOUS
<1>2. n \div d \in Nat
  BY DivNat
<1>3. d * (n \div d) <= n /\ n < d * (n \div d) + d
  <2>1. n \in Int
    OBVIOUS
  <2> QED BY <2>1, DivBounds
<1> QED BY <1>1, <1>2, <1>3 DEF MulDiv

LEMMA MulDivUpNat ==
    ASSUME NEW a \in Nat, NEW b \in Nat, NEW d \in Nat \ {0}
    PROVE  /\ MulDivUp(a, b, d) \in Nat
           /\ a * b <= d * MulDivUp(a, b, d)
           /\ d * MulDivUp(a, b, d) < a * b + d
<1>1. PICK n \in Nat : n = a * b
  OBVIOUS
<1>2. PICK k \in Nat : k = (n + d - 1) \div d /\ n <= d * k /\ d * k < n + d
  BY RoundedUp
<1> QED BY <1>1, <1>2 DEF MulDivUp

\* What token 0 is worth, rounded: no more than n means a product without division.
LEMMA Amount0Up ==
    ASSUME NEW a \in Nat \ {0}, NEW b \in Nat, b >= a, NEW l \in Nat
    PROVE  /\ Amount0(a, b, l, TRUE) \in Nat
           /\ \A n \in Nat : n < Amount0(a, b, l, TRUE) => (n * a) * b < (l * Q96) * (b - a)
<1>1. PICK q \in Nat : q = l * Q96
  BY PoolMathAssumption
<1>2. b - a \in Nat /\ b \in Nat \ {0}
  OBVIOUS
<1>3. PICK m \in Nat : m = MulDivUp(q, b - a, b) /\ b * m < q * (b - a) + b
  BY <1>2, MulDivUpNat
<1>4. PICK k \in Nat : k = (m + a - 1) \div a /\ a * k < m + a
  BY RoundedUp
<1>5. Amount0(a, b, l, TRUE) = k
  BY <1>1, <1>3, <1>4 DEF Amount0
<1>6. ASSUME NEW n \in Nat, n < k PROVE (n * a) * b < q * (b - a)
  <2>1. a * (n + 1) <= a * k
    BY <1>6
  <2>2. n * a + 1 <= m
    BY <1>4, <2>1
  <2>3. b * (n * a + 1) <= b * m
    BY <2>2
  <2>4. b * (n * a + 1) = (n * a) * b + b
    OBVIOUS
  <2> QED BY <1>2, <1>3, <2>3, <2>4
<1> QED BY <1>1, <1>5, <1>6

LEMMA Amount0Down ==
    ASSUME NEW a \in Nat \ {0}, NEW b \in Nat, b >= a, NEW l \in Nat
    PROVE  /\ Amount0(a, b, l, FALSE) \in Nat
           /\ \A n \in Nat : n < Amount0(a, b, l, FALSE) => ((n + 1) * a) * b <= (l * Q96) * (b - a)
<1>1. PICK q \in Nat : q = l * Q96
  BY PoolMathAssumption
<1>2. b - a \in Nat /\ b \in Nat \ {0}
  OBVIOUS
<1>3. PICK m \in Nat : m = MulDiv(q, b - a, b) /\ b * m <= q * (b - a)
  BY <1>2, MulDivNat
<1>4. PICK k \in Nat : k = m \div a /\ a * k <= m
  <2>1. m \div a \in Nat
    BY DivNat
  <2>2. a * (m \div a) <= m
    <3>1. m \in Int
      OBVIOUS
    <3> QED BY <3>1, DivBounds
  <2> QED BY <2>1, <2>2
<1>5. Amount0(a, b, l, FALSE) = k
  BY <1>1, <1>3, <1>4 DEF Amount0
<1>6. ASSUME NEW n \in Nat, n < k PROVE ((n + 1) * a) * b <= q * (b - a)
  <2>1. a * (n + 1) <= a * k
    BY <1>6
  <2>2. (n + 1) * a <= m
    BY <1>4, <2>1
  <2>3. b * ((n + 1) * a) <= b * m
    BY <2>2
  <2> QED BY <1>2, <1>3, <2>3
<1> QED BY <1>1, <1>5, <1>6

LEMMA Amount1Up ==
    ASSUME NEW a \in Nat, NEW b \in Nat, b >= a, NEW l \in Nat
    PROVE  /\ Amount1(a, b, l, TRUE) \in Nat
           /\ \A n \in Nat : n < Amount1(a, b, l, TRUE) => n * Q96 < l * (b - a)
<1>1. PICK d \in Nat \ {0} : d = Q96
  BY PoolMathAssumption
<1>2. b - a \in Nat
  OBVIOUS
<1>3. PICK k \in Nat : k = MulDivUp(l, b - a, d) /\ d * k < l * (b - a) + d
  BY <1>2, MulDivUpNat
<1>4. Amount1(a, b, l, TRUE) = k
  BY <1>1, <1>3 DEF Amount1
<1>5. ASSUME NEW n \in Nat, n < k PROVE n * d < l * (b - a)
  <2>1. d * (n + 1) <= d * k
    BY <1>5
  <2>2. d * (n + 1) = n * d + d
    OBVIOUS
  <2> QED BY <1>2, <1>3, <2>1, <2>2
<1> QED BY <1>1, <1>4, <1>5

LEMMA Amount1Down ==
    ASSUME NEW a \in Nat, NEW b \in Nat, b >= a, NEW l \in Nat
    PROVE  /\ Amount1(a, b, l, FALSE) \in Nat
           /\ \A n \in Nat : n < Amount1(a, b, l, FALSE) => (n + 1) * Q96 <= l * (b - a)
<1>1. PICK d \in Nat \ {0} : d = Q96
  BY PoolMathAssumption
<1>2. b - a \in Nat
  OBVIOUS
<1>3. PICK k \in Nat : k = MulDiv(l, b - a, d) /\ d * k <= l * (b - a)
  BY <1>2, MulDivNat
<1>4. Amount1(a, b, l, FALSE) = k
  BY <1>1, <1>3 DEF Amount1
<1>5. ASSUME NEW n \in Nat, n < k PROVE (n + 1) * d <= l * (b - a)
  <2>1. d * (n + 1) <= d * k
    BY <1>5
  <2> QED BY <1>2, <1>3, <2>1
<1> QED BY <1>1, <1>4, <1>5

\* Four ways to the next price. The quotient of l * Q96 * c that is rounded up lies
\* between the prices because the amount does not suffice for the target.
LEMMA InputDown ==
    ASSUME NEW c \in Nat \ {0}, NEW t \in Nat \ {0}, t <= c, NEW l \in Nat, NEW n \in Nat,
           n < Amount0(t, c, l, TRUE)
    PROVE  PriceFromInput(c, l, n, TRUE) \in t .. c
<1>1. PICK q \in Nat : q = l * Q96
  BY PoolMathAssumption
<1>2. (n * t) * c < q * (c - t)
  BY <1>1, Amount0Up
<1>3. q > 0
  <2>1. n * t \in Nat /\ (n * t) * c \in Nat
    OBVIOUS
  <2> QED BY <1>2, <2>1
<1>4. PICK d \in Nat \ {0} : d = q + n * c
  BY <1>3
<1>5. PICK k \in Nat : k = MulDivUp(q, c, d) /\ q * c <= d * k /\ d * k < q * c + d
  BY MulDivUpNat
<1>6. PriceFromInput(c, l, n, TRUE) = k
  BY <1>1, <1>4, <1>5 DEF PriceFromInput
<1>7. d * t < q * c
  <2>1. q * (c - t) = q * c - q * t
    OBVIOUS
  <2>2. d * t = q * t + (n * t) * c
    BY <1>4
  <2> QED BY <1>2, <2>1, <2>2
<1>8. k >= t
  <2>1. ASSUME k < t PROVE FALSE
    <3>1. d * k <= d * t
      BY <2>1
    <3> QED BY <1>5, <1>7, <3>1
  <2> QED BY <2>1
<1>9. k <= c
  <2>1. ASSUME k > c PROVE FALSE
    <3>1. d * (c + 1) <= d * k
      BY <2>1
    <3>2. d * (c + 1) = d * c + d
      OBVIOUS
    <3>3. d * c = q * c + (n * c) * c
      BY <1>4
    <3>4. (n * c) * c \in Nat
      OBVIOUS
    <3> QED BY <1>5, <3>1, <3>2, <3>3, <3>4
  <2> QED BY <2>1
<1>10. k \in t .. c
  BY <1>8, <1>9
<1> QED BY <1>6, <1>10, Zenon

LEMMA InputUp ==
    ASSUME NEW c \in Nat \ {0}, NEW t \in Nat \ {0}, c <= t, NEW l \in Nat, NEW n \in Nat,
           n < Amount1(c, t, l, TRUE)
    PROVE  PriceFromInput(c, l, n, FALSE) \in c .. t
<1>1. PICK d \in Nat \ {0} : d = Q96
  BY PoolMathAssumption
<1>2. n * d < l * (t - c)
  BY <1>1, Amount1Up
<1>3. l > 0
  <2>1. n * d \in Nat
    OBVIOUS
  <2> QED BY <1>2, <2>1
<1>4. PICK k \in Nat : k = MulDiv(n, d, l) /\ l * k <= n * d
  BY <1>3, MulDivNat
<1>5. PriceFromInput(c, l, n, FALSE) = c + k
  BY <1>1, <1>4 DEF PriceFromInput
<1>6. k <= t - c
  <2>1. ASSUME k > t - c PROVE FALSE
    <3>1. l * (t - c) <= l * k
      BY <2>1
    <3> QED BY <1>2, <1>4, <3>1
  <2> QED BY <2>1
<1>7. c + k \in c .. t
  BY <1>6
<1> QED BY <1>5, <1>7, Zenon

LEMMA OutputDown ==
    ASSUME NEW c \in Nat \ {0}, NEW t \in Nat \ {0}, t <= c, NEW l \in Nat, NEW n \in Nat,
           n < Amount1(t, c, l, FALSE)
    PROVE  PriceFromOutput(c, l, n, TRUE) \in t .. c
<1>1. PICK d \in Nat \ {0} : d = Q96
  BY PoolMathAssumption
<1>2. (n + 1) * d <= l * (c - t)
  BY <1>1, Amount1Down
<1>3. n * d < l * (c - t)
  <2>1. (n + 1) * d = n * d + d
    OBVIOUS
  <2> QED BY <1>2, <2>1
<1>4. l > 0
  <2>1. n * d \in Nat
    OBVIOUS
  <2> QED BY <1>3, <2>1
<1>5. PICK k \in Nat : k = MulDivUp(n, d, l) /\ n * d <= l * k /\ l * k < n * d + l
  <2>1. l \in Nat \ {0} /\ n \in Nat /\ d \in Nat
    BY <1>4
  <2> QED BY <2>1, MulDivUpNat
<1>6. PriceFromOutput(c, l, n, TRUE) = c - k
  BY <1>1, <1>5 DEF PriceFromOutput
<1>7. k <= c - t
  <2>1. ASSUME k > c - t PROVE FALSE
    <3>1. l * ((c - t) + 1) <= l * k
      BY <2>1
    <3>2. l * ((c - t) + 1) = l * (c - t) + l
      OBVIOUS
    <3> QED BY <1>3, <1>5, <3>1, <3>2
  <2> QED BY <2>1
<1>8. c - k \in t .. c
  BY <1>7
<1> QED BY <1>6, <1>8, Zenon

LEMMA OutputUp ==
    ASSUME NEW c \in Nat \ {0}, NEW t \in Nat \ {0}, c <= t, NEW l \in Nat, NEW n \in Nat,
           n < Amount0(c, t, l, FALSE)
    PROVE  PriceFromOutput(c, l, n, FALSE) \in c .. t
<1>1. PICK q \in Nat : q = l * Q96
  BY PoolMathAssumption
<1>2. ((n + 1) * c) * t <= q * (t - c)
  BY <1>1, Amount0Down
<1>3. PICK d \in Int : d = q - n * c
  OBVIOUS
<1>4. d * t >= q * c + c * t
  <2>1. q * (t - c) = q * t - q * c
    OBVIOUS
  <2>2. ((n + 1) * c) * t = (n * c) * t + c * t
    OBVIOUS
  <2>3. d * t = q * t - (n * c) * t
    BY <1>3
  <2> QED BY <1>2, <2>1, <2>2, <2>3
<1>5. d > 0
  <2>1. ASSUME d <= 0 PROVE FALSE
    <3>1. d * t <= 0
      BY <2>1
    <3>2. q * c \in Nat /\ c * t > 0
      OBVIOUS
    <3> QED BY <1>4, <3>1, <3>2
  <2> QED BY <2>1
<1>6. PICK k \in Nat : k = MulDivUp(q, c, d) /\ q * c <= d * k /\ d * k < q * c + d
  <2>1. d \in Nat \ {0} /\ q \in Nat /\ c \in Nat
    BY <1>5
  <2> QED BY <2>1, MulDivUpNat
<1>7. PriceFromOutput(c, l, n, FALSE) = k
  BY <1>1, <1>3, <1>6 DEF PriceFromOutput
<1>8. k <= t
  <2>1. ASSUME k > t PROVE FALSE
    <3>1. d * (t + 1) <= d * k
      BY <1>5, <2>1
    <3>2. d * (t + 1) = d * t + d
      OBVIOUS
    <3>3. c * t \in Nat
      OBVIOUS
    <3> QED BY <1>4, <1>6, <3>1, <3>2, <3>3
  <2> QED BY <2>1
<1>9. k >= c
  <2>1. ASSUME k < c PROVE FALSE
    <3>1. d * k <= d * (c - 1)
      BY <1>5, <2>1
    <3>2. d * (c - 1) = d * c - d
      OBVIOUS
    <3>3. d * c = q * c - (n * c) * c
      BY <1>3
    <3>4. (n * c) * c \in Nat
      OBVIOUS
    <3> QED BY <1>5, <1>6, <3>1, <3>2, <3>3, <3>4
  <2> QED BY <2>1
<1>10. k \in c .. t
  BY <1>8, <1>9
<1> QED BY <1>7, <1>10, Zenon

LEMMA LeastOfTwo ==
    ASSUME NEW a \in Int, NEW b \in Int
    PROVE  Min({a, b}) = IF a <= b THEN a ELSE b
<1>1. CASE a <= b
  <2>1. \A x \in {a, b} : (\A y \in {a, b} : x <= y) => x = a
    BY <1>1
  <2>2. \A y \in {a, b} : a <= y
    BY <1>1
  <2> QED BY <1>1, <2>1, <2>2 DEF Min
<1>2. CASE b < a
  <2>1. \A x \in {a, b} : (\A y \in {a, b} : x <= y) => x = b
    BY <1>2
  <2>2. \A y \in {a, b} : b <= y
    BY <1>2
  <2> QED BY <1>2, <2>1, <2>2 DEF Min
<1> QED BY <1>1, <1>2

LEMMA GreatestOfTwo ==
    ASSUME NEW a \in Int, NEW b \in Int
    PROVE  Max({a, b}) = IF a >= b THEN a ELSE b
<1>1. CASE a >= b
  <2>1. \A x \in {a, b} : (\A y \in {a, b} : x >= y) => x = a
    BY <1>1
  <2>2. \A y \in {a, b} : a >= y
    BY <1>1
  <2> QED BY <1>1, <2>1, <2>2 DEF Max
<1>2. CASE b > a
  <2>1. \A x \in {a, b} : (\A y \in {a, b} : x >= y) => x = b
    BY <1>2
  <2>2. \A y \in {a, b} : b >= y
    BY <1>2
  <2> QED BY <1>2, <2>1, <2>2 DEF Max
<1> QED BY <1>1, <1>2

\* What a step pays and gives for going from the price c to p, if it is sent to t
PaidFor(c, t, l, p) == IF c >= t THEN Amount0(p, c, l, TRUE) ELSE Amount1(c, p, l, TRUE)
GivenFor(c, t, l, p) == IF c >= t THEN Amount1(p, c, l, FALSE) ELSE Amount0(c, p, l, FALSE)

Between(c, t, p) == p \in Nat /\ (c >= t => p \in t .. c) /\ (c <= t => p \in c .. t)

LEMMA PaidNat ==
    ASSUME NEW c \in Nat \ {0}, NEW t \in Nat \ {0}, NEW l \in Nat, NEW p, Between(c, t, p)
    PROVE  PaidFor(c, t, l, p) \in Nat /\ GivenFor(c, t, l, p) \in Nat
<1>1. p \in Nat \ {0}
  BY DEF Between
<1>2. CASE c >= t
  <2>1. c >= p
    BY <1>2 DEF Between
  <2>2. Amount0(p, c, l, TRUE) \in Nat /\ Amount1(p, c, l, FALSE) \in Nat
    BY <1>1, <2>1, Amount0Up, Amount1Down
  <2> QED BY <1>2, <2>2, Zenon DEF PaidFor, GivenFor
<1>3. CASE ~(c >= t)
  <2>1. p >= c
    BY <1>3 DEF Between
  <2>2. Amount1(c, p, l, TRUE) \in Nat /\ Amount0(c, p, l, FALSE) \in Nat
    BY <1>1, <2>1, Amount0Down, Amount1Up
  <2> QED BY <1>3, <2>2, Zenon DEF PaidFor, GivenFor
<1> QED BY <1>2, <1>3

\* The price after a step that does not reach its target
NextPrice(c, t, l, remaining, fee) ==
    IF remaining >= 0 THEN PriceFromInput(c, l, LessFee(remaining, fee), c >= t)
                      ELSE PriceFromOutput(c, l, -remaining, c >= t)

LEMMA NotReached ==
    ASSUME NEW c \in Nat \ {0}, NEW t \in Nat \ {0}, NEW l \in Nat, NEW remaining \in Int,
           NEW fee \in 0 .. FeeUnit - 1,
           IF remaining >= 0 THEN LessFee(remaining, fee) < PaidFor(c, t, l, t)
                             ELSE -remaining < GivenFor(c, t, l, t)
    PROVE  Between(c, t, NextPrice(c, t, l, remaining, fee))
<1>1. CASE remaining >= 0
  <2>1. PICK n \in Nat : n = LessFee(remaining, fee)
    <3>1. remaining \in Nat /\ FeeUnit - fee \in Nat /\ FeeUnit \in Nat \ {0}
      BY <1>1, PoolMathAssumption
    <3> QED BY <3>1, MulDivNat DEF LessFee
  <2>2. n < PaidFor(c, t, l, t)
    BY <1>1, <2>1
  <2>3. CASE c >= t
    <3>1. n < Amount0(t, c, l, TRUE)
      BY <2>2, <2>3, Zenon DEF PaidFor
    <3>2. PriceFromInput(c, l, n, TRUE) \in t .. c
      BY <2>3, <3>1, InputDown
    <3>3. NextPrice(c, t, l, remaining, fee) = PriceFromInput(c, l, n, TRUE)
      <4>1. (c >= t) = TRUE
        BY <2>3
      <4> QED BY <1>1, <2>1, <4>1, Zenon DEF NextPrice
    <3>4. PICK p : p = NextPrice(c, t, l, remaining, fee) /\ p \in t .. c
      BY <3>2, <3>3, Zenon
    <3>5. Between(c, t, p)
      BY <2>3, <3>4 DEF Between
    <3> QED BY <3>4, <3>5, Zenon
  <2>4. CASE ~(c >= t)
    <3>0. c <= t
      BY <2>4
    <3>1. n < Amount1(c, t, l, TRUE)
      BY <2>2, <2>4, Zenon DEF PaidFor
    <3>2. PriceFromInput(c, l, n, FALSE) \in c .. t
      BY <3>0, <3>1, InputUp
    <3>3. NextPrice(c, t, l, remaining, fee) = PriceFromInput(c, l, n, FALSE)
      <4>1. (c >= t) = FALSE
        BY <2>4
      <4> QED BY <1>1, <2>1, <4>1, Zenon DEF NextPrice
    <3>4. PICK p : p = NextPrice(c, t, l, remaining, fee) /\ p \in c .. t
      BY <3>2, <3>3, Zenon
    <3>5. Between(c, t, p)
      BY <2>4, <3>4 DEF Between
    <3> QED BY <3>4, <3>5, Zenon
  <2> QED BY <2>3, <2>4
<1>2. CASE ~(remaining >= 0)
  <2>1. PICK n \in Nat : n = -remaining
    BY <1>2
  <2>2. n < GivenFor(c, t, l, t)
    BY <1>2, <2>1
  <2>3. CASE c >= t
    <3>1. n < Amount1(t, c, l, FALSE)
      BY <2>2, <2>3, Zenon DEF GivenFor
    <3>2. PriceFromOutput(c, l, n, TRUE) \in t .. c
      BY <2>3, <3>1, OutputDown
    <3>3. NextPrice(c, t, l, remaining, fee) = PriceFromOutput(c, l, n, TRUE)
      <4>1. (c >= t) = TRUE
        BY <2>3
      <4> QED BY <1>2, <2>1, <4>1, Zenon DEF NextPrice
    <3>4. PICK p : p = NextPrice(c, t, l, remaining, fee) /\ p \in t .. c
      BY <3>2, <3>3, Zenon
    <3>5. Between(c, t, p)
      BY <2>3, <3>4 DEF Between
    <3> QED BY <3>4, <3>5, Zenon
  <2>4. CASE ~(c >= t)
    <3>0. c <= t
      BY <2>4
    <3>1. n < Amount0(c, t, l, FALSE)
      BY <2>2, <2>4, Zenon DEF GivenFor
    <3>2. PriceFromOutput(c, l, n, FALSE) \in c .. t
      BY <3>0, <3>1, OutputUp
    <3>3. NextPrice(c, t, l, remaining, fee) = PriceFromOutput(c, l, n, FALSE)
      <4>1. (c >= t) = FALSE
        BY <2>4
      <4> QED BY <1>2, <2>1, <4>1, Zenon DEF NextPrice
    <3>4. PICK p : p = NextPrice(c, t, l, remaining, fee) /\ p \in c .. t
      BY <3>2, <3>3, Zenon
    <3>5. Between(c, t, p)
      BY <2>4, <3>4 DEF Between
    <3> QED BY <3>4, <3>5, Zenon
  <2> QED BY <2>3, <2>4
<1> QED BY <1>1, <1>2

\* An input that does not suffice for the target pays for the price that it leads to.
LEMMA InputSuffices ==
    ASSUME NEW c \in Nat \ {0}, NEW t \in Nat \ {0}, NEW l \in Nat, NEW remaining \in Nat,
           NEW fee \in 0 .. FeeUnit - 1,
           NEW n \in Nat, n = LessFee(remaining, fee), n < PaidFor(c, t, l, t),
           NEW p, p = NextPrice(c, t, l, remaining, fee)
    PROVE  PaidFor(c, t, l, p) <= n
<1>0. Between(c, t, p)
  <2>1. remaining \in Int /\ remaining >= 0
    OBVIOUS
  <2> QED BY <2>1, NotReached
<1>1. PaidFor(c, t, l, p) \in Nat /\ p \in Nat \ {0}
  BY <1>0, PaidNat DEF Between
<1>2. CASE c >= t
  <2>1. PICK q \in Nat : q = l * Q96
    BY PoolMathAssumption
  <2>2. (n * t) * c < q * (c - t)
    <3>1. n < Amount0(t, c, l, TRUE)
      BY <1>2, Zenon DEF PaidFor
    <3> QED BY <1>2, <2>1, <3>1, Amount0Up
  <2>3. q > 0
    <3>1. n * t \in Nat /\ (n * t) * c \in Nat
      OBVIOUS
    <3> QED BY <1>2, <2>2, <3>1
  <2>4. PICK d \in Nat \ {0} : d = q + n * c
    BY <2>3
  <2>5. PICK k \in Nat : k = MulDivUp(q, c, d) /\ q * c <= d * k
    BY MulDivUpNat
  <2>6. PriceFromInput(c, l, n, TRUE) = k
    BY <2>1, <2>4, <2>5 DEF PriceFromInput
  <2>7. p = k
    <3>1. (c >= t) = TRUE /\ (remaining >= 0) = TRUE
      BY <1>2
    <3> QED BY <2>6, <3>1, Zenon DEF NextPrice
  <2>8. p \in Nat \ {0} /\ c >= p
    BY <1>0, <1>1, <1>2 DEF Between
  <2>9. PICK paid \in Nat : paid = PaidFor(c, t, l, p) /\ paid = Amount0(p, c, l, TRUE)
    BY <1>1, <1>2, Zenon DEF PaidFor
  <2>10. ASSUME n < paid PROVE FALSE
    <3>0. n < Amount0(p, c, l, TRUE)
      BY <2>9, <2>10, Zenon
    <3>1. (n * p) * c < q * (c - p)
      BY <2>1, <2>8, <3>0, Amount0Up
    <3>2. d * p = q * p + (n * p) * c
      BY <2>4, <2>8
    <3>3. q * (c - p) = q * c - q * p
      BY <2>8
    <3> QED BY <2>5, <2>7, <3>1, <3>2, <3>3
  <2>11. paid <= n
    BY <2>10
  <2> QED BY <2>9, <2>11, Zenon
<1>3. CASE ~(c >= t)
  <2>0. c <= t
    BY <1>3
  <2>1. PICK d \in Nat \ {0} : d = Q96
    BY PoolMathAssumption
  <2>2. n * d < l * (t - c)
    <3>1. n < Amount1(c, t, l, TRUE)
      BY <1>3, Zenon DEF PaidFor
    <3> QED BY <2>0, <2>1, <3>1, Amount1Up
  <2>3. l > 0
    <3>1. n * d \in Nat
      OBVIOUS
    <3> QED BY <2>0, <2>2, <3>1
  <2>4. PICK k \in Nat : k = MulDiv(n, d, l) /\ l * k <= n * d
    <3>1. l \in Nat \ {0} /\ d \in Nat
      BY <2>3
    <3> QED BY <3>1, MulDivNat
  <2>5. PriceFromInput(c, l, n, FALSE) = c + k
    BY <2>1, <2>4 DEF PriceFromInput
  <2>6. p = c + k
    <3>1. (c >= t) = FALSE /\ (remaining >= 0) = TRUE
      BY <1>3
    <3> QED BY <2>5, <3>1, Zenon DEF NextPrice
  <2>7. p \in Nat /\ p >= c /\ p - c = k
    BY <2>6
  <2>8. PICK paid \in Nat : paid = PaidFor(c, t, l, p) /\ paid = Amount1(c, p, l, TRUE)
    BY <1>1, <1>3, Zenon DEF PaidFor
  <2>9. ASSUME n < paid PROVE FALSE
    <3>0. n < Amount1(c, p, l, TRUE)
      BY <2>8, <2>9, Zenon
    <3>1. n * d < l * (p - c)
      BY <2>1, <2>7, <3>0, Amount1Up
    <3> QED BY <2>4, <2>7, <3>1
  <2>10. paid <= n
    BY <2>9
  <2> QED BY <2>8, <2>10, Zenon
<1> QED BY <1>2, <1>3

\* What is left of an input for the exchange, and the fee on it, are within the input.
LEMMA FeeWithin ==
    ASSUME NEW remaining \in Nat, NEW fee \in 0 .. FeeUnit - 1,
           NEW in \in Nat, in <= LessFee(remaining, fee)
    PROVE  /\ LessFee(remaining, fee) \in Nat /\ LessFee(remaining, fee) <= remaining
           /\ in + MulDivUp(in, fee, FeeUnit - fee) <= remaining
<1>1. PICK u \in Nat \ {0}, r \in Nat \ {0} : u = FeeUnit /\ r = u - fee /\ u = r + fee /\ fee \in Nat
  BY PoolMathAssumption
<1>2. PICK n \in Nat : n = MulDiv(remaining, r, u) /\ u * n <= remaining * r
  BY MulDivNat
<1>3. LessFee(remaining, fee) = n
  BY <1>1, <1>2 DEF LessFee
<1>4. n <= remaining
  <2>1. ASSUME n > remaining PROVE FALSE
    <3>1. u * (remaining + 1) <= u * n
      BY <2>1
    <3>2. u * (remaining + 1) = u * remaining + u
      OBVIOUS
    <3>3. u * remaining = remaining * r + remaining * fee
      BY <1>1
    <3>4. remaining * fee >= 0
      BY <1>1
    <3> QED BY <1>2, <3>1, <3>2, <3>3, <3>4
  <2> QED BY <2>1
<1>5. PICK k \in Nat : k = MulDivUp(in, fee, r) /\ r * k < in * fee + r
  BY <1>1, MulDivUpNat
<1>6. in + k <= remaining
  <2>1. ASSUME in + k > remaining PROVE FALSE
    <3>1. r * (remaining + 1) <= r * (in + k)
      BY <2>1
    <3>2. r * (remaining + 1) = remaining * r + r
      OBVIOUS
    <3>3. r * (in + k) = r * in + r * k
      OBVIOUS
    <3>4. u * in <= u * n
      BY <1>3
    <3>5. u * in = r * in + in * fee
      BY <1>1
    <3> QED BY <1>2, <1>5, <3>1, <3>2, <3>3, <3>4, <3>5
  <2> QED BY <2>1
<1> QED BY <1>1, <1>3, <1>4, <1>5, <1>6

\* computeSwapStep stays between the price and the target, and within what is specified.
Stepped(step, c, t, l, remaining) ==
    /\ Between(c, t, step.sqrtPrice)
    /\ step.amountIn \in Nat /\ step.amountOut \in Nat /\ step.feeAmount \in Nat
    /\ step.amountIn = PaidFor(c, t, l, step.sqrtPrice)
    /\ step.amountOut <= GivenFor(c, t, l, step.sqrtPrice)
    /\ remaining >= 0 => step.amountIn + step.feeAmount <= remaining
    /\ remaining < 0 => step.amountOut <= -remaining

LEMMA StepBetween ==
    ASSUME NEW c \in Nat \ {0}, NEW t \in Nat \ {0}, NEW l \in Nat, NEW remaining \in Int,
           NEW fee \in 0 .. FeeUnit - 1,
           NEW step, step = ComputeSwapStep(c, t, l, remaining, fee)
    PROVE  Stepped(step, c, t, l, remaining)
<1>1. PICK reached : reached = IF remaining >= 0 THEN LessFee(remaining, fee) >= PaidFor(c, t, l, t)
                                                 ELSE -remaining >= GivenFor(c, t, l, t)
  OBVIOUS
<1>2. PICK next : next = IF reached THEN t ELSE NextPrice(c, t, l, remaining, fee)
  OBVIOUS
<1>3. PICK out : out = IF remaining >= 0 THEN GivenFor(c, t, l, next)
                       ELSE Min({GivenFor(c, t, l, next), -remaining})
  OBVIOUS
<1>4. PICK kept : kept = IF remaining >= 0 /\ next # t THEN remaining - PaidFor(c, t, l, next)
                       ELSE MulDivUp(PaidFor(c, t, l, next), fee, FeeUnit - fee)
  OBVIOUS
<1>5. step = [sqrtPrice |-> next, amountIn |-> PaidFor(c, t, l, next), amountOut |-> out, feeAmount |-> kept]
  <2>1. CASE remaining >= 0
    BY <1>1, <1>2, <1>3, <1>4, <2>1, Zenon DEF ComputeSwapStep, NextPrice, PaidFor, GivenFor
  <2>2. CASE ~(remaining >= 0)
    BY <1>1, <1>2, <1>3, <1>4, <2>2, Zenon DEF ComputeSwapStep, NextPrice, PaidFor, GivenFor
  <2> QED BY <2>1, <2>2
<1>6. Between(c, t, next)
  <2>1. CASE reached
    BY <1>2, <2>1 DEF Between
  <2>2. CASE ~reached
    <3>1. PaidFor(c, t, l, t) \in Nat /\ GivenFor(c, t, l, t) \in Nat
      <4>1. Between(c, t, t)
        BY DEF Between
      <4> QED BY <4>1, PaidNat
    <3>2. remaining >= 0 => LessFee(remaining, fee) \in Nat
      <4>1. remaining >= 0 => remaining \in Nat
        OBVIOUS
      <4>2. FeeUnit - fee \in Nat /\ FeeUnit \in Nat \ {0}
        BY PoolMathAssumption
      <4> QED BY <4>1, <4>2, MulDivNat DEF LessFee
    <3>3. IF remaining >= 0 THEN LessFee(remaining, fee) < PaidFor(c, t, l, t)
                            ELSE -remaining < GivenFor(c, t, l, t)
      <4>1. CASE remaining >= 0
        <5>1. ~(LessFee(remaining, fee) >= PaidFor(c, t, l, t))
          BY <1>1, <2>2, <4>1, Zenon
        <5> QED BY <3>1, <3>2, <4>1, <5>1
      <4>2. CASE ~(remaining >= 0)
        <5>1. ~(-remaining >= GivenFor(c, t, l, t))
          BY <1>1, <2>2, <4>2, Zenon
        <5> QED BY <3>1, <4>2, <5>1
      <4> QED BY <4>1, <4>2
    <3>4. Between(c, t, NextPrice(c, t, l, remaining, fee))
      BY <3>3, NotReached
    <3> QED BY <1>2, <2>2, <3>4
  <2> QED BY <2>1, <2>2
<1>7. PICK in \in Nat, given \in Nat : in = PaidFor(c, t, l, next) /\ given = GivenFor(c, t, l, next)
  BY <1>6, PaidNat
<1>8. out \in Nat /\ out <= given /\ (remaining < 0 => out <= -remaining)
  <2>1. CASE remaining >= 0
    BY <1>3, <1>7, <2>1
  <2>2. CASE ~(remaining >= 0)
    <3>1. Min({given, -remaining}) = IF given <= -remaining THEN given ELSE -remaining
      BY LeastOfTwo
    <3>2. PICK least \in Nat : least = Min({given, -remaining}) /\ least <= given /\ least <= -remaining
      BY <2>2, <3>1
    <3>3. out = least
      BY <1>3, <1>7, <2>2, <3>2, Zenon
    <3> QED BY <3>2, <3>3
  <2> QED BY <2>1, <2>2
<1>9. PICK charged \in Nat : charged = MulDivUp(in, fee, FeeUnit - fee)
  <2>1. FeeUnit - fee \in Nat \ {0} /\ fee \in Nat
    BY PoolMathAssumption
  <2> QED BY <2>1, MulDivUpNat
<1>10. kept = IF remaining >= 0 /\ next # t THEN remaining - in ELSE charged
  BY <1>4, <1>7, <1>9, Zenon
<1>11. CASE remaining >= 0
  <2>0. remaining \in Nat
    BY <1>11
  <2>1. PICK n \in Nat : n = LessFee(remaining, fee)
    <3>1. FeeUnit - fee \in Nat /\ FeeUnit \in Nat \ {0}
      BY PoolMathAssumption
    <3> QED BY <2>0, <3>1, MulDivNat DEF LessFee
  <2>2. in <= n
    <3>1. PICK whole \in Nat : whole = PaidFor(c, t, l, t)
      <4>1. Between(c, t, t)
        BY DEF Between
      <4> QED BY <4>1, PaidNat
    <3>2. CASE n >= whole
      <4>1. reached
        BY <1>1, <1>11, <2>1, <3>1, <3>2, Zenon
      <4>2. in = whole
        BY <1>2, <1>7, <3>1, <4>1, Zenon
      <4> QED BY <3>2, <4>2
    <3>3. CASE ~(n >= whole)
      <4>1. ~reached
        BY <1>1, <1>11, <2>1, <3>1, <3>3, Zenon
      <4>2. next = NextPrice(c, t, l, remaining, fee)
        BY <1>2, <4>1, Zenon
      <4>3. n < PaidFor(c, t, l, t)
        BY <3>1, <3>3
      <4> QED BY <1>7, <2>0, <2>1, <4>2, <4>3, InputSuffices
    <3> QED BY <3>2, <3>3
  <2>3. n <= remaining /\ in + charged <= remaining
    BY <1>9, <2>0, <2>1, <2>2, FeeWithin
  <2>4. kept \in Nat /\ in + kept <= remaining
    BY <1>10, <1>11, <2>2, <2>3
  <2> QED BY <1>5, <1>6, <1>7, <1>8, <1>11, <2>4 DEF Stepped
<1>12. CASE remaining < 0
  <2>1. kept = charged
    BY <1>10, <1>12
  <2> QED BY <1>5, <1>6, <1>7, <1>8, <1>9, <1>12, <2>1 DEF Stepped
<1> QED BY <1>11, <1>12

LEMMA WrapNat ==
    ASSUME NEW n \in Int
    PROVE  Wrap256(n) \in Nat /\ Wrap128(n) \in Nat
<1>1. PICK q \in Nat \ {0} : q = Q128
  BY PoolMathAssumption
<1>2. PICK d \in Nat \ {0} : d = q * q - 1 - 0 + 1
  OBVIOUS
<1>3. PICK e \in Nat \ {0} : e = q - 1 - 0 + 1
  OBVIOUS
<1>4. n - 0 \in Int /\ n - 0 = n
  OBVIOUS
<1>5. n % d \in Nat /\ n % e \in Nat
  BY ModNat
<1>6. Wrap256(n) = (n % d) + 0
  BY <1>1, <1>2, <1>4 DEF Wrap256, Hof
<1>7. Wrap128(n) = (n % e) + 0
  BY <1>1, <1>3, <1>4 DEF Wrap128, Hof
<1> QED BY <1>5, <1>6, <1>7

LEMMA MulDivInt ==
    ASSUME NEW a \in Int, NEW b \in Int, NEW d \in Nat \ {0}
    PROVE  MulDiv(a, b, d) \in Int
<1>1. PICK n \in Int : n = a * b
  OBVIOUS
<1>2. n \div d \in Int
  BY DivBounds
<1> QED BY <1>1, <1>2 DEF MulDiv

LEMMA StepTyped ==
    ASSUME NEW c \in Nat \ {0}, NEW t \in Nat \ {0}, NEW l \in Nat, NEW remaining \in Int,
           NEW fee \in 0 .. FeeUnit - 1,
           NEW step, step = ComputeSwapStep(c, t, l, remaining, fee)
    PROVE  /\ Between(c, t, step.sqrtPrice)
           /\ step.amountIn \in Nat /\ step.amountOut \in Nat /\ step.feeAmount \in Nat
<1>1. Stepped(step, c, t, l, remaining)
  BY StepBetween, Zenon
<1> QED BY <1>1, Zenon DEF Stepped
===============================================================================
