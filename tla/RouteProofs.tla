------------------------------ MODULE RouteProofs ------------------------------
(***************************************************************************)
(* Routes and purchases: that they settle with who has sent them, and      *)
(* that routes leave the pools with no less than they owe.                 *)
(***************************************************************************)
EXTENDS FeeConversion, StepProofs, QuoterProofs, SequenceTheorems

-----------------------------------------------------------------------------
(* The invariant *)

Amounts == [Tokens -> Int]
Balances == [Accounts -> Amounts]
States == [pools : [PoolKeys -> PoolStates], balance : Balances, locked : Balances]

OddPath(path) == path \in Seq(Nat) /\ \E n \in Nat \ {0} : Len(path) = 2 * n + 1

\* What is left of a route is an end of its path, what it has passed are tokens and pools
\* that there are, and it is paid and pays on the way.
Along(r) ==
    /\ OddPath(r.path) /\ OddPath(r.rest)
    /\ LastToken(r.rest) = LastToken(r.path)
    /\ PoolsOf(r.rest) \subseteq PoolsOf(r.path) /\ TokensOf(r.rest) \subseteq TokensOf(r.path)
    /\ TokensOf(r.path) \ Tokens \subseteq TokensOf(r.rest)
    /\ r.phase \notin {"input", "output"} => TokensOf(r.path) \subseteq Tokens
    /\ r.payer \in {Sender, Router} \cup (PoolKeys \cap PoolsOf(r.path))
    /\ r.recipient \in {r.receiver} \cup (PoolKeys \cap PoolsOf(r.path))
    /\ r.stack # << >> => r.recipient \in PoolKeys
    /\ \A i \in DOMAIN r.stack : r.stack[i].key \in PoolsOf(r.path)

\* The phases of an exact input and of an exact output
InPhase(r) ==
    /\ r.exactInput => r.phase \in {"input", "finish"} /\ r.recipient = r.receiver
    /\ ~r.exactInput => r.phase \in {"output", "pay", "return", "finish"} /\ r.payer = Sender
    /\ r.phase \in {"pay", "return"} => r.stack # << >>

\* What is not on the path is as it was in the state o.
Untouched(r, p, b, o) ==
    /\ \A k \in PoolKeys \ PoolsOf(r.path) :
           p[k] = o.pools[k] /\ (k # r.receiver => b[k] = o.balance[k])
    /\ \A a \in DOMAIN Holdings \ {Sender, r.receiver} : b[a] = o.balance[a]
    /\ \A a \in Accounts, t \in Tokens \ TokensOf(r.path) : b[a][t] = o.balance[a][t]

RouteIn(r) == IF r.exactInput THEN r.path[1] ELSE LastToken(r.path)
RouteOut(r) == IF r.exactInput THEN LastToken(r.path) ELSE r.path[1]

\* The sender has given x of the first token, and got y of the last one if that was for it.
Exchanged(r, b, o, x, y) ==
    \A t \in Tokens : b[Sender][t] = o.balance[Sender][t]
        + (IF t = RouteOut(r) /\ r.receiver = Sender THEN y ELSE 0) - (IF t = RouteIn(r) THEN x ELSE 0)

\* How much that is, of an exact input and of an exact output
InputSoFar(r, x, y) ==
    /\ x <= r.specified
    /\ r.phase = "input" => y = 0 /\ (r.payer = Sender => r.rest = r.path /\ r.amount = r.specified /\ x = 0)
    /\ r.phase = "finish" => y = r.amount
OutputSoFar(r, x, y) ==
    /\ r.phase = "output" /\ r.stack = << >> =>
           r.recipient = r.receiver /\ r.amount = r.specified /\ r.rest = r.path /\ x = 0 /\ y = 0
    /\ r.stack # << >> => r.stack[1].wanted = r.specified /\ y = r.stack[1].swap.amountOut
    /\ r.stack # << >> /\ r.phase # "return" => x = 0
    /\ r.phase = "return" => x = r.amount
    /\ r.phase = "finish" => x = r.amount /\ (r.limit = None => y = r.specified)
SoFar(r, x, y) == IF r.exactInput THEN InputSoFar(r, x, y) ELSE OutputSoFar(r, x, y)
Gains(r, b, o) == \E x, y \in Int : Exchanged(r, b, o, x, y) /\ SoFar(r, x, y)

RouteOK(r, p, b, o) ==
    /\ r \in RouteRecords /\ Along(r) /\ InPhase(r)
    /\ Untouched(r, p, b, o) /\ Gains(r, b, o)

\* A route that has ended well
RouteDone(r, p, b, o) ==
    /\ RouteOK(r, p, b, o) /\ r.phase = "finish" /\ WithinBound(r, r.amount)
    /\ \A t \in TokensOf(r.path) : b[Router][t] = 0

SameTotals(b, l, o) == \A t \in Tokens : Total(b, l, t) = Total(o.balance, o.locked, t)

\* There is something that a revert would undo.
Started ==
    \/ call # None \/ purchase # None \/ result # None \/ bought # None
    \/ tx # None /\ tx.stage \in {"after", "swapping"}

TypesInv ==
    /\ pools \in [PoolKeys -> PoolStates] /\ balance \in Balances /\ locked \in Balances
    /\ Started => before \in States
    /\ call # None => call \in RouteRecords
KeptInv == Started => SameTotals(balance, locked, before)
RouteInv == call # None => RouteOK(call, pools, balance, before)
ResultInv ==
    result # None /\ result.ok => RouteDone(result.route, pools, balance, before)

Stages == {"converting", "fee", "base", "command", "running", "after", "swapping"}

\* What a transaction has been verified to be
Suits(c) ==
    /\ SuitsIco(c) /\ SuitsPool(c) /\ IsValidTransfer(c)
    /\ IsPurchase(c) => IcoPathExists(c)
IsTx(x) ==
    \E plan, stage, start :
        /\ x = [plan |-> plan, stage |-> stage, start |-> start]
        /\ plan.command \in Commands /\ plan.fee \in TxFees /\ Suits(plan.command)
        /\ stage \in Stages /\ start \in States

TxInv ==
    tx # None =>
        /\ IsTx(tx)
        /\ tx.stage \in {"fee", "base", "command", "after"} => call = None
        /\ tx.stage \in {"converting", "fee", "base", "command", "after"} => purchase = None /\ bought = None
        /\ tx.stage \in {"base", "command", "after"} => result = None
EndsInv ==
    /\ call # None => result = None
    /\ purchase # None => bought = None
    /\ bought # None => call = None /\ purchase = None /\ result = None

\* A transfer has come or, if it could not be paid, not.
Sent1(c, b, o) ==
    b = IF o.balance[Sender][c.path[1]] >= c.amount
        THEN Transferred(o.balance, Sender, c.recipient, c.path[1], c.amount) ELSE o.balance
AfterInv ==
    tx # None /\ tx.stage = "after" =>
        /\ IsTransfer(tx.plan.command)
        /\ pools = before.pools /\ Sent1(tx.plan.command, balance, before)

\* An order of the sender, and of a pool that was sent a token
IsOrder(o) ==
    /\ o \in [name : SwapNames \cup PurchaseNames \cup {"transfer"}, exactInput : BOOLEAN,
              payer : Accounts, path : Seq(Nat), amount : Nat, recipient : Accounts \cup {Zero},
              bound : Nat, limit : Nat \cup {None}, tokenOut : Tokens \cup {None}]
    /\ \E n \in Nat : Len(o.path) = 2 * n + 1
    /\ IcoPathExists(o)
Ordered(o) ==
    \/ o \in Commands /\ IsPurchase(o) /\ o.payer = Sender
    \/ /\ ~HasPath(o) /\ o.exactInput
       /\ o.payer = IcoPool(o) /\ o.recipient = Sender

\* The first leg of a purchase
FirstLeg(r, o) ==
    /\ r.path = o.path /\ r.receiver = Sender /\ r.limit = None /\ r.bound = o.bound
    /\ r.exactInput = o.exactInput
    /\ r.specified = IF o.exactInput THEN o.amount
                     ELSE QuoteExactOutputSingle(ICOs[IcoPool(o)].price, o.amount)
Paid1(o, b, s) ==
    IF o.payer = Sender THEN b = s.balance
    ELSE Sent1([path |-> o.path, amount |-> o.amount, recipient |-> o.payer], b, s)
PurchaseInv ==
    purchase # None =>
        /\ IsOrder(purchase) /\ Ordered(purchase)
        /\ HasPath(purchase) =>
              IF call # None THEN FirstLeg(call, purchase)
              ELSE result # None /\ (result.ok => FirstLeg(result.route, purchase))
        /\ ~HasPath(purchase) =>
              call = None /\ result = None /\ pools = before.pools /\ Paid1(purchase, balance, before)
BoughtInv ==
    bought # None /\ ~bought.ok =>
        pools = before.pools /\ balance = before.balance /\ locked = before.locked

RouteIInv ==
    /\ TypesInv /\ KeptInv /\ RouteInv /\ ResultInv /\ TxInv /\ EndsInv /\ AfterInv
    /\ PurchaseInv /\ BoughtInv

-----------------------------------------------------------------------------
(* The swap of a hop *)

\* The prices at the ends
LEMMA RatiosNat ==
    MinRatio \in Nat \ {0} /\ MaxRatio \in Nat \ {0} /\ MinRatio < MaxRatio
<1>1. MinTick \in Ticks /\ MaxTick \in Ticks /\ MinTick < MaxTick
  BY PoolMathAssumption DEF Ticks
<1> QED BY <1>1, PoolMathAssumption DEF MinRatio, MaxRatio

\* What there is of a pool
LEMMA KeyParts ==
    ASSUME NEW key \in PoolKeys
    PROVE  /\ key[1] \in Tokens /\ key[2] \in Tokens /\ key[1] < key[2]
           /\ key = <<key[1], key[2], key[3]>>
           /\ key[3] \in 0 .. FeeUnit - 1 /\ Liquidity[key] \in Nat \ {0}
<1>1. key \in {k \in Tokens \X Tokens \X Fees : k[1] < k[2]}
  BY SwapRouterAssumption
<1>2. key[3] \in Fees
  BY DEF Fees
<1>3. key[3] \in 0 .. FeeUnit - 1
  BY <1>2, SwapRouterAssumption DEF FeesAre
<1>4. Liquidity[key] \in Nat \ {0}
  <2>1. Liquidity \in [PoolKeys -> 1 .. Q128 - 1] /\ Q128 \in Nat
    BY SwapRouterAssumption, PoolMathAssumption
  <2> QED BY <2>1
<1> QED BY <1>1, <1>3, <1>4

\* The price that a swap may go to
LEMMA LimitIsPrice ==
    ASSUME NEW pool \in PoolStates, NEW z \in BOOLEAN, NEW specified \in Int, NEW limit \in Nat \cup {None},
           NEW bound, bound = Limit(z, limit), SwapAllowed(pool, z, specified, bound)
    PROVE  /\ bound \in MinRatio + 1 .. MaxRatio - 1 /\ specified # 0
           /\ z => bound < pool.sqrtPrice
           /\ ~z => bound > pool.sqrtPrice
<1>1. PICK p \in MinRatio + 1 .. MaxRatio - 1 : p = pool.sqrtPrice
  BY DEF PoolStates
<1>2. bound \in Nat
  <2>1. CASE limit = None
    <3>1. bound = MinRatio + 1 \/ bound = MaxRatio - 1
      BY <2>1, Zenon DEF Limit
    <3> QED BY <3>1, RatiosNat
  <2>2. CASE limit # None
    <3>1. bound = limit
      BY <2>2, Zenon DEF Limit
    <3> QED BY <2>2, <3>1
  <2> QED BY <2>1, <2>2
<1>3. CASE z
  <2>1. specified # 0 /\ bound < p /\ bound > MinRatio
    BY <1>1, <1>3, Zenon DEF SwapAllowed
  <2>2. bound \in MinRatio + 1 .. MaxRatio - 1
    BY <1>1, <1>2, <2>1, RatiosNat
  <2> QED BY <1>1, <1>3, <2>1, <2>2, Zenon
<1>4. CASE ~z
  <2>1. specified # 0 /\ bound > p /\ bound < MaxRatio
    BY <1>1, <1>4, Zenon DEF SwapAllowed
  <2>2. bound \in MinRatio + 1 .. MaxRatio - 1
    BY <1>1, <1>2, <2>1, RatiosNat
  <2> QED BY <1>1, <1>4, <2>1, <2>2, Zenon
<1> QED BY <1>3, <1>4

-----------------------------------------------------------------------------
(* What a pool owes, before and after a swap *)

\* Rounding down, of the first token between two prices
LEMMA Amount0DownIs ==
    ASSUME NEW a \in Nat \ {0}, NEW b \in Nat, b >= a, NEW l \in Nat,
           NEW n, n = Amount0(a, b, l, FALSE)
    PROVE  /\ n \in Nat
           /\ (b * a) * n <= (l * Q96) * (b - a)
           /\ (l * Q96) * (b - a) < (b * a) * n + b * a
<1>1. PICK c \in Nat, d \in Nat : c = l * Q96 /\ d = b - a
  BY PoolMathAssumption
<1>2. PICK m \in Nat : m = c * d
  OBVIOUS
<1>3. PICK e \in Nat \ {0} : e = b * a
  <2>1. b \in Nat \ {0}
    OBVIOUS
  <2>2. b * a \in Nat \ {0}
    BY <2>1
  <2> QED BY <2>2
<1>4. n = (m \div b) \div a
  BY <1>1, <1>2 DEF Amount0, MulDiv
<1>5. n = m \div e
  <2>1. PICK b1 \in Nat \ {0} : b1 = b /\ m \in Int
    OBVIOUS
  <2>2. (m \div b1) \div a = m \div (b1 * a)
    BY <2>1, DivDiv
  <2> QED BY <1>3, <1>4, <2>1, <2>2, Zenon
<1>6. n \in Nat /\ e * n <= m /\ m < e * n + e
  <2>1. m \in Int /\ m \in Nat
    OBVIOUS
  <2>2. m \div e \in Nat
    BY <2>1, DivNat
  <2>3. e * (m \div e) <= m /\ m < e * (m \div e) + e
    BY <2>1, DivBounds
  <2> QED BY <1>5, <2>2, <2>3
<1> QED BY <1>1, <1>2, <1>3, <1>6

\* Rounding up
LEMMA Amount0UpIs ==
    ASSUME NEW a \in Nat \ {0}, NEW b \in Nat, b >= a, NEW l \in Nat,
           NEW n, n = Amount0(a, b, l, TRUE)
    PROVE  n \in Nat /\ (l * Q96) * (b - a) <= (b * a) * n
<1>1. PICK c \in Nat, d \in Nat : c = l * Q96 /\ d = b - a
  BY PoolMathAssumption
<1>2. b \in Nat \ {0}
  OBVIOUS
<1>3. PICK m \in Nat : m = MulDivUp(c, d, b) /\ c * d <= b * m
  BY <1>2, MulDivUpNat
<1>4. PICK k \in Nat : k = (m + a - 1) \div a /\ m <= a * k
  BY RoundedUp
<1>5. n = k
  BY <1>1, <1>3, <1>4 DEF Amount0
<1>6. b * m <= b * (a * k)
  <2>1. PICK ak \in Nat : ak = a * k
    OBVIOUS
  <2>2. \A x \in Nat : x <= ak => b * x <= b * ak
    OBVIOUS
  <2> QED BY <1>4, <2>1, <2>2
<1>7. b * (a * k) = (b * a) * k
  OBVIOUS
<1>8. c * d <= (b * a) * k
  <2>1. PICK x \in Nat, y \in Nat, z \in Nat : x = c * d /\ y = b * m /\ z = (b * a) * k
    OBVIOUS
  <2>2. x <= y /\ y <= z
    BY <1>3, <1>6, <1>7, <2>1
  <2> QED BY <2>1, <2>2
<1> QED BY <1>1, <1>5, <1>8

\* Rounding down and up, of the second token
LEMMA Amount1DownIs ==
    ASSUME NEW a \in Nat, NEW b \in Nat, b >= a, NEW l \in Nat, NEW n, n = Amount1(a, b, l, FALSE)
    PROVE  n \in Nat /\ Q96 * n <= l * (b - a) /\ l * (b - a) < Q96 * n + Q96
<1>1. Q96 \in Nat \ {0} /\ b - a \in Nat
  BY PoolMathAssumption
<1>2. n = MulDiv(l, b - a, Q96)
  BY DEF Amount1
<1> QED BY <1>1, <1>2, MulDivNat

LEMMA Amount1UpIs ==
    ASSUME NEW a \in Nat, NEW b \in Nat, b >= a, NEW l \in Nat, NEW n, n = Amount1(a, b, l, TRUE)
    PROVE  n \in Nat /\ l * (b - a) <= Q96 * n
<1>1. Q96 \in Nat \ {0} /\ b - a \in Nat
  BY PoolMathAssumption
<1>2. n = MulDivUp(l, b - a, Q96)
  BY DEF Amount1
<1> QED BY <1>1, <1>2, MulDivUpNat

\* The lower price n leaves no more of the first token than the price p and what is paid
\* between them; m is the highest price.
LEMMA WorthFalls0 ==
    ASSUME NEW n \in Nat \ {0}, NEW p \in Nat, n <= p, NEW m \in Nat, p <= m, NEW l \in Nat
    PROVE  Amount0(n, m, l, FALSE) <= Amount0(p, m, l, FALSE) + Amount0(n, p, l, TRUE)
<1>1. PICK c \in Nat : c = l * Q96
  BY PoolMathAssumption
<1>2. PICK x, y, u :
        x = Amount0(n, m, l, FALSE) /\ y = Amount0(p, m, l, FALSE) /\ u = Amount0(n, p, l, TRUE)
  OBVIOUS
<1>3. p \in Nat \ {0} /\ m >= n /\ m >= p /\ p >= n /\ m \in Nat \ {0}
  OBVIOUS
<1>4. x \in Nat /\ (m * n) * x <= c * (m - n)
  BY <1>1, <1>2, <1>3, Amount0DownIs
<1>5. y \in Nat /\ c * (m - p) < (m * p) * y + m * p
  BY <1>1, <1>2, <1>3, Amount0DownIs
<1>6. u \in Nat /\ c * (p - n) <= (p * n) * u
  BY <1>1, <1>2, <1>3, Amount0UpIs
<1>7. PICK w \in Nat \ {0} : w = m * n * p
  <2>1. m * n \in Nat \ {0}
    BY <1>3
  <2>2. (m * n) * p \in Nat \ {0}
    BY <1>3, <2>1
  <2> QED BY <2>2
<1>8. p * ((m * n) * x) <= p * (c * (m - n))
  <2>1. PICK s \in Nat, t \in Nat : s = (m * n) * x /\ t = c * (m - n) /\ s <= t
    BY <1>3, <1>4
  <2> QED BY <2>1
<1>9. n * (c * (m - p)) < n * ((m * p) * y + m * p)
  <2>1. PICK s \in Nat, t \in Nat : s = c * (m - p) /\ t = (m * p) * y + m * p /\ s < t
    BY <1>3, <1>5
  <2> QED BY <2>1
<1>10. m * (c * (p - n)) <= m * ((p * n) * u)
  <2>1. PICK s \in Nat, t \in Nat : s = c * (p - n) /\ t = (p * n) * u /\ s <= t
    BY <1>3, <1>6
  <2> QED BY <2>1
<1>11. /\ p * ((m * n) * x) = w * x /\ n * ((m * p) * y + m * p) = w * y + w
       /\ m * ((p * n) * u) = w * u
  BY <1>4, <1>5, <1>6, <1>7
<1>12. p * (c * (m - n)) = n * (c * (m - p)) + m * (c * (p - n))
  OBVIOUS
<1>13. w * x < w * y + w + w * u
  <2>1. PICK s \in Int, t \in Int, r \in Int : s = p * (c * (m - n)) /\ t = n * (c * (m - p)) /\ r = m * (c * (p - n))
    OBVIOUS
  <2>2. PICK wx \in Int, wy \in Int, wu \in Int : wx = w * x /\ wy = w * y /\ wu = w * u
    BY <1>4, <1>5, <1>6
  <2> QED BY <1>8, <1>9, <1>10, <1>11, <1>12, <2>1, <2>2
<1>14. x < y + 1 + u
  <2>1. PICK z \in Nat : z = y + 1 + u
    BY <1>5, <1>6
  <2>2. w * z = w * y + w + w * u
    BY <1>5, <1>6, <2>1
  <2>3. w * x < w * z
    BY <1>13, <2>2
  <2>4. z <= x => w * z <= w * x
    BY <1>4
  <2>5. w * x \in Int /\ w * z \in Int
    BY <1>4
  <2> QED BY <1>4, <2>1, <2>3, <2>4, <2>5
<1>15. x <= y + u
  BY <1>4, <1>5, <1>6, <1>14
<1> QED BY <1>2, <1>15, Zenon

\* The higher price n leaves so much less of the first token as is given between them.
LEMMA WorthRises0 ==
    ASSUME NEW p \in Nat \ {0}, NEW n \in Nat, p <= n, NEW m \in Nat, n <= m, NEW l \in Nat
    PROVE  Amount0(n, m, l, FALSE) + Amount0(p, n, l, FALSE) <= Amount0(p, m, l, FALSE)
<1>1. PICK c \in Nat : c = l * Q96
  BY PoolMathAssumption
<1>2. PICK x, y, v :
        x = Amount0(n, m, l, FALSE) /\ y = Amount0(p, m, l, FALSE) /\ v = Amount0(p, n, l, FALSE)
  OBVIOUS
<1>3. n \in Nat \ {0} /\ m >= n /\ m >= p /\ n >= p /\ m \in Nat \ {0}
  OBVIOUS
<1>4. x \in Nat /\ (m * n) * x <= c * (m - n)
  BY <1>1, <1>2, <1>3, Amount0DownIs
<1>5. y \in Nat /\ c * (m - p) < (m * p) * y + m * p
  BY <1>1, <1>2, <1>3, Amount0DownIs
<1>6. v \in Nat /\ (n * p) * v <= c * (n - p)
  BY <1>1, <1>2, <1>3, Amount0DownIs
<1>7. PICK w \in Nat \ {0} : w = m * n * p
  <2>1. m * n \in Nat \ {0}
    BY <1>3
  <2>2. (m * n) * p \in Nat \ {0}
    BY <1>3, <2>1
  <2> QED BY <2>2
<1>8. p * ((m * n) * x) <= p * (c * (m - n))
  <2>1. PICK s \in Nat, t \in Nat : s = (m * n) * x /\ t = c * (m - n) /\ s <= t
    BY <1>3, <1>4
  <2> QED BY <2>1
<1>9. n * (c * (m - p)) < n * ((m * p) * y + m * p)
  <2>1. PICK s \in Nat, t \in Nat : s = c * (m - p) /\ t = (m * p) * y + m * p /\ s < t
    BY <1>3, <1>5
  <2> QED BY <1>3, <2>1
<1>10. m * ((n * p) * v) <= m * (c * (n - p))
  <2>1. PICK s \in Nat, t \in Nat : s = (n * p) * v /\ t = c * (n - p) /\ s <= t
    BY <1>3, <1>6
  <2> QED BY <2>1
<1>11. /\ p * ((m * n) * x) = w * x /\ n * ((m * p) * y + m * p) = w * y + w
       /\ m * ((n * p) * v) = w * v
  BY <1>4, <1>5, <1>6, <1>7
<1>12. p * (c * (m - n)) + m * (c * (n - p)) = n * (c * (m - p))
  OBVIOUS
<1>13. w * x + w * v < w * y + w
  <2>1. PICK s \in Int, t \in Int, r \in Int : s = p * (c * (m - n)) /\ t = n * (c * (m - p)) /\ r = m * (c * (n - p))
    OBVIOUS
  <2>2. PICK wx \in Int, wy \in Int, wv \in Int : wx = w * x /\ wy = w * y /\ wv = w * v
    BY <1>4, <1>5, <1>6
  <2> QED BY <1>8, <1>9, <1>10, <1>11, <1>12, <2>1, <2>2
<1>14. x + v < y + 1
  <2>1. PICK z \in Nat, a \in Nat : z = y + 1 /\ a = x + v
    BY <1>4, <1>5, <1>6
  <2>2. w * z = w * y + w /\ w * a = w * x + w * v
    BY <1>4, <1>5, <1>6, <2>1
  <2>3. w * a < w * z
    BY <1>13, <2>2
  <2>4. z <= a => w * z <= w * a
    OBVIOUS
  <2>5. w * a \in Int /\ w * z \in Int
    OBVIOUS
  <2> QED BY <2>1, <2>3, <2>4, <2>5
<1>15. x + v <= y
  BY <1>4, <1>5, <1>6, <1>14
<1> QED BY <1>2, <1>15, Zenon

\* The same of the second token; m is the lowest price.
LEMMA WorthRises1 ==
    ASSUME NEW m \in Nat, NEW p \in Nat, m <= p, NEW n \in Nat, p <= n, NEW l \in Nat
    PROVE  Amount1(m, n, l, FALSE) <= Amount1(m, p, l, FALSE) + Amount1(p, n, l, TRUE)
<1>1. PICK q \in Nat \ {0} : q = Q96
  BY PoolMathAssumption
<1>2. PICK x, y, u :
        x = Amount1(m, n, l, FALSE) /\ y = Amount1(m, p, l, FALSE) /\ u = Amount1(p, n, l, TRUE)
  OBVIOUS
<1>3. n >= m /\ p >= m /\ n >= p
  OBVIOUS
<1>4. x \in Nat /\ q * x <= l * (n - m)
  BY <1>1, <1>2, <1>3, Amount1DownIs
<1>5. y \in Nat /\ l * (p - m) < q * y + q
  BY <1>1, <1>2, <1>3, Amount1DownIs
<1>6. u \in Nat /\ l * (n - p) <= q * u
  BY <1>1, <1>2, <1>3, Amount1UpIs
<1>7. l * (n - m) = l * (p - m) + l * (n - p)
  OBVIOUS
<1>8. q * x < q * y + q + q * u
  <2>1. PICK s \in Int, t \in Int, r \in Int : s = l * (n - m) /\ t = l * (p - m) /\ r = l * (n - p)
    OBVIOUS
  <2>2. PICK a \in Int, b \in Int, d \in Int : a = q * x /\ b = q * y /\ d = q * u
    BY <1>4, <1>5, <1>6
  <2> QED BY <1>4, <1>5, <1>6, <1>7, <2>1, <2>2
<1>9. x < y + 1 + u
  <2>1. PICK z \in Nat : z = y + 1 + u
    BY <1>5, <1>6
  <2>2. q * z = q * y + q + q * u
    BY <1>5, <1>6, <2>1
  <2>3. q * x < q * z
    BY <1>8, <2>2
  <2>4. z <= x => q * z <= q * x
    BY <1>4
  <2>5. q * x \in Int /\ q * z \in Int
    BY <1>4
  <2> QED BY <1>4, <2>1, <2>3, <2>4, <2>5
<1>10. x <= y + u
  BY <1>4, <1>5, <1>6, <1>9
<1> QED BY <1>2, <1>10, Zenon

\* The lower price n leaves so much less of the second token as is given between them.
LEMMA WorthFalls1 ==
    ASSUME NEW m \in Nat, NEW n \in Nat, m <= n, NEW p \in Nat, n <= p, NEW l \in Nat
    PROVE  Amount1(m, n, l, FALSE) + Amount1(n, p, l, FALSE) <= Amount1(m, p, l, FALSE)
<1>1. PICK q \in Nat \ {0} : q = Q96
  BY PoolMathAssumption
<1>2. PICK x, y, v :
        x = Amount1(m, n, l, FALSE) /\ y = Amount1(m, p, l, FALSE) /\ v = Amount1(n, p, l, FALSE)
  OBVIOUS
<1>3. n >= m /\ p >= m /\ p >= n
  OBVIOUS
<1>4. x \in Nat /\ q * x <= l * (n - m)
  BY <1>1, <1>2, <1>3, Amount1DownIs
<1>5. y \in Nat /\ l * (p - m) < q * y + q
  BY <1>1, <1>2, <1>3, Amount1DownIs
<1>6. v \in Nat /\ q * v <= l * (p - n)
  BY <1>1, <1>2, <1>3, Amount1DownIs
<1>7. l * (p - m) = l * (n - m) + l * (p - n)
  OBVIOUS
<1>8. q * x + q * v < q * y + q
  <2>1. PICK s \in Int, t \in Int, r \in Int : s = l * (n - m) /\ t = l * (p - m) /\ r = l * (p - n)
    OBVIOUS
  <2>2. PICK a \in Int, b \in Int, d \in Int : a = q * x /\ b = q * y /\ d = q * v
    BY <1>4, <1>5, <1>6
  <2> QED BY <1>4, <1>5, <1>6, <1>7, <2>1, <2>2
<1>9. x + v < y + 1
  <2>1. PICK z \in Nat, a \in Nat : z = y + 1 /\ a = x + v
    BY <1>4, <1>5, <1>6
  <2>2. q * z = q * y + q /\ q * a = q * x + q * v
    BY <1>4, <1>5, <1>6, <2>1
  <2>3. q * a < q * z
    BY <1>8, <2>2
  <2>4. z <= a => q * z <= q * a
    OBVIOUS
  <2>5. q * a \in Int /\ q * z \in Int
    OBVIOUS
  <2> QED BY <2>1, <2>3, <2>4, <2>5
<1>10. x + v <= y
  BY <1>4, <1>5, <1>6, <1>9
<1> QED BY <1>2, <1>10, Zenon

\* What a swap to the price p puts between the old price and the new one
LEMMA WorthMoves ==
    ASSUME NEW key \in PoolKeys, NEW l, l = Liquidity[key],
           NEW c \in MinRatio + 1 .. MaxRatio - 1, NEW t \in MinRatio + 1 .. MaxRatio - 1, t # c,
           NEW p \in MinRatio + 1 .. MaxRatio - 1, Between(c, t, p),
           NEW i \in {0, 1}, i = IF c > t THEN 0 ELSE 1
    PROVE  /\ PositionWorth(key, p, i, FALSE) <= PositionWorth(key, c, i, FALSE) + PaidFor(c, t, l, p)
           /\ PositionWorth(key, p, 1 - i, FALSE) + GivenFor(c, t, l, p)
                  <= PositionWorth(key, c, 1 - i, FALSE)
<1>1. PICK low \in Nat \ {0}, high \in Nat \ {0} : low = MinRatio /\ high = MaxRatio
  BY RatiosNat
<1>2. /\ c \in Nat \ {0} /\ t \in Nat \ {0} /\ p \in Nat \ {0} /\ l \in Nat
      /\ low <= c /\ c <= high /\ low <= p /\ p <= high
  BY <1>1, KeyParts
<1>3. CASE c > t
  <2>1. i = 0 /\ 1 - i = 1 /\ p <= c /\ c >= t
    BY <1>2, <1>3 DEF Between
  <2>2. Amount0(p, high, l, FALSE) <= Amount0(c, high, l, FALSE) + Amount0(p, c, l, TRUE)
    BY <1>2, <2>1, WorthFalls0
  <2>3. Amount1(low, p, l, FALSE) + Amount1(p, c, l, FALSE) <= Amount1(low, c, l, FALSE)
    BY <1>2, <2>1, WorthFalls1
  <2>4. PaidFor(c, t, l, p) = Amount0(p, c, l, TRUE) /\ GivenFor(c, t, l, p) = Amount1(p, c, l, FALSE)
    BY <2>1 DEF PaidFor, GivenFor
  <2>5. 0 # 1
    OBVIOUS
  <2>6. \A x : PositionWorth(key, x, 0, FALSE) = Amount0(x, high, l, FALSE)
               /\ PositionWorth(key, x, 1, FALSE) = Amount1(low, x, l, FALSE)
    BY <1>1, <2>5, Zenon DEF PositionWorth
  <2> QED BY <2>1, <2>2, <2>3, <2>4, <2>6, Zenon
<1>4. CASE ~(c > t)
  <2>1. i = 1 /\ 1 - i = 0 /\ c <= p /\ ~(c >= t)
    BY <1>2, <1>4 DEF Between
  <2>2. Amount1(low, p, l, FALSE) <= Amount1(low, c, l, FALSE) + Amount1(c, p, l, TRUE)
    BY <1>2, <2>1, WorthRises1
  <2>3. Amount0(p, high, l, FALSE) + Amount0(c, p, l, FALSE) <= Amount0(c, high, l, FALSE)
    BY <1>2, <2>1, WorthRises0
  <2>4. PaidFor(c, t, l, p) = Amount1(c, p, l, TRUE) /\ GivenFor(c, t, l, p) = Amount0(c, p, l, FALSE)
    BY <2>1 DEF PaidFor, GivenFor
  <2>5. 0 # 1
    OBVIOUS
  <2>6. \A x : PositionWorth(key, x, 0, FALSE) = Amount0(x, high, l, FALSE)
               /\ PositionWorth(key, x, 1, FALSE) = Amount1(low, x, l, FALSE)
    BY <1>1, <2>5, Zenon DEF PositionWorth
  <2> QED BY <2>1, <2>2, <2>3, <2>4, <2>6, Zenon
<1> QED BY <1>3, <1>4

\* A fee that is credited is not owed more than once.
LEMMA GrowthOwed ==
    ASSUME NEW g \in Nat, NEW s \in Nat, NEW l \in Nat \ {0},
           NEW h, h = Wrap256(g + MulDiv(s, Q128, l))
    PROVE  /\ h \in Nat
           /\ MulDiv(h, l, Q128) \in Nat /\ MulDiv(g, l, Q128) \in Nat
           /\ MulDiv(h, l, Q128) <= MulDiv(g, l, Q128) + s
<1>1. PICK q \in Nat \ {0} : q = Q128
  BY PoolMathAssumption
<1>2. PICK a : a = MulDiv(s, q, l) /\ a \in Nat /\ l * a <= s * q
  BY MulDivNat
<1>3. PICK n \in Nat : n = g + a
  BY <1>2
<1>4. h \in Nat /\ h <= n
  <2>1. PICK d \in Nat \ {0} : d = q * q - 1 - 0 + 1
    OBVIOUS
  <2>2. n \in Int /\ n - 0 = n
    OBVIOUS
  <2>3. h = (n % d) + 0
    BY <1>1, <1>2, <1>3, <2>1, <2>2 DEF Wrap256, Hof
  <2>4. n % d \in 0 .. d - 1 /\ n % d = n - d * (n \div d)
    BY <2>2, ModIs
  <2>5. n \div d \in Nat
    BY DivNat
  <2>6. d * (n \div d) \in Nat
    BY <2>5
  <2> QED BY <2>3, <2>4, <2>6
<1>5. PICK x, y : x = MulDiv(h, l, q) /\ y = MulDiv(g, l, q)
  OBVIOUS
<1>6. l \in Nat
  OBVIOUS
<1>7. x \in Nat /\ q * x <= h * l
  BY <1>4, <1>5, <1>6, MulDivNat
<1>8. y \in Nat /\ g * l < q * y + q
  BY <1>5, <1>6, MulDivNat
<1>9. h * l <= g * l + l * a
  <2>1. h * l <= n * l
    BY <1>4
  <2>2. n * l = g * l + l * a
    BY <1>2, <1>3
  <2> QED BY <2>1, <2>2
<1>10. q * x < q * y + q + s * q
  <2>1. PICK b \in Int, d \in Int, e \in Int : b = h * l /\ d = g * l /\ e = l * a
    BY <1>2, <1>4
  <2>2. PICK qx \in Int, qy \in Int, sq \in Int : qx = q * x /\ qy = q * y /\ sq = s * q
    BY <1>7, <1>8
  <2> QED BY <1>2, <1>7, <1>8, <1>9, <2>1, <2>2
<1>11. x < y + 1 + s
  <2>1. PICK z \in Nat : z = y + 1 + s
    BY <1>8
  <2>2. q * z = q * y + q + s * q
    BY <1>8, <2>1
  <2>3. q * x < q * z
    BY <1>10, <2>2
  <2>4. z <= x => q * z <= q * x
    BY <1>7
  <2>5. q * x \in Int /\ q * z \in Int
    BY <1>7
  <2> QED BY <1>7, <2>1, <2>3, <2>4, <2>5
<1> QED BY <1>1, <1>4, <1>5, <1>7, <1>8, <1>11

\* What a pool owes in a state of it
OwedBy(key, pool, side) ==
    PositionWorth(key, pool.sqrtPrice, side, FALSE) + MulDiv(pool.feeGrowth[side], Liquidity[key], Q128)

\* It is what the property speaks of.
LEMMA OwedIs ==
    ASSUME NEW p, NEW key, NEW side
    PROVE  Owed(p, key, side) = OwedBy(key, p[key], side)
BY DEF Owed, OwedBy

\* What is owed is an amount.
LEMMA OwedNat ==
    ASSUME NEW key \in PoolKeys, NEW pool \in PoolStates, NEW side \in {0, 1}
    PROVE  OwedBy(key, pool, side) \in Nat /\ PositionWorth(key, pool.sqrtPrice, side, FALSE) \in Nat
<1>1. PICK c \in MinRatio + 1 .. MaxRatio - 1, growth \in [{0, 1} -> Nat] :
        c = pool.sqrtPrice /\ growth = pool.feeGrowth
  BY DEF PoolStates
<1>2. PICK low \in Nat \ {0}, high \in Nat \ {0} : low = MinRatio /\ high = MaxRatio
  BY RatiosNat
<1>3. PICK l \in Nat, q \in Nat \ {0} : l = Liquidity[key] /\ q = Q128
  BY KeyParts, PoolMathAssumption
<1>4. c \in Nat \ {0} /\ low <= c /\ c <= high
  BY <1>2
<1>5. Amount0(c, high, l, FALSE) \in Nat /\ Amount1(low, c, l, FALSE) \in Nat
  BY <1>4, Amount0DownIs, Amount1DownIs
<1>6. PositionWorth(key, c, side, FALSE) \in Nat
  BY <1>2, <1>3, <1>5 DEF PositionWorth
<1>7. growth[side] \in Nat
  BY <1>1
<1>8. MulDiv(growth[side], l, q) \in Nat
  BY <1>7, MulDivNat
<1>9. PICK x \in Nat, y \in Nat : x = PositionWorth(key, c, side, FALSE) /\ y = MulDiv(growth[side], l, q)
  BY <1>6, <1>8
<1>10. x + y \in Nat
  OBVIOUS
<1>11. OwedBy(key, pool, side) = x + y
  BY <1>1, <1>3, <1>9, Zenon DEF OwedBy
<1> QED BY <1>1, <1>6, <1>10, <1>11, Zenon

\* A swap of in, with a fee for the protocol, for out: what the pool owes afterwards is no
\* more than what it owed and what it has been paid or has given.
Owes(key, pool, new, in, out, fee, side) ==
    /\ OwedBy(key, new, side) + fee <= OwedBy(key, pool, side) + in
    /\ OwedBy(key, new, 1 - side) + out <= OwedBy(key, pool, 1 - side)

IsHop(swap, specified, key, pool, side, in, out, fee, new) ==
    /\ swap = [amountIn |-> in, amountOut |-> out, protocolFee |-> fee, pool |-> new]
    /\ specified > 0 => in <= specified
    /\ specified < 0 => out <= -specified
    /\ Owes(key, pool, new, in, out, fee, side)

\* A swap takes no more than an exact input, gives no more than an exact output, and leaves
\* its pool owing no more than it got beyond what it gave.
LEMMA HopOwes ==
    ASSUME NEW state \in [PoolKeys -> PoolStates], NEW key, NEW tokenIn \in Int, NEW tokenOut \in Int,
           NEW specified \in Int, NEW limit \in Nat \cup {None},
           NEW swap, swap = HopSwap(state, key, tokenIn, tokenOut, specified, limit), swap # Error,
           NEW side, side = IF tokenIn < tokenOut THEN 0 ELSE 1
    PROVE  /\ key \in PoolKeys /\ specified # 0
           /\ \E in \in Nat \ {0}, out \in Nat, fee \in Nat, new \in PoolStates :
                 IsHop(swap, specified, key, state[key], side, in, out, fee, new)
<1>1. PICK z \in BOOLEAN : z = (tokenIn < tokenOut)
  <2>1. CASE tokenIn < tokenOut
    <3>1. TRUE = (tokenIn < tokenOut)
      BY <2>1, Zenon
    <3> QED BY <3>1, Zenon
  <2>2. CASE ~(tokenIn < tokenOut)
    <3>1. FALSE = (tokenIn < tokenOut)
      BY <2>2
    <3> QED BY <3>1, Zenon
  <2> QED BY <2>1, <2>2
<1>2. PICK b : b = Limit(z, limit)
  OBVIOUS
<1>3. /\ key \in PoolKeys /\ SwapAllowed(state[key], z, specified, b)
      /\ swap = Swapped(key, state[key], z, specified, b) /\ swap.amountIn > 0
  BY <1>1, <1>2, Zenon DEF HopSwap
<1>4. PICK pool \in PoolStates : pool = state[key]
  BY <1>3
<1>5. b \in MinRatio + 1 .. MaxRatio - 1 /\ specified # 0
  BY <1>2, <1>3, <1>4, LimitIsPrice
<1>6. PICK c \in MinRatio + 1 .. MaxRatio - 1, growth \in [{0, 1} -> Nat] :
        c = pool.sqrtPrice /\ growth = pool.feeGrowth
  BY DEF PoolStates
<1>7. /\ b \in Nat \ {0} /\ c \in Nat \ {0} /\ key[3] \in 0 .. FeeUnit - 1 /\ Liquidity[key] \in Nat \ {0}
  BY <1>3, <1>5, KeyParts, RatiosNat
<1>8. PICK step : step = ComputeSwapStep(c, b, Liquidity[key], specified, key[3])
  OBVIOUS
<1>9. SwapStep(key, pool.sqrtPrice, b, specified) = step
  BY <1>6, <1>8 DEF SwapStep
<1>10. /\ Between(c, b, step.sqrtPrice)
       /\ step.amountIn \in Nat /\ step.amountOut \in Nat /\ step.feeAmount \in Nat
       /\ step.amountIn = PaidFor(c, b, Liquidity[key], step.sqrtPrice)
       /\ step.amountOut <= GivenFor(c, b, Liquidity[key], step.sqrtPrice)
       /\ specified >= 0 => step.amountIn + step.feeAmount <= specified
       /\ specified < 0 => step.amountOut <= -specified
  <2>1. PICK much \in Nat, rate \in 0 .. FeeUnit - 1 : much = Liquidity[key] /\ rate = key[3]
    BY <1>7
  <2>2. step = ComputeSwapStep(c, b, much, specified, rate)
    BY <1>8, <2>1
  <2>3. Stepped(step, c, b, much, specified)
    BY <1>7, <2>2, StepBetween
  <2> QED BY <2>1, <2>3, Zenon DEF Stepped
<1>11. PICK p \in MinRatio + 1 .. MaxRatio - 1 : p = step.sqrtPrice
  BY <1>5, <1>10, RatiosNat DEF Between
<1>12. PICK amount \in Nat, out \in Nat, fee \in Nat :
         amount = step.amountIn /\ out = step.amountOut /\ fee = step.feeAmount
  BY <1>10
<1>13. PICK share \in Nat : share = ProtocolShare(fee) /\ fee - share \in Nat
  <2>1. CASE FeeProtocol = 0
    BY <2>1 DEF ProtocolShare
  <2>2. CASE FeeProtocol # 0
    <3>1. PICK d \in Nat \ {0} : d = FeeProtocol
      BY <2>2, SwapRouterAssumption
    <3>2. PICK q \in Int : q = fee \div d /\ d * q <= fee /\ fee < d * q + d
      BY DivBounds
    <3>3. q \in Nat
      BY <3>2, DivNat
    <3>4. q <= d * q
      BY <3>3
    <3> QED BY <2>2, <3>1, <3>2, <3>3, <3>4 DEF ProtocolShare
  <2> QED BY <2>1, <2>2
<1>14. PICK i \in {0, 1} : i = IF z THEN 0 ELSE 1
  OBVIOUS
<1>15. PICK n \in Nat : n = Wrap256(growth[i] + MulDiv(fee - share, Q128, Liquidity[key]))
  <2>1. MulDiv(fee - share, Q128, Liquidity[key]) \in Nat
    <3>1. Q128 \in Nat
      BY PoolMathAssumption
    <3> QED BY <1>7, <1>13, <3>1, MulDivNat
  <2>2. growth[i] + MulDiv(fee - share, Q128, Liquidity[key]) \in Int
    BY <1>6, <1>14, <2>1
  <2> QED BY <2>2, WrapNat
<1>16. PICK new : new = [sqrtPrice |-> p, feeGrowth |-> [growth EXCEPT ![i] = n]]
  OBVIOUS
<1>17. new \in PoolStates
  <2>1. [growth EXCEPT ![i] = n] \in [{0, 1} -> Nat]
    BY <1>6, <1>14, <1>15
  <2> QED BY <1>11, <1>16, <2>1 DEF PoolStates
<1>18. swap = [amountIn |-> amount + fee, amountOut |-> out, protocolFee |-> share, pool |-> new]
  <2>1. ProvidersShare(fee) = fee - share
    BY <1>13 DEF ProvidersShare
  <2> QED BY <1>3, <1>4, <1>6, <1>9, <1>11, <1>12, <1>13, <1>14, <1>15, <1>16, <2>1, Zenon DEF Swapped
<1>19. swap.amountIn = amount + fee
  BY <1>18
<1>20. amount + fee \in Nat \ {0}
  BY <1>3, <1>19
<1>21. PICK in \in Nat \ {0} : in = amount + fee
  BY <1>20
<1>22. specified > 0 => in <= specified
  BY <1>10, <1>12, <1>21
<1>23. specified < 0 => out <= -specified
  BY <1>10, <1>12
<1>24. PICK l \in Nat \ {0}, low \in {0, 1} : l = Liquidity[key] /\ low = 1 - i
  <2>1. 1 - i \in {0, 1}
    BY <1>14
  <2> QED BY <1>7, <2>1
<1>25. /\ b # c /\ i = IF c > b THEN 0 ELSE 1
  <2>1. /\ z => b < c
        /\ ~z => b > c
    BY <1>2, <1>3, <1>4, <1>6, LimitIsPrice
  <2>2. b \in Nat /\ c \in Nat
    BY <1>7
  <2> QED BY <1>14, <2>1, <2>2
<1>26. PICK w1, w0, v1, v0 :
         /\ w1 = PositionWorth(key, p, i, FALSE) /\ w0 = PositionWorth(key, c, i, FALSE)
         /\ v1 = PositionWorth(key, p, low, FALSE) /\ v0 = PositionWorth(key, c, low, FALSE)
  OBVIOUS
<1>27. w1 \in Nat /\ w0 \in Nat /\ v1 \in Nat /\ v0 \in Nat
  <2>1. pool.sqrtPrice = c /\ new.sqrtPrice = p
    BY <1>6, <1>16
  <2>2. i \in {0, 1} /\ low \in {0, 1} /\ key \in PoolKeys
    BY <1>3
  <2>3. PositionWorth(key, pool.sqrtPrice, i, FALSE) \in Nat /\ PositionWorth(key, pool.sqrtPrice, low, FALSE) \in Nat
    BY <2>2, OwedNat
  <2>4. PositionWorth(key, new.sqrtPrice, i, FALSE) \in Nat /\ PositionWorth(key, new.sqrtPrice, low, FALSE) \in Nat
    BY <1>17, <2>2, OwedNat
  <2> QED BY <1>26, <2>1, <2>3, <2>4, Zenon
<1>28. w1 <= w0 + amount /\ v1 + out <= v0
  <2>1. PICK given : given = GivenFor(c, b, l, p) /\ given \in Nat /\ out <= given
    <3>1. Between(c, b, p) /\ l \in Nat
      BY <1>10, <1>11
    <3>2. GivenFor(c, b, l, p) \in Nat
      BY <1>7, <3>1, PaidNat
    <3> QED BY <1>10, <1>11, <1>12, <1>24, <3>2
  <2>2. amount = PaidFor(c, b, l, p)
    BY <1>10, <1>11, <1>12, <1>24
  <2>3. /\ PositionWorth(key, p, i, FALSE) <= PositionWorth(key, c, i, FALSE) + PaidFor(c, b, l, p)
        /\ PositionWorth(key, p, 1 - i, FALSE) + GivenFor(c, b, l, p) <= PositionWorth(key, c, 1 - i, FALSE)
    <3>1. Between(c, b, p) /\ key \in PoolKeys
      BY <1>3, <1>10, <1>11
    <3> QED BY <1>5, <1>24, <1>25, <3>1, WorthMoves
  <2>4. w1 <= w0 + amount /\ v1 + given <= v0
    BY <1>24, <1>26, <2>1, <2>2, <2>3, Zenon
  <2> QED BY <1>27, <2>1, <2>4
<1>29. PICK credit \in Nat : credit = fee - share
  BY <1>13
<1>30. PICK m1, m0, k \in Nat :
         /\ m1 = MulDiv(n, l, Q128) /\ m0 = MulDiv(growth[i], l, Q128) /\ m1 <= m0 + credit
         /\ k = MulDiv(growth[low], l, Q128)
  <2>1. growth[i] \in Nat /\ growth[low] \in Nat
    BY <1>6
  <2>2. n = Wrap256(growth[i] + MulDiv(credit, Q128, l))
    BY <1>15, <1>24, <1>29
  <2>3. /\ MulDiv(n, l, Q128) \in Nat /\ MulDiv(growth[i], l, Q128) \in Nat
        /\ MulDiv(n, l, Q128) <= MulDiv(growth[i], l, Q128) + credit
    BY <2>1, <2>2, GrowthOwed
  <2>4. PICK q \in Nat \ {0} : q = Q128
    BY PoolMathAssumption
  <2>5. MulDiv(growth[low], l, q) \in Nat
    <3>1. l \in Nat
      OBVIOUS
    <3> QED BY <2>1, <3>1, MulDivNat
  <2> QED BY <2>3, <2>4, <2>5
<1>31. /\ OwedBy(key, new, i) = w1 + m1 /\ OwedBy(key, pool, i) = w0 + m0
       /\ OwedBy(key, new, low) = v1 + k /\ OwedBy(key, pool, low) = v0 + k
  <2>1. new.sqrtPrice = p /\ new.feeGrowth[i] = n /\ new.feeGrowth[low] = growth[low]
    <3>1. low # i
      BY <1>24, <1>14
    <3> QED BY <1>6, <1>14, <1>15, <1>16, <3>1
  <2>2. pool.sqrtPrice = c /\ pool.feeGrowth = growth
    BY <1>6
  <2> QED BY <1>24, <1>26, <1>30, <2>1, <2>2, Zenon DEF OwedBy
<1>32. w1 + m1 + share <= w0 + m0 + in /\ v1 + k + out <= v0 + k
  BY <1>13, <1>21, <1>27, <1>28, <1>29, <1>30
<1>33. Owes(key, pool, new, in, out, share, i)
  BY <1>24, <1>31, <1>32, Zenon DEF Owes
<1>34. i = side
  BY <1>1, <1>14
<1>35. Owes(key, state[key], new, in, out, share, side)
  BY <1>4, <1>33, <1>34, Zenon
<1>36. swap = [amountIn |-> in, amountOut |-> out, protocolFee |-> share, pool |-> new]
  BY <1>18, <1>21
<1>37. IsHop(swap, specified, key, state[key], side, in, out, share, new)
  BY <1>22, <1>23, <1>35, <1>36, Zenon DEF IsHop
<1> QED BY <1>3, <1>5, <1>17, <1>37, Zenon

\* A swap keeps a pool a pool, takes no more than an exact input and gives no more than an
\* exact output.
LEMMA HopTyped ==
    ASSUME NEW state \in [PoolKeys -> PoolStates], NEW key, NEW tokenIn \in Int, NEW tokenOut \in Int,
           NEW specified \in Int, NEW limit \in Nat \cup {None},
           NEW swap, swap = HopSwap(state, key, tokenIn, tokenOut, specified, limit), swap # Error
    PROVE  /\ key \in PoolKeys /\ specified # 0
           /\ \E in \in Nat \ {0}, out \in Nat, fee \in Nat, pool \in PoolStates :
                 /\ swap = [amountIn |-> in, amountOut |-> out, protocolFee |-> fee, pool |-> pool]
                 /\ specified > 0 => in <= specified
                 /\ specified < 0 => out <= -specified
<1>1. PICK side : side = IF tokenIn < tokenOut THEN 0 ELSE 1
  OBVIOUS
<1>2. /\ key \in PoolKeys /\ specified # 0
      /\ \E in \in Nat \ {0}, out \in Nat, fee \in Nat, new \in PoolStates :
            IsHop(swap, specified, key, state[key], side, in, out, fee, new)
  BY <1>1, HopOwes
<1> QED BY <1>2, Zenon DEF IsHop

-----------------------------------------------------------------------------
(* Paths *)

\* The number of pools of a path
LEMMA OddLength ==
    ASSUME NEW path, OddPath(path)
    PROVE  \E n \in Nat \ {0} : Len(path) = 2 * n + 1 /\ NumPools(path) = n
<1>1. PICK n \in Nat \ {0} : Len(path) = 2 * n + 1
  BY DEF OddPath
<1>2. (2 * n) \div 2 = n
  BY DivIs
<1> QED BY <1>1, <1>2 DEF NumPools

\* The pool of a hop
LEMMA HopKeyIs ==
    ASSUME NEW path, OddPath(path), NEW i \in 1 .. NumPools(path)
    PROVE  FirstPoolKey(Hop(path, i)) = PoolKey(path[2 * i - 1], path[2 * i + 1], path[2 * i])
<1>1. PICK n \in Nat \ {0} : Len(path) = 2 * n + 1 /\ NumPools(path) = n
  BY OddLength
<1>2. PICK a \in Nat, b \in Nat : a = 2 * i - 1 /\ b = 2 * i + 1 /\ 1 <= a /\ b <= Len(path) /\ b = a + 2
  BY <1>1
<1>3. path \in Seq(Nat)
  BY DEF OddPath
<1>4. \A j \in a .. b : path[j] \in Nat
  BY <1>2, <1>3
<1>5. PICK s : s = SubSeq(path, a, b)
  OBVIOUS
<1>6. \A j \in 1 .. b - a + 1 : s[j] = path[a + j - 1]
  <2>1. a \in Int /\ b \in Int
    OBVIOUS
  <2> QED BY <1>4, <1>5, <2>1, SubSeqProperties
<1>7. s[1] = path[a] /\ s[2] = path[a + 1] /\ s[3] = path[b]
  <2>1. b - a + 1 = 3 /\ a + 1 - 1 = a /\ a + 2 - 1 = a + 1 /\ a + 3 - 1 = b
    BY <1>2
  <2>2. \A j \in 1 .. 3 : s[j] = path[a + j - 1]
    BY ONLY <1>6, <2>1, Zenon
  <2>3. s[1] = path[a + 1 - 1] /\ s[2] = path[a + 2 - 1] /\ s[3] = path[a + 3 - 1]
    BY ONLY <2>2
  <2> QED BY ONLY <2>1, <2>3, Zenon
<1>8. Hop(path, i) = s
  BY <1>2, <1>5 DEF Hop
<1>9. 2 * i = a + 1
  BY <1>2
<1>10. FirstPoolKey(s) = PoolKey(path[a], path[b], path[a + 1])
  BY <1>7, Zenon DEF FirstPoolKey
<1> QED BY <1>2, <1>8, <1>9, <1>10, Zenon

\* The first and the last of a path are its own.
LEMMA PathParts ==
    ASSUME NEW path, OddPath(path)
    PROVE  /\ Len(path) \in Nat /\ Len(path) >= 3
           /\ path[1] \in Nat /\ path[2] \in Nat /\ path[3] \in Nat /\ LastToken(path) \in Nat
           /\ {path[1], path[3], LastToken(path)} \subseteq TokensOf(path)
           /\ FirstPoolKey(path) \in PoolsOf(path)
<1>1. PICK n \in Nat \ {0} : Len(path) = 2 * n + 1 /\ NumPools(path) = n
  BY OddLength
<1>2. path \in Seq(Nat)
  BY DEF OddPath
<1>3. /\ path[1] \in Nat /\ path[2] \in Nat /\ path[3] \in Nat /\ path[Len(path)] \in Nat
  BY <1>1, <1>2
<1>4. \A i \in 1 .. n + 1 : path[2 * i - 1] \in TokensOf(path)
  BY <1>1 DEF TokensOf
<1>5. path[2 * 1 - 1] \in TokensOf(path) /\ path[2 * 2 - 1] \in TokensOf(path)
      /\ path[2 * (n + 1) - 1] \in TokensOf(path)
  BY <1>4
<1>6. 2 * 1 - 1 = 1 /\ 2 * 2 - 1 = 3 /\ 2 * (n + 1) - 1 = Len(path)
  BY <1>1
<1>7. {path[1], path[3], path[Len(path)]} \subseteq TokensOf(path)
  BY <1>5, <1>6
<1>8. FirstPoolKey(path) \in PoolsOf(path)
  <2>1. 1 \in 1 .. NumPools(path)
    BY <1>1
  <2>2. FirstPoolKey(Hop(path, 1)) = PoolKey(path[2 * 1 - 1], path[2 * 1 + 1], path[2 * 1])
    BY <2>1, HopKeyIs
  <2>3. 2 * 1 - 1 = 1 /\ 2 * 1 + 1 = 3 /\ 2 * 1 = 2
    OBVIOUS
  <2>4. FirstPoolKey(Hop(path, 1)) = FirstPoolKey(path)
    BY <2>2, <2>3 DEF FirstPoolKey
  <2> QED BY <2>1, <2>4 DEF PoolsOf
<1> QED BY <1>1, <1>3, <1>7, <1>8 DEF LastToken

\* What is left of a path after its first pool
LEMMA Skipped ==
    ASSUME NEW path, OddPath(path), HasMultiplePools(path), NEW rest, rest = SkipToken(path)
    PROVE  /\ OddPath(rest) /\ LastToken(rest) = LastToken(path) /\ rest[1] = path[3]
           /\ PoolsOf(rest) \subseteq PoolsOf(path) /\ TokensOf(rest) \subseteq TokensOf(path)
           /\ TokensOf(path) \subseteq {path[1]} \cup TokensOf(rest)
<1>1. PICK n \in Nat \ {0} : Len(path) = 2 * n + 1 /\ NumPools(path) = n
  BY OddLength
<1>2. n - 1 \in Nat \ {0}
  BY <1>1 DEF HasMultiplePools
<1>3. path \in Seq(Nat)
  BY DEF OddPath
<1>4. \A j \in 3 .. Len(path) : path[j] \in Nat
  BY <1>1, <1>3
<1>5. /\ rest \in Seq(Nat) /\ Len(rest) = Len(path) - 2
      /\ \A j \in 1 .. Len(path) - 2 : rest[j] = path[j + 2]
  <2>1. /\ rest \in Seq(Nat) /\ Len(rest) = IF 3 <= Len(path) THEN Len(path) - 3 + 1 ELSE 0
        /\ \A j \in 1 .. Len(path) - 3 + 1 : rest[j] = path[3 + j - 1]
    BY <1>1, <1>4, SubSeqProperties DEF SkipToken
  <2>2. \A j \in 1 .. Len(path) - 2 : rest[j] = path[j + 2]
    BY <1>1, <2>1
  <2> QED BY <1>1, <2>1, <2>2
<1>6. OddPath(rest) /\ Len(rest) = 2 * (n - 1) + 1
  <2>1. PICK m \in Nat \ {0} : m = n - 1
    BY <1>2
  <2>2. Len(rest) = 2 * m + 1
    BY <1>1, <1>5, <2>1
  <2> QED BY <1>5, <2>1, <2>2 DEF OddPath
<1>7. NumPools(rest) = n - 1
  <2>1. (2 * (n - 1)) \div 2 = n - 1
    BY <1>2, DivIs
  <2>2. Len(rest) - 1 = 2 * (n - 1)
    BY <1>6
  <2> QED BY <2>1, <2>2 DEF NumPools
<1>8. LastToken(rest) = LastToken(path) /\ rest[1] = path[3]
  BY <1>1, <1>5, <1>6, <1>2 DEF LastToken
<1>9. ASSUME NEW i \in 1 .. n - 1
      PROVE  FirstPoolKey(Hop(rest, i)) \in PoolsOf(path)
  <2>1. PICK j \in 1 .. n : j = i + 1
    OBVIOUS
  <2>2. rest[2 * i - 1] = path[2 * j - 1] /\ rest[2 * i] = path[2 * j] /\ rest[2 * i + 1] = path[2 * j + 1]
    BY SMTT(40), <1>1, <1>5, <2>1
  <2>3. FirstPoolKey(Hop(rest, i)) = FirstPoolKey(Hop(path, j))
    BY <1>1, <1>6, <1>7, <2>2, HopKeyIs
  <2> QED BY <1>1, <2>3 DEF PoolsOf
<1>10. PoolsOf(rest) \subseteq PoolsOf(path)
  BY <1>7, <1>9 DEF PoolsOf
<1>11. ASSUME NEW i \in 1 .. n
       PROVE  rest[2 * i - 1] = path[2 * (i + 1) - 1]
  BY <1>1, <1>5
<1>12. TokensOf(rest) = {rest[2 * i - 1] : i \in 1 .. n}
  BY <1>2, <1>7 DEF TokensOf
<1>13. TokensOf(path) = {path[2 * i - 1] : i \in 1 .. n + 1}
  BY <1>1 DEF TokensOf
<1>14. TokensOf(rest) \subseteq TokensOf(path)
  <2> SUFFICES ASSUME NEW i \in 1 .. n PROVE rest[2 * i - 1] \in TokensOf(path)
    BY <1>12
  <2>1. i + 1 \in 1 .. n + 1
    OBVIOUS
  <2> QED BY <1>11, <1>13, <2>1
<1>15. TokensOf(path) \subseteq {path[1]} \cup TokensOf(rest)
  <2> SUFFICES ASSUME NEW i \in 1 .. n + 1 PROVE path[2 * i - 1] \in {path[1]} \cup TokensOf(rest)
    BY <1>13
  <2>1. CASE i = 1
    BY <2>1
  <2>2. CASE i # 1
    <3>1. PICK j \in 1 .. n : i = j + 1
      BY <2>2
    <3> QED BY <1>11, <1>12, <3>1
  <2> QED BY <2>1, <2>2
<1> QED BY <1>6, <1>8, <1>10, <1>14, <1>15

\* A path of one pool: its tokens
LEMMA LastHop ==
    ASSUME NEW path, OddPath(path), ~HasMultiplePools(path)
    PROVE  LastToken(path) = path[3] /\ TokensOf(path) \subseteq {path[1], path[3]}
<1>1. PICK n \in Nat \ {0} : Len(path) = 2 * n + 1 /\ NumPools(path) = n
  BY OddLength
<1>2. n = 1 /\ Len(path) = 3
  BY <1>1 DEF HasMultiplePools
<1>3. TokensOf(path) = {path[2 * i - 1] : i \in 1 .. 2}
  BY <1>1, <1>2 DEF TokensOf
<1> QED BY <1>2, <1>3 DEF LastToken

\* A pool exchanges two tokens that there are.
LEMMA KeyTokens ==
    ASSUME NEW path, path[1] \in Nat, path[3] \in Nat, FirstPoolKey(path) \in PoolKeys
    PROVE  path[1] \in Tokens /\ path[3] \in Tokens /\ path[1] # path[3]
<1>1. PICK a, b, f, key :
        a \in Nat /\ b \in Nat /\ a = path[1] /\ b = path[3] /\ f = path[2] /\ key = <<Min({a, b}), Max({a, b}), f>>
  OBVIOUS
<1>2. key = FirstPoolKey(path)
  BY <1>1, Zenon DEF FirstPoolKey, PoolKey
<1>3. key[1] \in Tokens /\ key[2] \in Tokens /\ key[1] < key[2]
  BY <1>2, KeyParts
<1>4. Min({a, b}) \in Tokens /\ Max({a, b}) \in Tokens /\ Min({a, b}) < Max({a, b})
  BY <1>1, <1>3
<1>5. Min({a, b}) = (IF a <= b THEN a ELSE b) /\ Max({a, b}) = (IF a <= b THEN b ELSE a)
  BY <1>1, LeastOfTwo, GreatestOfTwo
<1> QED BY <1>1, <1>4, <1>5

-----------------------------------------------------------------------------
(* Balances and totals *)

\* There are finitely many accounts.
LEMMA FewAccounts == IsFiniteSet(Accounts)
<1>1. IsFiniteSet(PoolKeys) /\ IsFiniteSet(DOMAIN Holdings) /\ IsFiniteSet({Router, Treasury})
  <2>1. IsFiniteSet({Router}) /\ IsFiniteSet({Treasury})
    BY FS_Singleton
  <2>2. IsFiniteSet({Router} \cup {Treasury})
    BY <2>1, FS_Union
  <2>3. {Router} \cup {Treasury} = {Router, Treasury}
    OBVIOUS
  <2> QED BY <2>2, <2>3, SwapRouterAssumption
<1>2. IsFiniteSet(PoolKeys \cup DOMAIN Holdings)
  BY <1>1, FS_Union
<1> QED BY <1>1, <1>2, FS_Union DEF Accounts

\* Pools, holders, the router and the treasury are different accounts.
LEMMA WhoIsWho ==
    /\ Sender \in Accounts /\ Router \in Accounts /\ Treasury \in Accounts
    /\ Sender \in DOMAIN Holdings /\ Sender \notin PoolKeys
    /\ Sender # Router /\ Sender # Treasury /\ Router # Treasury
    /\ Router \notin PoolKeys /\ Treasury \notin PoolKeys
    /\ Router \notin DOMAIN Holdings /\ Treasury \notin DOMAIN Holdings
    /\ PoolKeys \subseteq Accounts /\ DOMAIN Holdings \subseteq Accounts
    /\ PoolKeys \cap DOMAIN Holdings = {} /\ Zero \notin Accounts
BY SwapRouterAssumption DEF Accounts

\* c is b after a transfer.
IsMoved(c, b, from, to, token, amount) ==
    \A a \in Accounts, t \in Tokens :
        c[a][t] = b[a][t] - (IF a = from /\ t = token THEN amount ELSE 0)
                          + (IF a = to /\ t = token THEN amount ELSE 0)

\* What a transfer does to balances
LEMMA TransferredIs ==
    ASSUME NEW b \in Balances, NEW from \in Accounts, NEW to \in Accounts, NEW token \in Tokens,
           NEW amount \in Int, NEW r, r = Transferred(b, from, to, token, amount)
    PROVE  /\ r \in Balances
           /\ IsMoved(r, b, from, to, token, amount)
           /\ \A a \in Accounts \ {from, to} : r[a] = b[a]
<1>1. PICK m : m = [b EXCEPT ![from] = [b[from] EXCEPT ![token] = b[from][token] - amount]]
  OBVIOUS
<1>2. b[from] \in Amounts /\ b[from][token] - amount \in Int
  BY DEF Balances, Amounts
<1>3. m \in Balances
  BY <1>1, <1>2 DEF Balances, Amounts
<1>4. \A a \in Accounts, t \in Tokens :
          m[a][t] = b[a][t] - (IF a = from /\ t = token THEN amount ELSE 0)
  BY <1>1, <1>2 DEF Balances, Amounts
<1>5. r = [m EXCEPT ![to] = [m[to] EXCEPT ![token] = m[to][token] + amount]]
  BY <1>1 DEF Transferred
<1>6. m[to] \in Amounts /\ m[to][token] + amount \in Int
  BY <1>3 DEF Balances, Amounts
<1>7. r \in Balances
  BY <1>3, <1>5, <1>6 DEF Balances, Amounts
<1>8. \A a \in Accounts, t \in Tokens :
          r[a][t] = m[a][t] + (IF a = to /\ t = token THEN amount ELSE 0)
  BY <1>3, <1>5, <1>6 DEF Balances, Amounts
<1>9. \A a \in Accounts \ {from, to} : r[a] = b[a]
  BY <1>1, <1>3, <1>5 DEF Balances
<1>10. ASSUME NEW a \in Accounts, NEW t \in Tokens
       PROVE  r[a][t] = b[a][t] - (IF a = from /\ t = token THEN amount ELSE 0)
                                + (IF a = to /\ t = token THEN amount ELSE 0)
  BY <1>4, <1>8
<1> QED BY <1>7, <1>9, <1>10 DEF IsMoved

IsShifted(b, l, c, m, t, from, to, d) ==
    \A a \in Accounts : c[a][t] + m[a][t] = b[a][t] + l[a][t]
        - (IF a = from THEN d ELSE 0) + (IF a = to THEN d ELSE 0)

\* What one account loses and another gets is still there.
LEMMA TotalMoved ==
    ASSUME NEW b \in Balances, NEW l \in Balances, NEW c \in Balances, NEW m \in Balances,
           NEW t \in Tokens, NEW from \in Accounts, NEW to \in Accounts, NEW d \in Int,
           IsShifted(b, l, c, m, t, from, to, d)
    PROVE  Total(c, m, t) = Total(b, l, t)
<1>1. PICK f, g, h :
        /\ f = [a \in Accounts |-> b[a][t] + l[a][t]]
        /\ g = [a \in Accounts |-> f[a] - (IF a = from THEN d ELSE 0)]
        /\ h = [a \in Accounts |-> c[a][t] + m[a][t]]
  OBVIOUS
<1>2. \A a \in Accounts : b[a][t] \in Int /\ l[a][t] \in Int /\ c[a][t] \in Int /\ m[a][t] \in Int
  BY DEF Balances, Amounts
<1>3. \A a \in Accounts : f[a] \in Int /\ g[a] \in Int /\ h[a] \in Int
  BY <1>1, <1>2
<1>4. \A a \in Accounts : a # from => g[a] = f[a]
  BY <1>1, <1>3
<1>5. \A a \in Accounts : h[a] = g[a] + (IF a = to THEN d ELSE 0)
  BY <1>1, <1>2 DEF IsShifted
<1>6. SumFunctionOnSet(g, Accounts) = SumFunctionOnSet(f, Accounts) - f[from] + g[from]
  BY <1>3, <1>4, FewAccounts, SumUpdate
<1>7. \A a \in Accounts : a # to => h[a] = g[a]
  BY <1>3, <1>5
<1>8. SumFunctionOnSet(h, Accounts) = SumFunctionOnSet(g, Accounts) - g[to] + h[to]
  BY <1>3, <1>7, FewAccounts, SumUpdate
<1>9. g[from] = f[from] - d /\ h[to] = g[to] + d
  BY <1>1, <1>5
<1>10. SumFunctionOnSet(f, Accounts) \in Int /\ SumFunctionOnSet(g, Accounts) \in Int
       /\ SumFunctionOnSet(h, Accounts) \in Int
  BY <1>3, FewAccounts, SumInt
<1>11. SumFunctionOnSet(h, Accounts) = SumFunctionOnSet(f, Accounts)
  BY <1>3, <1>6, <1>8, <1>9, <1>10
<1> QED BY <1>1, <1>11 DEF Total

\* A transfer keeps the total of each token.
LEMMA TransferredTotal ==
    ASSUME NEW b \in Balances, NEW l \in Balances, NEW from \in Accounts, NEW to \in Accounts,
           NEW token \in Tokens, NEW amount \in Int, NEW r, r = Transferred(b, from, to, token, amount)
    PROVE  \A t \in Tokens : Total(r, l, t) = Total(b, l, t)
<1> SUFFICES ASSUME NEW t \in Tokens PROVE Total(r, l, t) = Total(b, l, t)
  OBVIOUS
<1>1. PICK d \in Int : d = IF t = token THEN amount ELSE 0
  OBVIOUS
<1>2. r \in Balances /\ IsMoved(r, b, from, to, token, amount)
  BY TransferredIs
<1>3. ASSUME NEW a \in Accounts
      PROVE  r[a][t] + l[a][t] = b[a][t] + l[a][t] - (IF a = from THEN d ELSE 0) + (IF a = to THEN d ELSE 0)
  <2>1. b[a][t] \in Int /\ l[a][t] \in Int /\ r[a][t] \in Int
    BY <1>2 DEF Balances, Amounts
  <2> QED BY <1>1, <1>2, <2>1 DEF IsMoved
<1>4. IsShifted(b, l, r, l, t, from, to, d)
  BY <1>3 DEF IsShifted
<1> QED BY <1>2, <1>4, TotalMoved

\* The share of the protocol goes to the treasury or is locked where it is.
LEMMA ToProtocolIs ==
    ASSUME balance \in Balances, locked \in Balances, NEW key \in PoolKeys, NEW token \in Tokens,
           NEW amount \in Int, NEW b, b = ToProtocol(balance, key, token, amount),
           NEW l, l = LockedBy(key, token, amount)
    PROVE  /\ b \in Balances /\ l \in Balances
           /\ \A t \in Tokens : Total(b, l, t) = Total(balance, locked, t)
           /\ \A a \in Accounts \ {key, Treasury} : b[a] = balance[a]
           /\ \A a \in Accounts, t \in Tokens \ {token} : b[a][t] = balance[a][t]
<1>1. key \in Accounts /\ Treasury \in Accounts
  BY WhoIsWho
<1>2. CASE PaysTreasury
  <2>1. b = Transferred(balance, key, Treasury, token, amount) /\ l = locked
    BY <1>2 DEF ToProtocol, LockedBy
  <2>2. /\ b \in Balances
        /\ IsMoved(b, balance, key, Treasury, token, amount)
        /\ \A a \in Accounts \ {key, Treasury} : b[a] = balance[a]
    BY <1>1, <2>1, TransferredIs
  <2>3. \A t \in Tokens : Total(b, l, t) = Total(balance, locked, t)
    BY <1>1, <2>1, TransferredTotal
  <2>4. ASSUME NEW a \in Accounts, NEW t \in Tokens \ {token} PROVE b[a][t] = balance[a][t]
    <3>1. balance[a][t] \in Int
      BY DEF Balances, Amounts
    <3> QED BY <2>2, <3>1 DEF IsMoved
  <2> QED BY <2>1, <2>2, <2>3, <2>4
<1>3. CASE ~PaysTreasury
  <2>1. /\ b = [balance EXCEPT ![key] = [balance[key] EXCEPT ![token] = balance[key][token] - amount]]
        /\ l = [locked EXCEPT ![key] = [locked[key] EXCEPT ![token] = locked[key][token] + amount]]
    BY <1>3 DEF ToProtocol, LockedBy
  <2>2. balance[key][token] - amount \in Int /\ locked[key][token] + amount \in Int
        /\ balance[key] \in Amounts /\ locked[key] \in Amounts
    BY <1>1 DEF Balances, Amounts
  <2>3. b \in Balances /\ l \in Balances
    BY <1>1, <2>1, <2>2 DEF Balances, Amounts
  <2>4. \A a \in Accounts \ {key} : b[a] = balance[a] /\ l[a] = locked[a]
    BY <2>1 DEF Balances
  <2>5. \A t \in Tokens \ {token} : b[key][t] = balance[key][t] /\ l[key][t] = locked[key][t]
    BY <1>1, <2>1, <2>2 DEF Balances, Amounts
  <2>6. b[key][token] = balance[key][token] - amount /\ l[key][token] = locked[key][token] + amount
    BY <1>1, <2>1, <2>2 DEF Balances, Amounts
  <2>7. ASSUME NEW t \in Tokens PROVE Total(b, l, t) = Total(balance, locked, t)
    <3>1. ASSUME NEW a \in Accounts
          PROVE  b[a][t] + l[a][t] = balance[a][t] + locked[a][t]
                    - (IF a = key THEN 0 ELSE 0) + (IF a = key THEN 0 ELSE 0)
      <4>1. balance[a][t] \in Int /\ locked[a][t] \in Int
        BY DEF Balances, Amounts
      <4> QED BY <2>4, <2>5, <2>6, <4>1
    <3>2. IsShifted(balance, locked, b, l, t, key, key, 0)
      BY <3>1 DEF IsShifted
    <3> QED BY <1>1, <2>3, <3>2, TotalMoved
  <2> QED BY <2>3, <2>4, <2>5, <2>7
<1> QED BY <1>2, <1>3

\* A pool pays out a swap; the sender gets no more of it than what it is the recipient of.
LEMMA PaidOutIs ==
    ASSUME balance \in Balances, locked \in Balances, NEW key \in PoolKeys,
           NEW in \in Tokens, NEW out \in Tokens, NEW swap \in Swaps, NEW to \in Accounts,
           NEW b, b = PaidOut(key, in, out, swap, to), NEW l, l = LockedBy(key, in, swap.protocolFee)
    PROVE  /\ b \in Balances /\ l \in Balances
           /\ \A t \in Tokens : Total(b, l, t) = Total(balance, locked, t)
           /\ \A a \in Accounts \ {key, Treasury, to} : b[a] = balance[a]
           /\ \A a \in Accounts, t \in Tokens \ {in, out} : b[a][t] = balance[a][t]
           /\ \A t \in Tokens : b[Sender][t] = balance[Sender][t]
                    + (IF to = Sender /\ t = out THEN swap.amountOut ELSE 0)
<1>1. PICK fee \in Int, amount \in Int : fee = swap.protocolFee /\ amount = swap.amountOut
  BY DEF Swaps
<1>2. PICK m : m = ToProtocol(balance, key, in, fee)
  OBVIOUS
<1>3. l = LockedBy(key, in, fee)
  BY <1>1
<1>4. /\ m \in Balances /\ l \in Balances
      /\ \A t \in Tokens : Total(m, l, t) = Total(balance, locked, t)
      /\ \A a \in Accounts \ {key, Treasury} : m[a] = balance[a]
      /\ \A a \in Accounts, t \in Tokens \ {in} : m[a][t] = balance[a][t]
  BY <1>2, <1>3, ToProtocolIs
<1>5. b = Transferred(m, key, to, out, amount)
  BY <1>1, <1>2 DEF PaidOut
<1>6. key \in Accounts /\ key # Sender /\ Sender # Treasury /\ Sender \in Accounts
  BY WhoIsWho
<1>7. /\ b \in Balances
      /\ IsMoved(b, m, key, to, out, amount)
      /\ \A a \in Accounts \ {key, to} : b[a] = m[a]
  BY <1>4, <1>5, <1>6, TransferredIs
<1>8. \A t \in Tokens : Total(b, l, t) = Total(m, l, t)
  BY <1>4, <1>5, <1>6, TransferredTotal
<1>9. ASSUME NEW a \in Accounts, NEW t \in Tokens \ {in, out} PROVE b[a][t] = balance[a][t]
  <2>1. m[a][t] \in Int /\ m[a][t] = balance[a][t]
    BY <1>4 DEF Balances, Amounts
  <2> QED BY <1>7, <2>1 DEF IsMoved
<1>10. ASSUME NEW t \in Tokens
       PROVE  b[Sender][t] = balance[Sender][t] + (IF to = Sender /\ t = out THEN amount ELSE 0)
  <2>1. m[Sender][t] = balance[Sender][t] /\ m[Sender][t] \in Int
    BY <1>4, <1>6 DEF Balances, Amounts
  <2> QED BY <1>6, <1>7, <2>1 DEF IsMoved
<1> QED BY <1>1, <1>4, <1>7, <1>8, <1>9, <1>10

-----------------------------------------------------------------------------
(* The steps of a route *)

\* Who a recipient stands for
LEMMA RecipientIs ==
    ASSUME NEW recipient \in Accounts \cup {Zero}
    PROVE  /\ RecipientOf(recipient) \in Accounts /\ RecipientOf(recipient) \in {recipient, Router}
           /\ RecipientOf(recipient) = Sender <=> recipient = Sender
<1>1. Router \in Accounts /\ Router # Sender /\ Zero \notin Accounts /\ Sender \in Accounts
  BY WhoIsWho
<1> QED BY <1>1 DEF RecipientOf

\* The router stands for itself.
LEMMA RouterItself == RecipientOf(Router) = Router
BY DEF RecipientOf

\* The hop that is next, if it can be swapped
LEMMA HopOf ==
    ASSUME pools \in [PoolKeys -> PoolStates], call \in RouteRecords, Along(call),
           NEW swap, swap = HopResult, swap # Error
    PROVE  /\ HopKey \in PoolKeys /\ HopKey \in PoolsOf(call.path)
           /\ TokenTaken \in Tokens \cap TokensOf(call.path) /\ TokenGiven \in Tokens \cap TokensOf(call.path)
           /\ call.rest[1] \in Tokens /\ call.rest[3] \in Tokens
           /\ swap \in Swaps
           /\ call.exactInput => swap.amountIn <= call.amount
           /\ ~call.exactInput => swap.amountOut <= call.amount
<1>1. PICK rest \in Seq(Nat), amount \in Nat, limit \in Nat \cup {None} :
        rest = call.rest /\ amount = call.amount /\ limit = call.limit
  BY DEF RouteRecords
<1>2. /\ rest[1] \in Nat /\ rest[3] \in Nat /\ {rest[1], rest[3]} \subseteq TokensOf(rest)
      /\ FirstPoolKey(rest) \in PoolsOf(rest)
  BY <1>1, PathParts DEF Along
<1>3. /\ TokensOf(rest) \subseteq TokensOf(call.path) /\ PoolsOf(rest) \subseteq PoolsOf(call.path)
  BY <1>1 DEF Along
<1>4. PICK in \in Int, out \in Int :
        /\ in = TokenTaken /\ out = TokenGiven
        /\ (in = rest[1] /\ out = rest[3]) \/ (in = rest[3] /\ out = rest[1])
  <2>1. CASE call.exactInput
    BY <1>1, <1>2, <2>1 DEF TokenTaken, TokenGiven
  <2>2. CASE ~call.exactInput
    BY <1>1, <1>2, <2>2 DEF TokenTaken, TokenGiven
  <2> QED BY <2>1, <2>2
<1>5. PICK specified \in Int : specified = IF call.exactInput THEN amount ELSE -amount
  OBVIOUS
<1>6. swap = HopSwap(pools, HopKey, in, out, specified, limit)
  BY <1>1, <1>4, <1>5 DEF HopResult
<1>7. /\ HopKey \in PoolKeys /\ specified # 0
      /\ \E i \in Nat \ {0}, o \in Nat, fee \in Nat, pool \in PoolStates :
            /\ swap = [amountIn |-> i, amountOut |-> o, protocolFee |-> fee, pool |-> pool]
            /\ specified > 0 => i <= specified
            /\ specified < 0 => o <= -specified
  BY <1>6, HopTyped
<1>8. HopKey = FirstPoolKey(rest)
  BY <1>1 DEF HopKey
<1>9. rest[1] \in Tokens /\ rest[3] \in Tokens
  BY <1>2, <1>7, <1>8, KeyTokens
<1>10. PICK i \in Nat \ {0}, o \in Nat, fee \in Nat, pool \in PoolStates :
            /\ swap = [amountIn |-> i, amountOut |-> o, protocolFee |-> fee, pool |-> pool]
            /\ specified > 0 => i <= specified
            /\ specified < 0 => o <= -specified
  BY <1>7
<1>11. swap \in Swaps /\ swap.amountIn = i /\ swap.amountOut = o
  BY <1>10 DEF Swaps
<1>12. CASE call.exactInput
  <2>1. i <= amount
    BY <1>5, <1>7, <1>10, <1>12
  <2> QED BY <1>1, <1>2, <1>3, <1>4, <1>7, <1>8, <1>9, <1>11, <1>12, <2>1
<1>13. CASE ~call.exactInput
  <2>1. o <= amount
    BY <1>5, <1>7, <1>10, <1>13
  <2> QED BY <1>1, <1>2, <1>3, <1>4, <1>7, <1>8, <1>9, <1>11, <1>13, <2>1
<1> QED BY <1>12, <1>13

\* A step is paid by from, and pays to, in tokens of the path; K are the pools it swaps.
Touches(path, p, b, p2, b2, K, from, to) ==
    /\ \A k \in PoolKeys \ K : p2[k] = p[k]
    /\ \A a \in Accounts \ (K \cup {Treasury, from, to}) : b2[a] = b[a]
    /\ \A a \in Accounts, t \in Tokens \ TokensOf(path) : b2[a][t] = b[a][t]

\* Who is not paid and does not pay keeps what it has.
LEMMA StillUntouched ==
    ASSUME NEW r \in RouteRecords, Along(r), NEW r2 \in RouteRecords,
           r2.path = r.path, r2.receiver = r.receiver,
           NEW p, NEW b, NEW o, Untouched(r, p, b, o), NEW p2, NEW b2,
           NEW K \in SUBSET (PoolKeys \cap PoolsOf(r.path)), NEW from, NEW to,
           from \in {Sender, Router} \cup (PoolKeys \cap PoolsOf(r.path)),
           to \in {r.receiver, Router} \cup (PoolKeys \cap PoolsOf(r.path)),
           Touches(r.path, p, b, p2, b2, K, from, to)
    PROVE  Untouched(r2, p2, b2, o)
<1>1. \A k \in PoolKeys \ PoolsOf(r.path) : p2[k] = o.pools[k]
  BY DEF Untouched, Touches
<1>2. ASSUME NEW k \in PoolKeys \ PoolsOf(r.path), k # r.receiver PROVE b2[k] = o.balance[k]
  <2>1. k \in Accounts \ (K \cup {Treasury, from, to})
    BY <1>2, WhoIsWho
  <2> QED BY <1>2, <2>1 DEF Untouched, Touches
<1>3. ASSUME NEW a \in DOMAIN Holdings \ {Sender, r.receiver} PROVE b2[a] = o.balance[a]
  <2>1. a \in Accounts \ (K \cup {Treasury, from, to})
    BY <1>3, WhoIsWho
  <2> QED BY <1>3, <2>1 DEF Untouched, Touches
<1>4. \A a \in Accounts, t \in Tokens \ TokensOf(r.path) : b2[a][t] = o.balance[a][t]
  BY DEF Untouched, Touches
<1> QED BY <1>1, <1>2, <1>3, <1>4 DEF Untouched

\* What a step of a route does
StepKeeps ==
    /\ pools' \in [PoolKeys -> PoolStates] /\ balance' \in Balances /\ locked' \in Balances
    /\ before' = before
    /\ \A t \in Tokens : Total(balance', locked', t) = Total(balance, locked, t)

AfterInput(r, amount) ==
    IF HasMultiplePools(r.rest)
    THEN [r EXCEPT !.rest = SkipToken(@), !.payer = Router, !.amount = amount]
    ELSE [r EXCEPT !.phase = "finish", !.amount = amount]

\* A hop of an exact input: the route afterwards is still in order
LEMMA NextInput ==
    ASSUME NEW r \in RouteRecords, Along(r), InPhase(r), r.phase = "input",
           r.rest[1] \in Tokens, r.rest[3] \in Tokens, NEW amount \in Nat, NEW r2,
           r2 = AfterInput(r, amount)
    PROVE  /\ r2 \in RouteRecords /\ Along(r2) /\ InPhase(r2)
           /\ r2.path = r.path /\ r2.receiver = r.receiver /\ r2.specified = r.specified
           /\ r2.exactInput = r.exactInput /\ r2.amount = amount
           /\ IF HasMultiplePools(r.rest)
              THEN r2.phase = "input" /\ r2.payer = Router
              ELSE r2.phase = "finish" /\ LastToken(r.path) = r.rest[3]
<1>1. PICK rest : rest = SkipToken(r.rest)
  OBVIOUS
<1>2. OddPath(r.rest) /\ OddPath(r.path) /\ LastToken(r.rest) = LastToken(r.path)
      /\ PoolsOf(r.rest) \subseteq PoolsOf(r.path) /\ TokensOf(r.rest) \subseteq TokensOf(r.path)
      /\ TokensOf(r.path) \ Tokens \subseteq TokensOf(r.rest)
  BY DEF Along
<1>3. CASE HasMultiplePools(r.rest)
  <2>1. r2 = [r EXCEPT !.rest = rest, !.payer = Router, !.amount = amount]
    BY <1>1, <1>3 DEF AfterInput
  <2>2. /\ OddPath(rest) /\ LastToken(rest) = LastToken(r.rest)
        /\ PoolsOf(rest) \subseteq PoolsOf(r.rest) /\ TokensOf(rest) \subseteq TokensOf(r.rest)
        /\ TokensOf(r.rest) \subseteq {r.rest[1]} \cup TokensOf(rest)
    BY <1>1, <1>2, <1>3, Skipped
  <2>3. rest \in Seq(Nat) /\ Router \in Accounts
    BY <2>2, WhoIsWho DEF OddPath
  <2>4. r2 \in RouteRecords
    BY <2>1, <2>3 DEF RouteRecords
  <2>5. /\ r2.path = r.path /\ r2.receiver = r.receiver /\ r2.specified = r.specified
        /\ r2.exactInput = r.exactInput /\ r2.amount = amount /\ r2.phase = r.phase
        /\ r2.payer = Router /\ r2.rest = rest /\ r2.recipient = r.recipient /\ r2.stack = r.stack
    BY <2>1 DEF RouteRecords
  <2>6. Along(r2)
    BY <1>2, <2>2, <2>5 DEF Along
  <2>7. InPhase(r2)
    BY <2>5 DEF InPhase
  <2> QED BY <1>3, <2>4, <2>5, <2>6, <2>7
<1>4. CASE ~HasMultiplePools(r.rest)
  <2>1. r2 = [r EXCEPT !.phase = "finish", !.amount = amount]
    BY <1>4 DEF AfterInput
  <2>2. LastToken(r.rest) = r.rest[3] /\ TokensOf(r.rest) \subseteq {r.rest[1], r.rest[3]}
    BY <1>2, <1>4, LastHop
  <2>3. TokensOf(r.path) \subseteq Tokens
    BY <1>2, <2>2
  <2>4. r2 \in RouteRecords
    BY <2>1 DEF RouteRecords, Phases
  <2>5. /\ r2.path = r.path /\ r2.receiver = r.receiver /\ r2.specified = r.specified
        /\ r2.exactInput = r.exactInput /\ r2.amount = amount /\ r2.phase = "finish"
        /\ r2.payer = r.payer /\ r2.rest = r.rest /\ r2.recipient = r.recipient /\ r2.stack = r.stack
    BY <2>1 DEF RouteRecords
  <2>6. Along(r2)
    BY <2>3, <2>5 DEF Along
  <2>7. InPhase(r2)
    BY <2>5 DEF InPhase
  <2> QED BY <1>2, <1>4, <2>2, <2>4, <2>5, <2>6, <2>7
<1> QED BY <1>3, <1>4

\* A hop of an exact input keeps the invariant.
LEMMA SwapInKeeps ==
    ASSUME TypesInv, RouteInv, SwapIn
    PROVE  StepKeeps /\ RouteOK(call', pools', balance', before)
<1>1. PICK r \in RouteRecords : r = call
  BY DEF TypesInv, SwapIn
<1>2. /\ Along(r) /\ InPhase(r) /\ Untouched(r, pools, balance, before) /\ Gains(r, balance, before)
      /\ r.phase = "input" /\ r.exactInput /\ r.recipient = r.receiver
  <2>1. call # None /\ call.phase = "input"
    BY DEF SwapIn
  <2>2. RouteOK(call, pools, balance, before)
    BY <2>1 DEF RouteInv
  <2>3. Along(r) /\ InPhase(r) /\ Untouched(r, pools, balance, before) /\ Gains(r, balance, before)
    BY <1>1, <2>2 DEF RouteOK
  <2> QED BY <1>1, <2>1, <2>3 DEF InPhase
<1>3. PICK swap :
        /\ swap = HopResult /\ swap # Error
        /\ balance' = Transferred(PaidOut(HopKey, TokenTaken, TokenGiven, swap, HopRecipient),
                                  call.payer, HopKey, TokenTaken, swap.amountIn)
        /\ locked' = LockedBy(HopKey, TokenTaken, swap.protocolFee)
        /\ pools' = [pools EXCEPT ![HopKey] = swap.pool]
        /\ call' = IF HasMultiplePools(call.rest)
                   THEN [call EXCEPT !.rest = SkipToken(@), !.payer = Router, !.amount = swap.amountOut]
                   ELSE [call EXCEPT !.phase = "finish", !.amount = swap.amountOut]
        /\ before' = before
  BY Zenon DEF SwapIn, InputFits, CanPayOut
<1>4. PICK key, in, out, to, from :
        key = HopKey /\ in = TokenTaken /\ out = TokenGiven /\ to = HopRecipient /\ from = call.payer
  OBVIOUS
<1>5. /\ key \in PoolKeys /\ key \in PoolsOf(r.path) /\ in \in Tokens /\ out \in Tokens
      /\ in \in TokensOf(r.path) /\ out \in TokensOf(r.path)
      /\ r.rest[1] \in Tokens /\ r.rest[3] \in Tokens /\ swap \in Swaps /\ swap.amountIn <= r.amount
  BY <1>1, <1>2, <1>3, <1>4, HopOf DEF TypesInv
<1>6. in = r.rest[1] /\ out = r.rest[3] /\ from = r.payer
  BY <1>1, <1>2, <1>4 DEF TokenTaken, TokenGiven
<1>7. PICK given \in Nat, got \in Nat, pool \in PoolStates :
        given = swap.amountIn /\ got = swap.amountOut /\ pool = swap.pool
  BY <1>5 DEF Swaps
<1>8. /\ from \in Accounts /\ from \in {Sender, Router} \cup (PoolKeys \cap PoolsOf(r.path))
  BY <1>2, <1>6 DEF Along, RouteRecords
<1>9. /\ to \in Accounts /\ to \in {r.receiver, Router}
      /\ IF HasMultiplePools(r.rest) THEN to # Sender ELSE (to = Sender <=> r.receiver = Sender)
  <2>1. CASE HasMultiplePools(r.rest)
    <3>1. to = Router
      BY <1>1, <1>4, <2>1, RouterItself DEF HopRecipient
    <3> QED BY <2>1, <3>1, WhoIsWho
  <2>2. CASE ~HasMultiplePools(r.rest)
    <3>1. to = RecipientOf(r.recipient) /\ r.recipient \in Accounts \cup {Zero}
      BY <1>1, <1>4, <2>2 DEF HopRecipient, RouteRecords
    <3> QED BY <1>2, <2>2, <3>1, RecipientIs
  <2> QED BY <2>1, <2>2
<1>10. PICK b, l : b = PaidOut(key, in, out, swap, to) /\ l = LockedBy(key, in, swap.protocolFee)
  OBVIOUS
<1>11. /\ b \in Balances /\ l \in Balances
       /\ \A t \in Tokens : Total(b, l, t) = Total(balance, locked, t)
       /\ \A a \in Accounts \ {key, Treasury, to} : b[a] = balance[a]
       /\ \A a \in Accounts, t \in Tokens \ {in, out} : b[a][t] = balance[a][t]
       /\ \A t \in Tokens : b[Sender][t] = balance[Sender][t] + (IF to = Sender /\ t = out THEN swap.amountOut ELSE 0)
  BY <1>5, <1>9, <1>10, PaidOutIs DEF TypesInv
<1>12. PICK c : c = Transferred(b, from, key, in, given)
  OBVIOUS
<1>13. balance' = c /\ locked' = l
  BY <1>3, <1>4, <1>7, <1>10, <1>12
<1>14. key \in Accounts
  BY <1>5, WhoIsWho
<1>15. /\ c \in Balances /\ IsMoved(c, b, from, key, in, given)
       /\ \A a \in Accounts \ {from, key} : c[a] = b[a]
  <2>1. b \in Balances /\ in \in Tokens /\ from \in Accounts /\ key \in Accounts
    BY <1>5, <1>8, <1>11, <1>14
  <2> QED BY <1>12, <2>1, TransferredIs
<1>16. \A t \in Tokens : Total(c, l, t) = Total(b, l, t)
  BY <1>5, <1>8, <1>11, <1>12, <1>14, TransferredTotal
<1>17. PICK r2 : r2 = call'
  OBVIOUS
<1>18. /\ r2 \in RouteRecords /\ Along(r2) /\ InPhase(r2)
       /\ r2.path = r.path /\ r2.receiver = r.receiver /\ r2.specified = r.specified
       /\ r2.exactInput = r.exactInput /\ r2.amount = got
       /\ IF HasMultiplePools(r.rest)
          THEN r2.phase = "input" /\ r2.payer = Router
          ELSE r2.phase = "finish" /\ LastToken(r.path) = r.rest[3]
  <2>1. r2 = AfterInput(r, got)
    BY <1>1, <1>3, <1>7, <1>17 DEF AfterInput
  <2>2. r.rest[1] \in Tokens /\ r.rest[3] \in Tokens /\ Along(r) /\ InPhase(r) /\ r.phase = "input"
    BY <1>2, <1>5
  <2> QED BY <2>1, <2>2, NextInput
<1>19. PICK q : q = pools' /\ q \in [PoolKeys -> PoolStates] /\ \A k \in PoolKeys \ {key} : q[k] = pools[k]
  <2>1. pools' = [pools EXCEPT ![key] = pool]
    BY <1>3, <1>4, <1>7
  <2> QED BY <1>5, <2>1 DEF TypesInv
<1>20. Untouched(r2, q, c, before)
  <2>1. \A a \in Accounts \ {key, Treasury, from, to} : c[a] = balance[a]
    BY <1>11, <1>15
  <2>2. ASSUME NEW a \in Accounts, NEW t \in Tokens \ TokensOf(r.path) PROVE c[a][t] = balance[a][t]
    <3>1. t \notin {in, out}
      BY <1>5
    <3>2. b[a][t] = balance[a][t] /\ b[a][t] \in Int
      BY <1>11, <3>1 DEF Balances, Amounts
    <3> QED BY <1>15, <3>1, <3>2 DEF IsMoved
  <2>3. Touches(r.path, pools, balance, q, c, {key}, from, to)
    BY <1>19, <2>1, <2>2 DEF Touches
  <2>4. /\ {key} \in SUBSET (PoolKeys \cap PoolsOf(r.path)) /\ from \in {Sender, Router} \cup (PoolKeys \cap PoolsOf(r.path))
        /\ to \in {r.receiver, Router} \cup (PoolKeys \cap PoolsOf(r.path))
    BY <1>5, <1>8, <1>9
  <2>5. r2.path = r.path /\ r2.receiver = r.receiver /\ Along(r) /\ Untouched(r, pools, balance, before)
    BY <1>2, <1>18
  <2> QED BY <1>18, <2>3, <2>4, <2>5, StillUntouched
<1>21. Gains(r2, c, before)
  <2>1. PICK x \in Int, y \in Int : Exchanged(r, balance, before, x, y) /\ InputSoFar(r, x, y)
    BY <1>2 DEF Gains, SoFar
  <2>2. y = 0 /\ x <= r.specified
        /\ (from = Sender => r.rest = r.path /\ r.amount = r.specified /\ x = 0)
    BY <1>2, <1>6, <2>1 DEF InputSoFar
  <2>3. PICK x2 \in Int : x2 = IF from = Sender THEN given ELSE x
    OBVIOUS
  <2>4. PICK y2 \in Int : y2 = IF HasMultiplePools(r.rest) THEN 0 ELSE got
    OBVIOUS
  <2>5. x2 <= r2.specified
    BY <1>5, <1>7, <1>18, <2>2, <2>3
  <2>6. InputSoFar(r2, x2, y2)
    BY <1>18, <2>4, <2>5, WhoIsWho DEF InputSoFar
  <2>7. RouteIn(r2) = r.path[1] /\ RouteOut(r2) = LastToken(r.path)
        /\ RouteIn(r) = r.path[1] /\ RouteOut(r) = LastToken(r.path)
    BY <1>2, <1>18 DEF RouteIn, RouteOut
  <2>8. ASSUME NEW t \in Tokens
        PROVE  c[Sender][t] = before.balance[Sender][t]
                    + (IF t = RouteOut(r2) /\ r2.receiver = Sender THEN y2 ELSE 0)
                    - (IF t = RouteIn(r2) THEN x2 ELSE 0)
    <3>1. balance[Sender][t] = before.balance[Sender][t] - (IF t = r.path[1] THEN x ELSE 0)
          /\ balance[Sender][t] \in Int /\ before.balance[Sender][t] \in Int
      <4>1. balance[Sender][t] = before.balance[Sender][t]
                + (IF t = RouteOut(r) /\ r.receiver = Sender THEN y ELSE 0) - (IF t = RouteIn(r) THEN x ELSE 0)
        BY <2>1 DEF Exchanged
      <4>2. balance[Sender][t] \in Int /\ before.balance[Sender][t] \in Int
        <5>1. before \in States
          BY DEF TypesInv, Started, SwapIn
        <5>2. before.balance \in Balances
          BY <5>1 DEF States
        <5> QED BY <5>2, WhoIsWho DEF TypesInv, Balances, Amounts
      <4> QED BY <2>2, <2>7, <4>1, <4>2
    <3>2. b[Sender][t] = balance[Sender][t] + (IF to = Sender /\ t = out THEN got ELSE 0)
      BY <1>7, <1>11
    <3>3. c[Sender][t] = b[Sender][t] - (IF Sender = from /\ t = in THEN given ELSE 0)
                                      + (IF Sender = key /\ t = in THEN given ELSE 0)
      BY <1>15, WhoIsWho DEF IsMoved
    <3>4. Sender # key
      BY <1>5, WhoIsWho
    <3>5. c[Sender][t] = b[Sender][t] - (IF t = r.path[1] THEN x2 - x ELSE 0)
      <4>1. b[Sender][t] \in Int
        BY <1>11, WhoIsWho DEF Balances, Amounts
      <4>2. CASE from = Sender
        BY <1>6, <2>2, <2>3, <3>3, <3>4, <4>1, <4>2
      <4>3. CASE from # Sender
        BY <2>3, <3>3, <3>4, <4>1, <4>3
      <4> QED BY <4>2, <4>3
    <3>6. (IF to = Sender /\ t = out THEN got ELSE 0)
             = (IF t = LastToken(r.path) /\ r.receiver = Sender THEN y2 ELSE 0)
      <4>1. CASE HasMultiplePools(r.rest)
        BY <1>9, <2>4, <4>1
      <4>2. CASE ~HasMultiplePools(r.rest)
        <5>1. out = LastToken(r.path) /\ y2 = got /\ (to = Sender <=> r.receiver = Sender)
          BY <1>6, <1>9, <1>18, <2>4, <4>2
        <5> QED BY <5>1
      <4> QED BY <4>1, <4>2
    <3>7. PICK s \in Int : s = (IF t = LastToken(r.path) /\ r.receiver = Sender THEN y2 ELSE 0)
      OBVIOUS
    <3>8. c[Sender][t] = before.balance[Sender][t] + s - (IF t = r.path[1] THEN x2 ELSE 0)
      BY <3>1, <3>2, <3>5, <3>6, <3>7
    <3> QED BY <1>18, <2>7, <3>7, <3>8
  <2>9. Exchanged(r2, c, before, x2, y2)
    BY <2>8 DEF Exchanged
  <2>10. SoFar(r2, x2, y2)
    BY <1>2, <1>18, <2>6 DEF SoFar
  <2> QED BY <2>9, <2>10 DEF Gains
<1>22. StepKeeps
  BY <1>3, <1>11, <1>13, <1>15, <1>16, <1>19 DEF StepKeeps
<1>23. RouteOK(r2, q, c, before)
  BY <1>18, <1>20, <1>21 DEF RouteOK
<1> QED BY <1>13, <1>17, <1>19, <1>22, <1>23

\* An exact output up to its callback: the route afterwards is still in order
AfterOutput(r, frame) ==
    [r EXCEPT !.stack = Append(@, frame), !.amount = frame.swap.amountIn, !.recipient = frame.key,
              !.rest = IF HasMultiplePools(r.rest) THEN SkipToken(@) ELSE @,
              !.phase = IF HasMultiplePools(r.rest) THEN "output" ELSE "pay"]

\* What has happened so far does not matter to who the first frame is.
LEMMA FirstFrame ==
    ASSUME NEW stack \in Seq(Frames), NEW frame \in Frames
    PROVE  /\ Append(stack, frame) \in Seq(Frames) /\ Append(stack, frame) # << >>
           /\ stack = << >> => Append(stack, frame)[1] = frame
           /\ stack # << >> => Append(stack, frame)[1] = stack[1]
           /\ \A S : (\A i \in DOMAIN stack : stack[i].key \in S) /\ frame.key \in S =>
                  \A i \in DOMAIN Append(stack, frame) : Append(stack, frame)[i].key \in S
<1>1. PICK n \in Nat : n = Len(stack) /\ stack \in [1 .. n -> Frames] /\ DOMAIN stack = 1 .. n
  BY LenProperties
<1>2. PICK s : s = Append(stack, frame)
  OBVIOUS
<1>3. /\ s \in Seq(Frames) /\ Len(s) = n + 1
      /\ \A i \in 1 .. n : s[i] = stack[i]
      /\ s[n + 1] = frame
  BY <1>1, <1>2, AppendProperties
<1>4. DOMAIN s = 1 .. n + 1
  BY <1>3, LenProperties
<1>5. s # << >>
  BY <1>3
<1>6. ASSUME stack = << >> PROVE s[1] = frame
  <2>1. n = 0
    BY <1>1, <1>6
  <2> QED BY <1>3, <2>1
<1>7. ASSUME stack # << >> PROVE s[1] = stack[1]
  <2>1. n # 0
    BY <1>1, <1>7
  <2> QED BY <1>1, <1>3, <2>1
<1>8. ASSUME NEW S, \A i \in DOMAIN stack : stack[i].key \in S, frame.key \in S
      PROVE  \A i \in DOMAIN s : s[i].key \in S
  BY <1>1, <1>3, <1>4, <1>8
<1> QED BY <1>2, <1>3, <1>5, <1>6, <1>7, <1>8

\* The frame after a hop of an exact output
LEMMA NextOutput ==
    ASSUME NEW r \in RouteRecords, Along(r), InPhase(r), r.phase = "output",
           r.rest[1] \in Tokens, r.rest[3] \in Tokens, NEW frame \in Frames,
           frame.key \in PoolsOf(r.path), NEW r2, r2 = AfterOutput(r, frame)
    PROVE  /\ r2 \in RouteRecords /\ Along(r2) /\ InPhase(r2)
           /\ r2.path = r.path /\ r2.receiver = r.receiver /\ r2.specified = r.specified
           /\ r2.exactInput = r.exactInput /\ r2.limit = r.limit
           /\ r2.stack = Append(r.stack, frame) /\ r2.phase \in {"output", "pay"}
<1>1. PICK rest, phase :
        /\ rest = IF HasMultiplePools(r.rest) THEN SkipToken(r.rest) ELSE r.rest
        /\ phase = IF HasMultiplePools(r.rest) THEN "output" ELSE "pay"
  OBVIOUS
<1>2. /\ OddPath(r.rest) /\ OddPath(r.path) /\ LastToken(r.rest) = LastToken(r.path)
      /\ PoolsOf(r.rest) \subseteq PoolsOf(r.path) /\ TokensOf(r.rest) \subseteq TokensOf(r.path)
      /\ TokensOf(r.path) \ Tokens \subseteq TokensOf(r.rest)
  BY DEF Along
<1>3. PICK amount \in Nat, key \in PoolKeys : amount = frame.swap.amountIn /\ key = frame.key
  BY DEF Frames, Swaps
<1>4. PICK stack : stack = Append(r.stack, frame)
  OBVIOUS
<1>5. /\ stack \in Seq(Frames) /\ stack # << >>
      /\ \A S : (\A i \in DOMAIN r.stack : r.stack[i].key \in S) /\ frame.key \in S =>
                  \A i \in DOMAIN stack : stack[i].key \in S
  <2>1. r.stack \in Seq(Frames)
    BY DEF RouteRecords
  <2> QED BY <1>4, <2>1, FirstFrame
<1>6. \A i \in DOMAIN stack : stack[i].key \in PoolsOf(r.path)
  <2>1. \A i \in DOMAIN r.stack : r.stack[i].key \in PoolsOf(r.path)
    BY DEF Along
  <2> QED BY <1>5, <2>1
<1>7. /\ OddPath(rest) /\ LastToken(rest) = LastToken(r.path)
      /\ PoolsOf(rest) \subseteq PoolsOf(r.path) /\ TokensOf(rest) \subseteq TokensOf(r.path)
      /\ TokensOf(r.path) \ Tokens \subseteq TokensOf(rest)
      /\ phase \in {"output", "pay"} /\ (phase = "pay" => TokensOf(r.path) \subseteq Tokens)
  <2>1. CASE HasMultiplePools(r.rest)
    <3>1. rest = SkipToken(r.rest) /\ phase = "output"
      BY <1>1, <2>1
    <3>2. /\ OddPath(rest) /\ LastToken(rest) = LastToken(r.rest)
          /\ PoolsOf(rest) \subseteq PoolsOf(r.rest) /\ TokensOf(rest) \subseteq TokensOf(r.rest)
          /\ TokensOf(r.rest) \subseteq {r.rest[1]} \cup TokensOf(rest)
      BY <1>2, <2>1, <3>1, Skipped
    <3> QED BY <1>2, <3>1, <3>2
  <2>2. CASE ~HasMultiplePools(r.rest)
    <3>1. rest = r.rest /\ phase = "pay"
      BY <1>1, <2>2
    <3>2. TokensOf(r.rest) \subseteq {r.rest[1], r.rest[3]}
      BY <1>2, <2>2, LastHop
    <3> QED BY <1>2, <3>1, <3>2
  <2> QED BY <2>1, <2>2
<1>8. r2 = [r EXCEPT !.stack = stack, !.amount = amount, !.recipient = key, !.rest = rest, !.phase = phase]
  BY <1>1, <1>3, <1>4 DEF AfterOutput
<1>9. rest \in Seq(Nat) /\ key \in Accounts /\ phase \in Phases
  BY <1>7, WhoIsWho DEF OddPath, Phases
<1>10. r2 \in RouteRecords
  <2>1. PICK r1 : r1 = [r EXCEPT !.stack = stack, !.amount = amount]
    OBVIOUS
  <2>2. r1 \in RouteRecords
    BY <1>5, <2>1 DEF RouteRecords
  <2>3. r2 = [r1 EXCEPT !.recipient = key, !.rest = rest, !.phase = phase]
    BY <1>8, <2>1, Zenon
  <2> QED BY <1>9, <2>2, <2>3 DEF RouteRecords
<1>11. /\ r2.path = r.path /\ r2.receiver = r.receiver /\ r2.specified = r.specified
       /\ r2.exactInput = r.exactInput /\ r2.limit = r.limit /\ r2.amount = amount /\ r2.phase = phase
       /\ r2.payer = r.payer /\ r2.rest = rest /\ r2.recipient = key /\ r2.stack = stack
  BY <1>8 DEF RouteRecords
<1>12. r2.phase \notin {"input", "output"} => TokensOf(r2.path) \subseteq Tokens
  BY <1>7, <1>11
<1>13. r.payer \in {Sender, Router} \cup (PoolKeys \cap PoolsOf(r.path))
  BY DEF Along
<1>14. Along(r2)
  BY <1>2, <1>3, <1>6, <1>7, <1>11, <1>12, <1>13 DEF Along
<1>15. InPhase(r2)
  BY <1>5, <1>7, <1>11 DEF InPhase
<1> QED BY <1>4, <1>7, <1>10, <1>11, <1>14, <1>15

\* What a step adds to what the sender has given and got
SenderGains(r, b, b2, dx, dy) ==
    \A t \in Tokens : b2[Sender][t] = b[Sender][t]
        + (IF t = RouteOut(r) /\ r.receiver = Sender THEN dy ELSE 0) - (IF t = RouteIn(r) THEN dx ELSE 0)

\* What the sender has given and got does not change when others pay.
LEMMA ExchangesMore ==
    ASSUME NEW r, NEW r2, r2.path = r.path, r2.receiver = r.receiver, r2.exactInput = r.exactInput,
           NEW b \in Balances, NEW b2 \in Balances, NEW o \in States,
           NEW x \in Int, NEW y \in Int, NEW dx \in Int, NEW dy \in Int,
           NEW x2, x2 = x + dx, NEW y2, y2 = y + dy,
           Exchanged(r, b, o, x, y), SenderGains(r, b, b2, dx, dy)
    PROVE  Exchanged(r2, b2, o, x2, y2)
<1>1. RouteIn(r2) = RouteIn(r) /\ RouteOut(r2) = RouteOut(r)
  BY DEF RouteIn, RouteOut
<1>2. o.balance \in Balances
  BY DEF States
<1>3. ASSUME NEW t \in Tokens
      PROVE  b2[Sender][t] = o.balance[Sender][t]
                + (IF t = RouteOut(r2) /\ r2.receiver = Sender THEN y2 ELSE 0)
                - (IF t = RouteIn(r2) THEN x2 ELSE 0)
  <2>1. b[Sender][t] \in Int /\ o.balance[Sender][t] \in Int /\ b2[Sender][t] \in Int
    BY <1>2, WhoIsWho DEF Balances, Amounts
  <2>2. b[Sender][t] = o.balance[Sender][t]
            + (IF t = RouteOut(r) /\ r.receiver = Sender THEN y ELSE 0) - (IF t = RouteIn(r) THEN x ELSE 0)
    BY DEF Exchanged
  <2>3. b2[Sender][t] = b[Sender][t]
            + (IF t = RouteOut(r) /\ r.receiver = Sender THEN dy ELSE 0) - (IF t = RouteIn(r) THEN dx ELSE 0)
    BY DEF SenderGains
  <2> QED BY <1>1, <2>1, <2>2, <2>3
<1> QED BY <1>3 DEF Exchanged

LEMMA SwapOutKeeps ==
    ASSUME TypesInv, RouteInv, SwapOut
    PROVE  StepKeeps /\ RouteOK(call', pools', balance', before)
<1>1. PICK r \in RouteRecords : r = call
  BY DEF TypesInv, SwapOut
<1>2. /\ Along(r) /\ InPhase(r) /\ Untouched(r, pools, balance, before) /\ Gains(r, balance, before)
      /\ r.phase = "output" /\ ~r.exactInput
  <2>1. call # None /\ call.phase = "output"
    BY DEF SwapOut
  <2>2. RouteOK(call, pools, balance, before)
    BY <2>1 DEF RouteInv
  <2>3. Along(r) /\ InPhase(r) /\ Untouched(r, pools, balance, before) /\ Gains(r, balance, before)
    BY <1>1, <2>2 DEF RouteOK
  <2> QED BY <1>1, <2>1, <2>3 DEF InPhase
<1>3. before \in States
  BY DEF TypesInv, Started, SwapOut
<1>a. PICK swap \in {HopResult}, more \in {HasMultiplePools(call.rest)} :
        /\ CanPayOut(swap)
        /\ balance' = PaidOut(HopKey, TokenTaken, TokenGiven, swap, RecipientOf(call.recipient))
        /\ locked' = LockedBy(HopKey, TokenTaken, swap.protocolFee)
        /\ call' = [call EXCEPT
              !.stack = Append(@, [key |-> HopKey, token |-> TokenTaken, wanted |-> call.amount,
                                   balanceBefore |-> balance'[HopKey][TokenTaken], swap |-> swap]),
              !.amount = swap.amountIn,
              !.recipient = HopKey,
              !.rest = IF more THEN SkipToken(@) ELSE @,
              !.phase = IF more THEN "output" ELSE "pay"]
        /\ UNCHANGED <<pools, hasTreasury, result, before>>
  BY Zenon DEF SwapOut
<1>4. /\ swap = HopResult /\ swap # Error /\ more = HasMultiplePools(call.rest)
      /\ pools' = pools /\ before' = before
  BY <1>a, Zenon DEF CanPayOut
<1>5. PICK key, in, out, to :
        key = HopKey /\ in = TokenTaken /\ out = TokenGiven /\ to = RecipientOf(call.recipient)
  OBVIOUS
<1>6. /\ key \in PoolKeys /\ key \in PoolsOf(r.path) /\ in \in Tokens /\ out \in Tokens
      /\ in \in TokensOf(r.path) /\ out \in TokensOf(r.path)
      /\ r.rest[1] \in Tokens /\ r.rest[3] \in Tokens /\ swap \in Swaps
  BY <1>1, <1>2, <1>4, <1>5, HopOf DEF TypesInv
<1>7. in = r.rest[3] /\ out = r.rest[1]
  BY <1>1, <1>2, <1>5 DEF TokenTaken, TokenGiven
<1>8. PICK given \in Nat, got \in Nat : given = swap.amountIn /\ got = swap.amountOut
  BY <1>6 DEF Swaps
<1>9. r.recipient \in Accounts \cup {Zero} /\ r.recipient \in {r.receiver} \cup (PoolKeys \cap PoolsOf(r.path))
  BY <1>2 DEF Along, RouteRecords
<1>10. /\ to \in Accounts /\ to \in {r.receiver, Router} \cup (PoolKeys \cap PoolsOf(r.path))
       /\ to = Sender <=> r.recipient = Sender
  BY <1>1, <1>5, <1>9, RecipientIs
<1>11. PICK b, l : b = PaidOut(key, in, out, swap, to) /\ l = LockedBy(key, in, swap.protocolFee)
  OBVIOUS
<1>12. /\ b \in Balances /\ l \in Balances
       /\ \A t \in Tokens : Total(b, l, t) = Total(balance, locked, t)
       /\ \A a \in Accounts \ {key, Treasury, to} : b[a] = balance[a]
       /\ \A a \in Accounts, t \in Tokens \ {in, out} : b[a][t] = balance[a][t]
       /\ \A t \in Tokens : b[Sender][t] = balance[Sender][t] + (IF to = Sender /\ t = out THEN swap.amountOut ELSE 0)
  <2>1. /\ balance \in Balances /\ locked \in Balances /\ key \in PoolKeys /\ in \in Tokens /\ out \in Tokens
        /\ swap \in Swaps /\ to \in Accounts
    BY <1>6, <1>10 DEF TypesInv
  <2> QED BY <1>11, <2>1, PaidOutIs
<1>13. balance' = b /\ locked' = l
  BY <1>a, <1>5, <1>11
<1>14. PICK n \in Int : n = balance'[key][in]
  <2>1. b[key][in] \in Int
    BY <1>6, <1>12, WhoIsWho DEF Balances, Amounts
  <2> QED BY <1>13, <2>1
<1>15. PICK frame : frame = [key |-> key, token |-> in, wanted |-> r.amount, balanceBefore |-> n, swap |-> swap]
  OBVIOUS
<1>16. /\ frame \in Frames /\ frame.key = key /\ frame.wanted = r.amount /\ frame.swap = swap
  BY <1>6, <1>15 DEF Frames, RouteRecords
<1>17. PICK r2 : r2 = call'
  OBVIOUS
<1>18. r2 = AfterOutput(r, frame)
  BY <1>1, <1>a, <1>4, <1>5, <1>14, <1>15, <1>16, <1>17 DEF AfterOutput
<1>19. /\ r2 \in RouteRecords /\ Along(r2) /\ InPhase(r2)
       /\ r2.path = r.path /\ r2.receiver = r.receiver /\ r2.specified = r.specified
       /\ r2.exactInput = r.exactInput /\ r2.limit = r.limit
       /\ r2.stack = Append(r.stack, frame) /\ r2.phase \in {"output", "pay"}
  BY <1>2, <1>6, <1>16, <1>18, NextOutput
<1>20. Untouched(r2, pools, b, before)
  <2>1. Touches(r.path, pools, balance, pools, b, {key}, Sender, to)
    BY <1>6, <1>12 DEF Touches
  <2>2. {key} \in SUBSET (PoolKeys \cap PoolsOf(r.path)) /\ Sender \in {Sender, Router} \cup (PoolKeys \cap PoolsOf(r.path))
    BY <1>6
  <2>3. r2.path = r.path /\ r2.receiver = r.receiver /\ Along(r) /\ Untouched(r, pools, balance, before)
    BY <1>2, <1>19
  <2> QED BY <1>10, <1>19, <2>1, <2>2, <2>3, StillUntouched
<1>21. Gains(r2, b, before)
  <2>1. PICK x \in Int, y \in Int : Exchanged(r, balance, before, x, y) /\ OutputSoFar(r, x, y)
    BY <1>2 DEF Gains, SoFar
  <2>2. r.stack \in Seq(Frames)
    BY DEF RouteRecords
  <2>3. CASE r.stack = << >>
    <3>1. r.recipient = r.receiver /\ r.amount = r.specified /\ r.rest = r.path /\ x = 0 /\ y = 0
      BY <1>2, <2>1, <2>3 DEF OutputSoFar
    <3>2. r2.stack[1] = frame /\ r2.stack # << >>
      BY <1>16, <1>19, <2>2, <2>3, FirstFrame
    <3>3. OutputSoFar(r2, 0, got)
      BY <1>8, <1>16, <1>19, <3>1, <3>2 DEF OutputSoFar
    <3>4. out = RouteOut(r) /\ (to = Sender <=> r.receiver = Sender)
      BY <1>2, <1>7, <1>10, <3>1 DEF RouteOut
    <3>5. SenderGains(r, balance, b, 0, got)
      <4> SUFFICES ASSUME NEW t \in Tokens
                   PROVE  b[Sender][t] = balance[Sender][t]
                            + (IF t = RouteOut(r) /\ r.receiver = Sender THEN got ELSE 0)
                            - (IF t = RouteIn(r) THEN 0 ELSE 0)
        BY DEF SenderGains
      <4>1. b[Sender][t] = balance[Sender][t] + (IF to = Sender /\ t = out THEN got ELSE 0)
        BY <1>8, <1>12
      <4>2. balance[Sender][t] \in Int
        BY WhoIsWho DEF TypesInv, Balances, Amounts
      <4> QED BY <3>4, <4>1, <4>2
    <3>6. Exchanged(r2, b, before, 0, got)
      <4>1. PICK none \in Int : none = 0 /\ none = x + none /\ got = y + got
        BY <3>1
      <4>2. /\ r2.path = r.path /\ r2.receiver = r.receiver /\ r2.exactInput = r.exactInput
            /\ balance \in Balances /\ b \in Balances /\ before \in States /\ got \in Int
        BY <1>3, <1>12, <1>19 DEF TypesInv
      <4>3. Exchanged(r, balance, before, x, y) /\ SenderGains(r, balance, b, none, got)
        BY <2>1, <3>5, <4>1, Zenon
      <4>4. Exchanged(r2, b, before, none, got)
        BY <4>1, <4>2, <4>3, ExchangesMore
      <4> QED BY <4>1, <4>4
    <3> QED BY <1>2, <1>19, <3>3, <3>6 DEF Gains, SoFar
  <2>4. CASE r.stack # << >>
    <3>1. r.stack[1].wanted = r.specified /\ y = r.stack[1].swap.amountOut /\ x = 0
      BY <1>2, <2>1, <2>4 DEF OutputSoFar
    <3>2. r2.stack[1] = r.stack[1] /\ r2.stack # << >>
      BY <1>16, <1>19, <2>2, <2>4, FirstFrame
    <3>3. OutputSoFar(r2, x, y)
      BY <1>19, <3>1, <3>2 DEF OutputSoFar
    <3>4. to # Sender
      <4>1. r.recipient \in PoolKeys
        BY <1>2, <2>4 DEF Along
      <4>2. r.recipient # Sender
        BY <4>1, WhoIsWho
      <4> QED BY <1>10, <4>2
    <3>5. SenderGains(r, balance, b, 0, 0)
      <4> SUFFICES ASSUME NEW t \in Tokens
                   PROVE  b[Sender][t] = balance[Sender][t]
                            + (IF t = RouteOut(r) /\ r.receiver = Sender THEN 0 ELSE 0)
                            - (IF t = RouteIn(r) THEN 0 ELSE 0)
        BY DEF SenderGains
      <4>1. b[Sender][t] = balance[Sender][t] + (IF to = Sender /\ t = out THEN got ELSE 0)
        BY <1>8, <1>12
      <4>2. balance[Sender][t] \in Int
        BY WhoIsWho DEF TypesInv, Balances, Amounts
      <4> QED BY <3>4, <4>1, <4>2
    <3>6. Exchanged(r2, b, before, x, y)
      <4>1. PICK none \in Int : none = 0 /\ x = x + none /\ y = y + none
        OBVIOUS
      <4>2. /\ r2.path = r.path /\ r2.receiver = r.receiver /\ r2.exactInput = r.exactInput
            /\ balance \in Balances /\ b \in Balances /\ before \in States
        BY <1>3, <1>12, <1>19 DEF TypesInv
      <4>3. Exchanged(r, balance, before, x, y) /\ SenderGains(r, balance, b, none, none)
        BY <2>1, <3>5, <4>1, Zenon
      <4> QED BY <4>1, <4>2, <4>3, ExchangesMore
    <3> QED BY <1>2, <1>19, <3>3, <3>6 DEF Gains, SoFar
  <2> QED BY <2>3, <2>4
<1>22. StepKeeps
  BY <1>4, <1>12, <1>13 DEF StepKeeps, TypesInv
<1>23. RouteOK(r2, pools, b, before)
  BY <1>19, <1>20, <1>21 DEF RouteOK
<1> QED BY <1>4, <1>13, <1>17, <1>22, <1>23

\* The payment of the sender keeps the invariant.
LEMMA PayOutKeeps ==
    ASSUME TypesInv, RouteInv, PayOut
    PROVE  StepKeeps /\ RouteOK(call', pools', balance', before)
<1>1. PICK r \in RouteRecords : r = call
  BY DEF TypesInv, PayOut
<1>2. /\ Along(r) /\ InPhase(r) /\ Untouched(r, pools, balance, before) /\ Gains(r, balance, before)
      /\ r.phase = "pay" /\ ~r.exactInput /\ r.payer = Sender /\ r.stack # << >> /\ r.recipient \in PoolKeys
  <2>1. call # None /\ call.phase = "pay"
    BY DEF PayOut
  <2>2. RouteOK(call, pools, balance, before)
    BY <2>1 DEF RouteInv
  <2>3. Along(r) /\ InPhase(r) /\ Untouched(r, pools, balance, before) /\ Gains(r, balance, before)
    BY <1>1, <2>2 DEF RouteOK
  <2>4. ~r.exactInput
    BY <1>1, <2>1, <2>3 DEF InPhase
  <2> QED BY <1>1, <2>1, <2>3, <2>4 DEF InPhase, Along
<1>3. before \in States
  BY DEF TypesInv, Started, PayOut
<1>4. PICK in \in Nat, key \in PoolKeys, given \in Nat : in = LastToken(r.path) /\ key = r.recipient /\ given = r.amount
  <2>1. LastToken(r.path) \in Nat
    BY <1>2, PathParts DEF Along
  <2> QED BY <1>2, <2>1 DEF RouteRecords
<1>5. /\ balance' = Transferred(balance, Sender, key, in, given)
      /\ call' = [r EXCEPT !.phase = "return"]
      /\ pools' = pools /\ locked' = locked /\ before' = before
  BY <1>1, <1>2, <1>4 DEF PayOut
<1>6. OddPath(r.path) /\ TokensOf(r.path) \subseteq Tokens
  BY <1>2 DEF Along
<1>7. in \in TokensOf(r.path) /\ in \in Tokens
  BY <1>4, <1>6, PathParts
<1>8. /\ key \in Accounts /\ Sender \in Accounts /\ key # Sender
      /\ key \in {r.receiver, Router} \cup (PoolKeys \cap PoolsOf(r.path))
  BY <1>2, <1>4, WhoIsWho DEF Along
<1>9. PICK b : b = Transferred(balance, Sender, key, in, given)
  OBVIOUS
<1>10. balance \in Balances /\ locked \in Balances
  BY DEF TypesInv
<1>11. /\ b \in Balances /\ IsMoved(b, balance, Sender, key, in, given)
       /\ \A a \in Accounts \ {Sender, key} : b[a] = balance[a]
  BY <1>7, <1>8, <1>9, <1>10, TransferredIs
<1>12. \A t \in Tokens : Total(b, locked, t) = Total(balance, locked, t)
  BY <1>7, <1>8, <1>9, <1>10, TransferredTotal
<1>13. PICK r2 : r2 = call'
  OBVIOUS
<1>14. /\ r2 \in RouteRecords
       /\ r2.path = r.path /\ r2.receiver = r.receiver /\ r2.specified = r.specified
       /\ r2.exactInput = r.exactInput /\ r2.limit = r.limit /\ r2.amount = r.amount
       /\ r2.stack = r.stack /\ r2.phase = "return" /\ r2.payer = r.payer /\ r2.rest = r.rest
       /\ r2.recipient = r.recipient
  BY <1>5, <1>13 DEF RouteRecords, Phases
<1>15. Along(r2) /\ InPhase(r2)
  <2>1. Along(r2)
    BY <1>2, <1>14 DEF Along
  <2> QED BY <1>2, <1>14, <2>1 DEF InPhase
<1>16. Untouched(r2, pools, b, before)
  <2>1. Touches(r.path, pools, balance, pools, b, {}, Sender, key)
    <3>1. ASSUME NEW a \in Accounts, NEW t \in Tokens \ TokensOf(r.path) PROVE b[a][t] = balance[a][t]
      <4>1. t # in /\ balance[a][t] \in Int
        BY <1>7, <1>10 DEF Balances, Amounts
      <4> QED BY <1>11, <4>1 DEF IsMoved
    <3> QED BY <1>11, <3>1 DEF Touches
  <2>2. {} \in SUBSET (PoolKeys \cap PoolsOf(r.path)) /\ Sender \in {Sender, Router} \cup (PoolKeys \cap PoolsOf(r.path))
    OBVIOUS
  <2>3. r2.path = r.path /\ r2.receiver = r.receiver /\ Along(r) /\ Untouched(r, pools, balance, before)
    BY <1>2, <1>14
  <2> QED BY <1>8, <1>14, <2>1, <2>2, <2>3, StillUntouched
<1>17. Gains(r2, b, before)
  <2>1. PICK x \in Int, y \in Int : Exchanged(r, balance, before, x, y) /\ OutputSoFar(r, x, y)
    BY <1>2 DEF Gains, SoFar
  <2>2. r.stack[1].wanted = r.specified /\ y = r.stack[1].swap.amountOut /\ x = 0
    BY <1>2, <2>1 DEF OutputSoFar
  <2>3. OutputSoFar(r2, given, y)
    BY <1>2, <1>4, <1>14, <2>2 DEF OutputSoFar
  <2>4. in = RouteIn(r)
    BY <1>2, <1>4 DEF RouteIn
  <2>5. SenderGains(r, balance, b, given, 0)
    <3> SUFFICES ASSUME NEW t \in Tokens
                 PROVE  b[Sender][t] = balance[Sender][t]
                          + (IF t = RouteOut(r) /\ r.receiver = Sender THEN 0 ELSE 0)
                          - (IF t = RouteIn(r) THEN given ELSE 0)
      BY DEF SenderGains
    <3>1. balance[Sender][t] \in Int
      BY <1>8, <1>10 DEF Balances, Amounts
    <3>2. b[Sender][t] = balance[Sender][t] - (IF Sender = Sender /\ t = in THEN given ELSE 0)
                                            + (IF Sender = key /\ t = in THEN given ELSE 0)
      BY <1>8, <1>11 DEF IsMoved
    <3> QED BY <1>8, <2>4, <3>1, <3>2
  <2>6. Exchanged(r2, b, before, given, y)
    <3>1. given = x + given /\ y = y + 0
      BY <2>2
    <3> QED BY <1>3, <1>10, <1>11, <1>14, <2>1, <2>5, <3>1, ExchangesMore
  <2> QED BY <1>2, <1>14, <2>3, <2>6 DEF Gains, SoFar
<1>18. balance' = b /\ locked' = locked /\ pools' = pools
  BY <1>5, <1>9
<1>19. StepKeeps
  BY <1>5, <1>10, <1>11, <1>12, <1>18 DEF StepKeeps, TypesInv
<1>20. RouteOK(r2, pools, b, before)
  BY <1>14, <1>15, <1>16, <1>17 DEF RouteOK
<1> QED BY <1>5, <1>13, <1>18, <1>19, <1>20

LEMMA LastFrame ==
    ASSUME NEW stack \in Seq(Frames), stack # << >>
    PROVE  /\ Last(stack) \in Frames /\ Front(stack) \in Seq(Frames)
           /\ Len(stack) = 1 => Front(stack) = << >> /\ Last(stack) = stack[1]
           /\ Len(stack) # 1 => Front(stack) # << >> /\ Front(stack)[1] = stack[1]
           /\ \A S : (\A i \in DOMAIN stack : stack[i].key \in S) =>
                  /\ Last(stack).key \in S
                  /\ \A i \in DOMAIN Front(stack) : Front(stack)[i].key \in S
<1>1. PICK n \in Nat \ {0} : n = Len(stack) /\ stack \in [1 .. n -> Frames] /\ DOMAIN stack = 1 .. n
  <2>1. Len(stack) \in Nat \ {0}
    BY EmptySeq
  <2> QED BY <2>1, LenProperties
<1>2. PICK s : s = SubSeq(stack, 1, n - 1)
  OBVIOUS
<1>3. \A i \in 1 .. n - 1 : stack[i] \in Frames
  BY <1>1
<1>4. s \in Seq(Frames) /\ Len(s) = n - 1 /\ \A i \in 1 .. n - 1 : s[i] = stack[i]
  <2>1. /\ s \in Seq(Frames) /\ Len(s) = IF 1 <= n - 1 THEN n - 1 - 1 + 1 ELSE 0
        /\ \A i \in 1 .. n - 1 - 1 + 1 : s[i] = stack[1 + i - 1]
    <3>1. 1 \in Int /\ n - 1 \in Int
      OBVIOUS
    <3> QED BY <1>2, <1>3, <3>1, SubSeqProperties
  <2>2. ASSUME NEW i \in 1 .. n - 1 PROVE s[i] = stack[i]
    <3>1. i \in 1 .. n - 1 - 1 + 1 /\ 1 + i - 1 = i
      OBVIOUS
    <3> QED BY <2>1, <3>1
  <2> QED BY <2>1, <2>2
<1>5. Front(stack) = s /\ Last(stack) = stack[n] /\ DOMAIN s = 1 .. n - 1
  <2>1. DOMAIN s = 1 .. n - 1
    BY <1>4, LenProperties
  <2> QED BY <1>1, <1>2, <2>1 DEF Front, Last
<1>6. n = 1 => s = << >> /\ stack[n] = stack[1]
  <2>1. n = 1 => Len(s) = 0
    BY <1>4
  <2> QED BY <1>4, <2>1, EmptySeq
<1>7. n # 1 => s # << >> /\ s[1] = stack[1]
  <2>1. n # 1 => Len(s) # 0 /\ 1 \in 1 .. n - 1
    BY <1>1, <1>4
  <2> QED BY <1>4, <2>1
<1>8. ASSUME NEW S, \A i \in DOMAIN stack : stack[i].key \in S
      PROVE  stack[n].key \in S /\ \A i \in DOMAIN s : s[i].key \in S
  BY <1>1, <1>4, <1>5, <1>8
<1>9. stack[n] \in Frames
  BY <1>1
<1> QED BY <1>1, <1>4, <1>5, <1>6, <1>7, <1>8, <1>9

\* So does the return of a swap.
LEMMA ReturnOutKeeps ==
    ASSUME TypesInv, RouteInv, ReturnOut
    PROVE  StepKeeps /\ RouteOK(call', pools', balance', before)
<1>1. PICK r \in RouteRecords : r = call
  BY DEF TypesInv, ReturnOut
<1>2. /\ Along(r) /\ InPhase(r) /\ Untouched(r, pools, balance, before) /\ Gains(r, balance, before)
      /\ r.phase = "return" /\ ~r.exactInput /\ r.stack # << >>
  <2>1. call # None /\ call.phase = "return"
    BY DEF ReturnOut
  <2>2. RouteOK(call, pools, balance, before)
    BY <2>1 DEF RouteInv
  <2>3. Along(r) /\ InPhase(r) /\ Untouched(r, pools, balance, before) /\ Gains(r, balance, before)
    BY <1>1, <2>2 DEF RouteOK
  <2>4. ~r.exactInput
    BY <1>1, <2>1, <2>3 DEF InPhase
  <2> QED BY <1>1, <2>1, <2>3, <2>4 DEF InPhase
<1>3. PICK stack \in Seq(Frames) : stack = r.stack
  BY DEF RouteRecords
<1>4. PICK frame \in Frames : frame = Last(stack)
  BY <1>2, <1>3, LastFrame
<1>5. PICK front \in Seq(Frames) : front = Front(stack)
  BY <1>2, <1>3, LastFrame
<1>6. /\ Returns(frame)
      /\ pools' = [pools EXCEPT ![frame.key] = frame.swap.pool]
      /\ call' = [r EXCEPT !.stack = front, !.phase = IF Len(stack) = 1 THEN "finish" ELSE "return"]
      /\ balance' = balance /\ locked' = locked /\ before' = before
  BY <1>1, <1>3, <1>4, <1>5 DEF ReturnOut
<1>7. \A i \in DOMAIN stack : stack[i].key \in PoolsOf(r.path)
  BY <1>2, <1>3 DEF Along
<1>8. /\ frame.key \in PoolsOf(r.path) /\ frame.key \in PoolKeys /\ frame.swap.pool \in PoolStates
      /\ \A i \in DOMAIN front : front[i].key \in PoolsOf(r.path)
  BY <1>2, <1>3, <1>4, <1>5, <1>7, LastFrame DEF Frames, Swaps
<1>9. PICK r2 : r2 = call'
  OBVIOUS
<1>10. /\ r2 \in RouteRecords
       /\ r2.path = r.path /\ r2.receiver = r.receiver /\ r2.specified = r.specified
       /\ r2.exactInput = r.exactInput /\ r2.limit = r.limit /\ r2.amount = r.amount
       /\ r2.stack = front /\ r2.payer = r.payer /\ r2.rest = r.rest /\ r2.recipient = r.recipient
       /\ r2.phase = IF Len(stack) = 1 THEN "finish" ELSE "return"
  <2>1. PICK phase \in Phases : phase = IF Len(stack) = 1 THEN "finish" ELSE "return"
    BY DEF Phases
  <2>2. r2 = [r EXCEPT !.stack = front, !.phase = phase]
    BY <1>6, <1>9, <2>1
  <2> QED BY <2>1, <2>2 DEF RouteRecords
<1>11. r2.phase \in {"return", "finish"} /\ (Len(stack) = 1 <=> r2.phase = "finish")
  BY <1>10
<1>12. front # << >> \/ Len(stack) = 1
  BY <1>2, <1>3, <1>5, LastFrame
<1>13. Along(r2)
  <2>1. r2.stack # << >> => r2.recipient \in PoolKeys
    BY <1>2, <1>10 DEF Along
  <2> QED BY <1>2, <1>8, <1>10, <1>11, <2>1 DEF Along
<1>14. InPhase(r2)
  BY <1>2, <1>10, <1>11, <1>12 DEF InPhase
<1>15. PICK q : q = pools' /\ q \in [PoolKeys -> PoolStates] /\ \A k \in PoolKeys \ {frame.key} : q[k] = pools[k]
  BY <1>6, <1>8 DEF TypesInv
<1>16. Untouched(r2, q, balance, before)
  <2>1. Touches(r.path, pools, balance, q, balance, {frame.key}, Router, Router)
    BY <1>15 DEF Touches
  <2>2. {frame.key} \in SUBSET (PoolKeys \cap PoolsOf(r.path)) /\ Router \in {Sender, Router} \cup (PoolKeys \cap PoolsOf(r.path))
        /\ Router \in {r.receiver, Router} \cup (PoolKeys \cap PoolsOf(r.path))
    BY <1>8
  <2>3. r2.path = r.path /\ r2.receiver = r.receiver /\ Along(r) /\ Untouched(r, pools, balance, before)
    BY <1>2, <1>10
  <2> QED BY <1>10, <2>1, <2>2, <2>3, StillUntouched
<1>17. Gains(r2, balance, before)
  <2>1. PICK x \in Int, y \in Int : Exchanged(r, balance, before, x, y) /\ OutputSoFar(r, x, y)
    BY <1>2 DEF Gains, SoFar
  <2>2. Exchanged(r2, balance, before, x, y)
    BY <1>10, <2>1 DEF Exchanged, RouteIn, RouteOut
  <2>3. stack[1].wanted = r.specified /\ y = stack[1].swap.amountOut /\ x = r.amount
    BY <1>2, <1>3, <2>1 DEF OutputSoFar
  <2>4. OutputSoFar(r2, x, y)
    <3>1. CASE Len(stack) = 1
      <4>1. front = << >> /\ frame = stack[1]
        BY <1>2, <1>3, <1>4, <1>5, <3>1, LastFrame
      <4>2. r.limit = None => y = r.specified
        BY <1>1, <1>6, <2>3, <4>1 DEF Returns, FullAmount
      <4> QED BY <1>10, <2>3, <3>1, <4>1, <4>2 DEF OutputSoFar
    <3>2. CASE Len(stack) # 1
      <4>1. front # << >> /\ front[1] = stack[1]
        BY <1>2, <1>3, <1>5, <3>2, LastFrame
      <4> QED BY <1>10, <2>3, <3>2, <4>1 DEF OutputSoFar
    <3> QED BY <3>1, <3>2
  <2> QED BY <1>2, <1>10, <2>2, <2>4 DEF Gains, SoFar
<1>18. StepKeeps
  BY <1>6, <1>15 DEF StepKeeps, TypesInv
<1>19. RouteOK(r2, q, balance, before)
  BY <1>10, <1>13, <1>14, <1>16, <1>17 DEF RouteOK
<1> QED BY <1>6, <1>9, <1>15, <1>18, <1>19

\* What is left at the router goes to the protocol, and the route has ended well.
LEMMA FinishKeeps ==
    ASSUME TypesInv, RouteInv, Finish
    PROVE  /\ StepKeeps /\ result'.ok = TRUE /\ result'.route = call
           /\ RouteDone(call, pools', balance', before)
<1>1. PICK r \in RouteRecords : r = call
  BY DEF TypesInv, Finish
<1>2. /\ Along(r) /\ InPhase(r) /\ Untouched(r, pools, balance, before) /\ Gains(r, balance, before)
      /\ r.phase = "finish"
  <2>1. call # None /\ call.phase = "finish"
    BY DEF Finish
  <2>2. RouteOK(call, pools, balance, before)
    BY <2>1 DEF RouteInv
  <2> QED BY <1>1, <2>1, <2>2 DEF RouteOK
<1>3. balance \in Balances /\ locked \in Balances /\ pools \in [PoolKeys -> PoolStates]
  BY DEF TypesInv
<1>4. PICK left : left = [t \in Tokens |-> LeftOver(t)]
  OBVIOUS
<1>5. PICK paid : paid = [t \in Tokens |-> IF PaysTreasury THEN left[t] ELSE 0]
  OBVIOUS
<1>6. PICK kept : kept = [t \in Tokens |-> IF PaysTreasury THEN 0 ELSE left[t]]
  OBVIOUS
<1>7. PICK b, l :
        /\ b = [balance EXCEPT ![Router] = [t \in Tokens |-> balance[Router][t] - left[t]],
                               ![Treasury] = [t \in Tokens |-> balance[Treasury][t] + paid[t]]]
        /\ l = [locked EXCEPT ![Router] = [t \in Tokens |-> locked[Router][t] + kept[t]]]
  OBVIOUS
<1>8. Router \in Accounts /\ Treasury \in Accounts /\ Sender \in Accounts /\ Router # Treasury /\ Sender # Router /\ Sender # Treasury
  BY WhoIsWho
<1>9. \A t \in Tokens : left[t] \in Int /\ paid[t] \in Int /\ kept[t] \in Int /\ paid[t] + kept[t] = left[t]
      /\ left[t] = IF t \in TokensOf(r.path) THEN balance[Router][t] ELSE 0
  <2> SUFFICES ASSUME NEW t \in Tokens
               PROVE  left[t] \in Int /\ paid[t] \in Int /\ kept[t] \in Int /\ paid[t] + kept[t] = left[t]
                      /\ left[t] = IF t \in TokensOf(r.path) THEN balance[Router][t] ELSE 0
    OBVIOUS
  <2>1. left[t] = IF t \in TokensOf(r.path) THEN balance[Router][t] ELSE 0
    BY <1>1, <1>4 DEF LeftOver, TokensToCheck
  <2>2. balance[Router][t] \in Int
    BY <1>3, <1>8 DEF Balances, Amounts
  <2>3. left[t] \in Int
    BY <2>1, <2>2
  <2>4. CASE PaysTreasury
    BY <1>5, <1>6, <2>1, <2>3, <2>4
  <2>5. CASE ~PaysTreasury
    BY <1>5, <1>6, <2>1, <2>3, <2>5
  <2> QED BY <2>4, <2>5
<1>10. balance' = b /\ locked' = l /\ pools' = pools /\ before' = before /\ BoundHolds
       /\ result' = [ok |-> TRUE, route |-> call]
  <2>1. /\ balance' = [balance EXCEPT
              ![Router] = [t \in Tokens |-> balance[Router][t] - LeftOver(t)],
              ![Treasury] = [t \in Tokens |-> balance[Treasury][t] + IF PaysTreasury THEN LeftOver(t) ELSE 0]]
        /\ locked' = [locked EXCEPT
              ![Router] = [t \in Tokens |-> locked[Router][t] + IF PaysTreasury THEN 0 ELSE LeftOver(t)]]
    BY <1>8 DEF Finish
  <2>2. balance' = b /\ locked' = l
    BY <1>4, <1>5, <1>6, <1>7, <2>1
  <2> QED BY <2>2 DEF Finish
<1>11. /\ [t \in Tokens |-> balance[Router][t] - left[t]] \in Amounts
       /\ [t \in Tokens |-> balance[Treasury][t] + paid[t]] \in Amounts
       /\ [t \in Tokens |-> locked[Router][t] + kept[t]] \in Amounts
  BY <1>3, <1>8, <1>9 DEF Balances, Amounts
<1>12. b \in Balances /\ l \in Balances
  BY <1>3, <1>7, <1>8, <1>11 DEF Balances
<1>13. /\ \A a \in Accounts \ {Router, Treasury} : b[a] = balance[a]
       /\ \A a \in Accounts \ {Router} : l[a] = locked[a]
       /\ \A t \in Tokens : /\ b[Router][t] = balance[Router][t] - left[t]
                            /\ b[Treasury][t] = balance[Treasury][t] + paid[t]
                            /\ l[Router][t] = locked[Router][t] + kept[t]
  BY <1>3, <1>7, <1>8 DEF Balances
<1>14. \A a \in Accounts, t \in Tokens : balance[a][t] \in Int /\ locked[a][t] \in Int
  BY <1>3 DEF Balances, Amounts
<1>15. ASSUME NEW t \in Tokens PROVE Total(b, l, t) = Total(balance, locked, t)
  <2>1. PICK d \in Int : d = paid[t]
    BY <1>9
  <2>2. ASSUME NEW a \in Accounts
        PROVE  b[a][t] + l[a][t] = balance[a][t] + locked[a][t]
                    - (IF a = Router THEN d ELSE 0) + (IF a = Treasury THEN d ELSE 0)
    BY <1>8, <1>9, <1>13, <1>14, <2>1
  <2>3. IsShifted(balance, locked, b, l, t, Router, Treasury, d)
    BY <2>2 DEF IsShifted
  <2> QED BY <1>3, <1>8, <1>12, <2>3, TotalMoved
<1>16. StepKeeps
  BY <1>3, <1>10, <1>12, <1>15 DEF StepKeeps
<1>17. Untouched(r, pools, b, before)
  <2>1. ASSUME NEW a \in Accounts, NEW t \in Tokens \ TokensOf(r.path) PROVE b[a][t] = balance[a][t]
    <3>1. left[t] = 0 /\ paid[t] = 0
      <4>1. left[t] = 0
        BY <1>9
      <4> QED BY <1>5, <4>1
    <3> QED BY <1>13, <1>14, <3>1
  <2>2. Touches(r.path, pools, balance, pools, b, {}, Router, Router)
    BY <1>13, <2>1 DEF Touches
  <2>3. {} \in SUBSET (PoolKeys \cap PoolsOf(r.path)) /\ Router \in {Sender, Router} \cup (PoolKeys \cap PoolsOf(r.path))
        /\ Router \in {r.receiver, Router} \cup (PoolKeys \cap PoolsOf(r.path))
    OBVIOUS
  <2> QED BY <1>2, <2>2, <2>3, StillUntouched
<1>18. Gains(r, b, before)
  <2>1. PICK x \in Int, y \in Int : Exchanged(r, balance, before, x, y) /\ SoFar(r, x, y)
    BY <1>2 DEF Gains
  <2>2. b[Sender] = balance[Sender]
    BY <1>8, <1>13
  <2>3. Exchanged(r, b, before, x, y)
    BY <2>1, <2>2 DEF Exchanged
  <2> QED BY <2>1, <2>3 DEF Gains
<1>19. \A t \in TokensOf(r.path) : b[Router][t] = 0
  <2> SUFFICES ASSUME NEW t \in TokensOf(r.path) PROVE b[Router][t] = 0
    OBVIOUS
  <2>1. t \in Tokens
    BY <1>2 DEF Along
  <2> QED BY <1>8, <1>9, <1>13, <1>14, <2>1
<1>20. WithinBound(r, r.amount)
  BY <1>1, <1>10 DEF BoundHolds
<1>21. RouteDone(r, pools, b, before)
  BY <1>2, <1>17, <1>18, <1>19, <1>20 DEF RouteDone, RouteOK
<1> QED BY <1>1, <1>10, <1>16, <1>21

\* A route that throws undoes what it has done.
LEMMA RevertKeeps ==
    ASSUME TypesInv, Revert
    PROVE  /\ pools' \in [PoolKeys -> PoolStates] /\ balance' \in Balances /\ locked' \in Balances
           /\ before' = before /\ SameTotals(balance', locked', before)
           /\ result'.ok = FALSE /\ call' = None
<1>1. before \in States
  BY DEF TypesInv, Started, Revert
<1>2. before.pools \in [PoolKeys -> PoolStates] /\ before.balance \in Balances /\ before.locked \in Balances
  BY <1>1 DEF States
<1>3. /\ pools' = before.pools /\ balance' = before.balance /\ locked' = before.locked
      /\ before' = before /\ call' = None /\ result' = [ok |-> FALSE, route |-> call]
  BY DEF Revert
<1>4. SameTotals(before.balance, before.locked, before)
  BY DEF SameTotals
<1>5. result'.ok = FALSE
  BY <1>3
<1> QED BY <1>2, <1>3, <1>4, <1>5

\* What the sender has asked for stays the same along the route.
SameOrder(r, r2) ==
    /\ r2.path = r.path /\ r2.receiver = r.receiver /\ r2.limit = r.limit /\ r2.bound = r.bound
    /\ r2.exactInput = r.exactInput /\ r2.specified = r.specified

\* The order of a route stays the same along it.
LEMMA SameOrderKept ==
    ASSUME TypesInv, SwapIn \/ SwapOut \/ PayOut \/ ReturnOut
    PROVE  SameOrder(call, call') /\ call # None /\ UNCHANGED result
<1>1. call # None /\ UNCHANGED result
  BY DEF SwapIn, SwapOut, PayOut, ReturnOut
<1>2. PICK r \in RouteRecords : r = call
  BY <1>1 DEF TypesInv
<1>3. CASE SwapIn
  <2>1. PICK amount : call' = AfterInput(call, amount)
    BY <1>3 DEF SwapIn, AfterInput
  <2>2. PICK r2 : r2 = AfterInput(r, amount)
    OBVIOUS
  <2>3. SameOrder(r, r2)
    <3>1. CASE HasMultiplePools(r.rest)
      BY <2>2, <3>1 DEF AfterInput, SameOrder, RouteRecords
    <3>2. CASE ~HasMultiplePools(r.rest)
      BY <2>2, <3>2 DEF AfterInput, SameOrder, RouteRecords
    <3> QED BY <3>1, <3>2
  <2> QED BY <1>1, <1>2, <2>1, <2>2, <2>3
<1>4. CASE SwapOut
  <2>a. PICK swap \in {HopResult}, more \in {HasMultiplePools(call.rest)} :
          /\ CanPayOut(swap)
          /\ balance' = PaidOut(HopKey, TokenTaken, TokenGiven, swap, RecipientOf(call.recipient))
          /\ locked' = LockedBy(HopKey, TokenTaken, swap.protocolFee)
          /\ call' = [call EXCEPT
                !.stack = Append(@, [key |-> HopKey, token |-> TokenTaken, wanted |-> call.amount,
                                     balanceBefore |-> balance'[HopKey][TokenTaken], swap |-> swap]),
                !.amount = swap.amountIn,
                !.recipient = HopKey,
                !.rest = IF more THEN SkipToken(@) ELSE @,
                !.phase = IF more THEN "output" ELSE "pay"]
          /\ UNCHANGED <<pools, hasTreasury, result, before>>
    BY <1>4, Zenon DEF SwapOut
  <2>b. PICK stack, amount, key, rest, phase :
          /\ stack = Append(call.stack, [key |-> HopKey, token |-> TokenTaken, wanted |-> call.amount,
                                         balanceBefore |-> balance'[HopKey][TokenTaken], swap |-> swap])
          /\ amount = swap.amountIn /\ key = HopKey
          /\ rest = (IF more THEN SkipToken(call.rest) ELSE call.rest)
          /\ phase = (IF more THEN "output" ELSE "pay")
    OBVIOUS
  <2>1. call' = [call EXCEPT !.stack = stack, !.amount = amount, !.recipient = key, !.rest = rest, !.phase = phase]
    BY ONLY <2>a, <2>b, Zenon
  <2>2. PICK r2 : r2 = [r EXCEPT !.stack = stack, !.amount = amount, !.recipient = key, !.rest = rest, !.phase = phase]
    OBVIOUS
  <2>3. SameOrder(r, r2)
    BY <2>2 DEF SameOrder, RouteRecords
  <2> QED BY <1>1, <1>2, <2>1, <2>2, <2>3
<1>5. CASE PayOut
  <2>1. PICK r2 : r2 = [r EXCEPT !.phase = "return"]
    OBVIOUS
  <2>2. SameOrder(r, r2)
    BY <2>1 DEF SameOrder, RouteRecords
  <2> QED BY <1>1, <1>2, <1>5, <2>1, <2>2 DEF PayOut
<1>6. CASE ReturnOut
  <2>1. PICK stack, phase : call' = [call EXCEPT !.stack = stack, !.phase = phase]
    BY <1>6 DEF ReturnOut
  <2>2. PICK r2 : r2 = [r EXCEPT !.stack = stack, !.phase = phase]
    OBVIOUS
  <2>3. SameOrder(r, r2)
    BY <2>2 DEF SameOrder, RouteRecords
  <2> QED BY <1>1, <1>2, <2>1, <2>2, <2>3
<1> QED BY <1>3, <1>4, <1>5, <1>6

-----------------------------------------------------------------------------
(* The steps of a transaction *)

\* A step of a route within a transaction
LEMMA RouteGoesOn ==
    ASSUME RouteIInv, SwapIn \/ SwapOut \/ PayOut \/ ReturnOut, UNCHANGED <<icoVars, tx>>
    PROVE  RouteIInv'
<1>1. /\ TypesInv /\ KeptInv /\ RouteInv /\ ResultInv /\ TxInv /\ EndsInv /\ AfterInv
      /\ PurchaseInv /\ BoughtInv
  BY DEF RouteIInv
<1>2. StepKeeps /\ RouteOK(call', pools', balance', before)
  BY <1>1, SwapInKeeps, SwapOutKeeps, PayOutKeeps, ReturnOutKeeps
<1>3. SameOrder(call, call') /\ call # None /\ result' = result
  BY <1>1, SameOrderKept
<1>4. call' \in RouteRecords /\ call' # None
  BY <1>2, SwapRouterAssumption DEF RouteOK, NoneIsNoRecord
<1>5. purchase' = purchase /\ bought' = bought /\ tx' = tx
  BY DEF icoVars
<1>6. result = None /\ bought = None
  BY <1>1, <1>3 DEF EndsInv
<1>7. before \in States /\ before' = before
  BY <1>1, <1>2, <1>3 DEF TypesInv, Started, StepKeeps
<1>8. TypesInv'
  BY <1>2, <1>4, <1>7 DEF TypesInv, StepKeeps
<1>9. KeptInv'
  <2>1. SameTotals(balance, locked, before)
    BY <1>1, <1>3 DEF KeptInv, Started
  <2>2. SameTotals(balance', locked', before)
    BY <1>2, <2>1 DEF SameTotals, StepKeeps
  <2> QED BY <1>7, <2>2 DEF KeptInv
<1>10. RouteInv'
  BY <1>2, <1>7 DEF RouteInv
<1>11. ResultInv'
  BY <1>3, <1>6 DEF ResultInv
<1>12. tx # None => tx.stage \notin {"fee", "base", "command", "after"}
  BY <1>1, <1>3 DEF TxInv
<1>13. TxInv' /\ AfterInv'
  BY <1>1, <1>5, <1>12 DEF TxInv, AfterInv
<1>14. EndsInv'
  BY <1>3, <1>5, <1>6 DEF EndsInv
<1>15. PurchaseInv'
  <2>1. ASSUME purchase # None
        PROVE  HasPath(purchase) /\ FirstLeg(call, purchase)
    BY <1>1, <1>3, <2>1 DEF PurchaseInv
  <2>2. ASSUME purchase # None
        PROVE  FirstLeg(call', purchase)
    BY <1>3, <2>1, <2>2 DEF FirstLeg, SameOrder
  <2> QED BY <1>1, <1>4, <1>5, <2>1, <2>2 DEF PurchaseInv
<1>16. BoughtInv'
  BY <1>5, <1>6 DEF BoughtInv
<1> QED BY <1>8, <1>9, <1>10, <1>11, <1>13, <1>14, <1>15, <1>16 DEF RouteIInv

\* The result of a route is not None.
LEMMA NoResultIsNone ==
    ASSUME NEW route \in RouteRecords, NEW ok \in BOOLEAN
    PROVE  [ok |-> ok, route |-> route] # None
BY SwapRouterAssumption DEF NoneIsNoRecord

\* A route ends within a transaction.
LEMMA RouteEnds ==
    ASSUME RouteIInv, Finish \/ Revert, UNCHANGED <<icoVars, tx>>
    PROVE  RouteIInv'
<1>1. /\ TypesInv /\ KeptInv /\ RouteInv /\ ResultInv /\ TxInv /\ EndsInv /\ AfterInv
      /\ PurchaseInv /\ BoughtInv
  BY DEF RouteIInv
<1>2. call # None /\ call' = None
  BY DEF Finish, Revert
<1>3. call \in RouteRecords
  BY <1>1, <1>2 DEF TypesInv
<1>4. purchase' = purchase /\ bought' = bought /\ tx' = tx
  BY DEF icoVars
<1>5. bought = None
  BY <1>1, <1>2 DEF EndsInv
<1>6. before \in States /\ SameTotals(balance, locked, before)
  BY <1>1, <1>2 DEF TypesInv, KeptInv, Started
<1>7. /\ pools' \in [PoolKeys -> PoolStates] /\ balance' \in Balances /\ locked' \in Balances
      /\ before' = before /\ SameTotals(balance', locked', before)
      /\ result' # None
      /\ result'.ok => result'.route = call /\ RouteDone(result'.route, pools', balance', before)
  <2>1. CASE Finish
    <3>1. /\ StepKeeps /\ result'.ok = TRUE /\ result'.route = call
          /\ RouteDone(call, pools', balance', before)
      BY <1>1, <2>1, FinishKeeps
    <3>2. SameTotals(balance', locked', before)
      BY <1>6, <3>1 DEF SameTotals, StepKeeps
    <3>3. result' = [ok |-> TRUE, route |-> call]
      BY <2>1 DEF Finish
    <3>4. result' # None
      BY <1>3, <3>3, NoResultIsNone
    <3> QED BY <3>1, <3>2, <3>4 DEF StepKeeps
  <2>2. CASE Revert
    <3>1. /\ pools' \in [PoolKeys -> PoolStates] /\ balance' \in Balances /\ locked' \in Balances
          /\ before' = before /\ SameTotals(balance', locked', before)
          /\ result'.ok = FALSE
      BY <1>1, <2>2, RevertKeeps
    <3>2. result' = [ok |-> FALSE, route |-> call]
      BY <2>2 DEF Revert
    <3>3. result' # None
      BY <1>3, <3>2, NoResultIsNone
    <3> QED BY <3>1, <3>3
  <2> QED BY <2>1, <2>2
<1>8. TypesInv'
  BY <1>2, <1>6, <1>7 DEF TypesInv
<1>9. KeptInv'
  BY <1>7 DEF KeptInv
<1>10. RouteInv'
  BY <1>2 DEF RouteInv
<1>11. ResultInv'
  BY <1>7 DEF ResultInv
<1>12. tx # None => tx.stage \notin {"fee", "base", "command", "after"}
  BY <1>1, <1>2 DEF TxInv
<1>13. TxInv' /\ AfterInv'
  BY <1>1, <1>4, <1>12 DEF TxInv, AfterInv
<1>14. EndsInv'
  BY <1>2, <1>4, <1>5 DEF EndsInv
<1>15. PurchaseInv'
  <2>1. ASSUME purchase # None
        PROVE  HasPath(purchase) /\ FirstLeg(call, purchase)
    BY <1>1, <1>2, <2>1 DEF PurchaseInv
  <2> QED BY <1>1, <1>2, <1>4, <1>7, <2>1 DEF PurchaseInv
<1>16. BoughtInv'
  BY <1>4, <1>5 DEF BoughtInv
<1> QED BY <1>8, <1>9, <1>10, <1>11, <1>13, <1>14, <1>15, <1>16 DEF RouteIInv

-----------------------------------------------------------------------------
(* The first state *)

\* What a position is worth is an amount.
LEMMA WorthNat ==
    ASSUME NEW key \in PoolKeys, NEW price \in MinRatio + 1 .. MaxRatio - 1, NEW side
    PROVE  PositionWorth(key, price, side, TRUE) \in Nat
<1>1. /\ price \in Nat \ {0} /\ MinRatio \in Nat \ {0} /\ MaxRatio \in Nat \ {0}
      /\ MinRatio <= price /\ price <= MaxRatio
  BY RatiosNat
<1>2. Liquidity[key] \in Nat
  BY KeyParts
<1>3. Amount0(price, MaxRatio, Liquidity[key], TRUE) \in Nat
  BY <1>1, <1>2, Amount0Up
<1>4. Amount1(MinRatio, price, Liquidity[key], TRUE) \in Nat
  BY <1>1, <1>2, Amount1Up
<1> QED BY <1>3, <1>4 DEF PositionWorth

\* The invariant holds at first.
LEMMA InitHolds == Init => RouteIInv
<1> SUFFICES ASSUME Init PROVE RouteIInv
  OBVIOUS
<1>1. /\ call = None /\ result = None /\ purchase = None /\ bought = None /\ tx = None
  BY DEF Init, RouterInit
<1>2. pools = [k \in PoolKeys |-> [sqrtPrice |-> StartPrices[k], feeGrowth |-> [i \in {0, 1} |-> 0]]]
  BY DEF Init, RouterInit
<1>3. pools \in [PoolKeys -> PoolStates]
  <2>1. \A k \in PoolKeys : StartPrices[k] \in MinRatio + 1 .. MaxRatio - 1
    BY SwapRouterAssumption
  <2>2. [i \in {0, 1} |-> 0] \in [{0, 1} -> Nat]
    OBVIOUS
  <2>3. \A k \in PoolKeys :
            [sqrtPrice |-> StartPrices[k], feeGrowth |-> [i \in {0, 1} |-> 0]] \in PoolStates
    BY <2>1, <2>2 DEF PoolStates
  <2> QED BY <1>2, <2>3
<1>4. NoTokens \in Amounts
  BY DEF NoTokens, Amounts
<1>5. locked \in Balances
  BY <1>4 DEF Init, RouterInit, Balances
<1>6. balance \in Balances
  <2>1. balance = [a \in Accounts |->
            IF a \in DOMAIN Holdings THEN Holdings[a]
            ELSE IF a \in {Router, Treasury} THEN NoTokens
            ELSE [t \in Tokens |-> IF t \in {a[1], a[2]}
                                   THEN PositionWorth(a, StartPrices[a], Side(a, t), TRUE) ELSE 0]]
    BY DEF Init, RouterInit
  <2>2. ASSUME NEW a \in PoolKeys
        PROVE  [t \in Tokens |-> IF t \in {a[1], a[2]}
                                 THEN PositionWorth(a, StartPrices[a], Side(a, t), TRUE) ELSE 0] \in Amounts
    <3>1. StartPrices[a] \in MinRatio + 1 .. MaxRatio - 1
      BY SwapRouterAssumption
    <3>2. \A t \in Tokens : PositionWorth(a, StartPrices[a], Side(a, t), TRUE) \in Nat
      BY <3>1, WorthNat
    <3>3. ASSUME NEW t \in Tokens
          PROVE  (IF t \in {a[1], a[2]} THEN PositionWorth(a, StartPrices[a], Side(a, t), TRUE) ELSE 0) \in Int
      <4>1. PICK n \in Nat : n = PositionWorth(a, StartPrices[a], Side(a, t), TRUE)
        BY <3>2
      <4>2. n \in Int /\ 0 \in Int
        OBVIOUS
      <4> QED BY <4>1, <4>2, Zenon
    <3> QED BY <3>3, Zenon DEF Amounts
  <2>3. \A a \in DOMAIN Holdings : Holdings[a] \in Amounts
    <3>1. \A a \in DOMAIN Holdings : Holdings[a] \in [Tokens -> Nat]
      BY SwapRouterAssumption DEF HoldingsAre
    <3> QED BY <3>1 DEF Amounts
  <2>4. \A a \in Accounts : a \in DOMAIN Holdings \/ a \in {Router, Treasury} \/ a \in PoolKeys
    BY DEF Accounts
  <2>5. ASSUME NEW a \in Accounts PROVE balance[a] \in Amounts
    BY <1>4, <2>1, <2>2, <2>3, <2>4, Zenon
  <2> QED BY <2>1, <2>5 DEF Balances
<1>7. ~Started
  BY <1>1 DEF Started
<1> QED BY <1>1, <1>3, <1>5, <1>6, <1>7
        DEF RouteIInv, TypesInv, KeptInv, RouteInv, ResultInv, TxInv, EndsInv, AfterInv, PurchaseInv, BoughtInv

-----------------------------------------------------------------------------
(* What others do in between *)

\* Between transactions only the types matter.
LEMMA NothingStarted ==
    ASSUME pools' \in [PoolKeys -> PoolStates], balance' \in Balances, locked' \in Balances,
           call' = None, purchase' = None, result' = None, bought' = None, tx' = None
    PROVE  RouteIInv'
<1>1. ~Started'
  BY DEF Started
<1> QED BY <1>1
        DEF RouteIInv, TypesInv, KeptInv, RouteInv, ResultInv, TxInv, EndsInv, AfterInv, PurchaseInv, BoughtInv

\* What others do in between keeps it.
LEMMA MeanwhileKeeps ==
    ASSUME RouteIInv, Meanwhile
    PROVE  RouteIInv'
<1>1. pools \in [PoolKeys -> PoolStates] /\ balance \in Balances /\ locked \in Balances
  BY DEF RouteIInv, TypesInv
<1>2. call = None /\ purchase' = None /\ bought' = None /\ tx' = None
  BY DEF Meanwhile, Idle
<1>3. /\ pools' = pools /\ call' = None /\ result' = None
      /\ balance' \in Balances /\ locked' \in Balances
  <2>1. ASSUME NEW donation \in Donations, Donate(donation[1], donation[2], donation[3])
        PROVE  /\ pools' = pools /\ call' = None /\ result' = None
               /\ balance' \in Balances /\ locked' \in Balances
    <3>1. donation \in (PoolKeys \cup {Router}) \X Tokens \X (Nat \ {0})
      BY FeeConversionAssumption
    <3>2. PICK a \in PoolKeys \cup {Router}, t \in Tokens, n \in Nat :
            a = donation[1] /\ t = donation[2] /\ n = donation[3]
      BY <3>1
    <3>3. balance' = Transferred(balance, Sender, a, t, n)
      BY <2>1, <3>2 DEF Donate
    <3>4. a \in Accounts /\ Sender \in Accounts /\ n \in Int
      BY WhoIsWho
    <3>5. balance' \in Balances
      BY <1>1, <3>3, <3>4, TransferredIs
    <3> QED BY <1>1, <1>2, <2>1, <3>5 DEF Donate
  <2>2. ASSUME NEW a \in PoolKeys \cup {Router}, NEW t \in Tokens, Treasurify(a, t)
        PROVE  /\ pools' = pools /\ call' = None /\ result' = None
               /\ balance' \in Balances /\ locked' \in Balances
    <3>1. PICK all : all = balance[a][t] + locked[a][t]
      OBVIOUS
    <3>2. a \in Accounts /\ Treasury \in Accounts
      BY WhoIsWho
    <3>3. balance[a] \in Amounts /\ locked[a] \in Amounts /\ all \in Int
      BY <1>1, <3>1, <3>2 DEF Balances, Amounts
    <3>4. PICK b : b = [balance EXCEPT ![a] = [balance[a] EXCEPT ![t] = all]]
      OBVIOUS
    <3>5. b \in Balances
      BY <1>1, <3>2, <3>3, <3>4 DEF Balances, Amounts
    <3>6. balance' = Transferred(b, a, Treasury, t, all)
      BY <2>2, <3>1, <3>4 DEF Treasurify
    <3>7. balance' \in Balances
      BY <3>2, <3>3, <3>5, <3>6, TransferredIs
    <3>8. locked' = [locked EXCEPT ![a] = [locked[a] EXCEPT ![t] = 0]]
      BY <2>2 DEF Treasurify
    <3>9. locked' \in Balances
      BY <1>1, <3>2, <3>3, <3>8 DEF Balances, Amounts
    <3> QED BY <1>2, <2>2, <3>7, <3>9 DEF Treasurify
  <2>3. ASSUME SetFeeProtocolPool
        PROVE  /\ pools' = pools /\ call' = None /\ result' = None
               /\ balance' \in Balances /\ locked' \in Balances
    BY <1>1, <1>2, <2>3 DEF SetFeeProtocolPool
  <2> QED BY <2>1, <2>2, <2>3 DEF Meanwhile
<1> QED BY <1>1, <1>2, <1>3, NothingStarted

-----------------------------------------------------------------------------
(* Steps of a transaction that swap nothing *)

\* Nothing changes but what is counted.
LEMMA Stutters ==
    ASSUME RouteIInv, UNCHANGED <<routerVars, icoVars, tx>>
    PROVE  RouteIInv'
BY DEF RouteIInv, TypesInv, KeptInv, RouteInv, ResultInv, TxInv, EndsInv, AfterInv, PurchaseInv, BoughtInv,
       Started, routerVars, icoVars

\* The parts of a transaction, and that it stays one
LEMMA TxParts ==
    ASSUME NEW x, IsTx(x)
    PROVE  /\ x.plan.command \in Commands /\ x.plan.fee \in Nat /\ Suits(x.plan.command)
           /\ x.stage \in Stages /\ x.start \in States
           /\ \A stage \in Stages :
                 /\ IsTx([x EXCEPT !.stage = stage])
                 /\ [x EXCEPT !.stage = stage].stage = stage
                 /\ [x EXCEPT !.stage = stage].plan = x.plan
<1>1. PICK plan, stage, start :
        /\ x = [plan |-> plan, stage |-> stage, start |-> start]
        /\ plan.command \in Commands /\ plan.fee \in TxFees /\ Suits(plan.command)
        /\ stage \in Stages /\ start \in States
  BY Zenon DEF IsTx
<1>2. x.plan = plan /\ x.stage = stage /\ x.start = start
  BY <1>1
<1>3. plan.fee \in Nat
  BY <1>1, FeeConversionAssumption
<1>4. ASSUME NEW s \in Stages
      PROVE  /\ IsTx([x EXCEPT !.stage = s])
             /\ [x EXCEPT !.stage = s].stage = s /\ [x EXCEPT !.stage = s].plan = x.plan
  <2>1. PICK y : y = [plan |-> plan, stage |-> s, start |-> start]
    OBVIOUS
  <2>2. [x EXCEPT !.stage = s] = y
    BY <1>1, <2>1
  <2>3. IsTx(y)
    BY <1>1, <2>1, Zenon DEF IsTx
  <2> QED BY <1>1, <1>2, <2>1, <2>2, <2>3
<1> QED BY <1>1, <1>2, <1>3, <1>4

\* A command is what it is assumed to be.
LEMMA CommandIs ==
    ASSUME NEW c \in Commands
    PROVE  IsCommand(c)
BY FeeConversionAssumption DEF CommandsAre

\* Only the stage changes.
LEMMA NextStage ==
    ASSUME RouteIInv, UNCHANGED <<routerVars, icoVars>>, TxInv',
           tx' # None => tx'.stage \notin {"after", "swapping"}
    PROVE  RouteIInv'
<1>1. Started' => Started
  BY DEF Started, routerVars, icoVars
<1>2. TypesInv' /\ KeptInv'
  BY <1>1 DEF RouteIInv, TypesInv, KeptInv, routerVars
<1>3. RouteInv' /\ ResultInv' /\ EndsInv' /\ PurchaseInv' /\ BoughtInv'
  BY DEF RouteIInv, RouteInv, ResultInv, EndsInv, PurchaseInv, BoughtInv, routerVars, icoVars
<1> QED BY <1>2, <1>3 DEF RouteIInv, AfterInv

\* Nothing has been swapped or bought that a revert would undo.
LEMMA Unstarted ==
    ASSUME pools' \in [PoolKeys -> PoolStates], balance' \in Balances, locked' \in Balances,
           call' = None, purchase' = None, result' = None, bought' = None, TxInv',
           tx' # None => tx'.stage \notin {"after", "swapping"}
    PROVE  RouteIInv'
<1>1. ~Started'
  BY DEF Started
<1> QED BY <1>1
        DEF RouteIInv, TypesInv, KeptInv, RouteInv, ResultInv, EndsInv, AfterInv, PurchaseInv, BoughtInv

\* What is verified suits the modules.
LEMMA VerifiedSuits ==
    ASSUME NEW plan, Verified(plan)
    PROVE  Suits(plan.command)
BY Zenon DEF Verified, ModulesAgree, Suits

\* What is now is a state.
LEMMA NowIsState ==
    ASSUME TypesInv
    PROVE  /\ Now \in States /\ Now.pools = pools /\ Now.balance = balance /\ Now.locked = locked
           /\ SameTotals(balance, locked, Now)
BY DEF TypesInv, Now, States, SameTotals

\* A transaction begins.
LEMMA TxBegins ==
    ASSUME TypesInv, NEW command \in Commands, NEW fee \in TxFees, NEW plan, plan = Plan(command, fee),
           Verified(plan), NEW stage \in Stages, NEW x,
           x = [plan |-> plan, stage |-> stage, start |-> Now]
    PROVE  IsTx(x) /\ x.stage = stage /\ x.plan = plan
<1>1. plan.command = command /\ plan.fee = fee
  BY DEF Plan
<1>2. Suits(plan.command)
  BY VerifiedSuits
<1>3. Now \in States
  BY NowIsState
<1>4. IsTx(x)
  BY <1>1, <1>2, <1>3, Zenon DEF IsTx
<1> QED BY <1>4

\* A transaction that converts nothing
LEMMA NoConversionKeeps ==
    ASSUME RouteIInv, Idle, NEW command \in Commands, NEW fee \in TxFees, NEW plan,
           plan = Plan(command, fee), NoConversion(plan)
    PROVE  RouteIInv'
<1>1. TypesInv
  BY DEF RouteIInv
<1>2. /\ call' = None /\ purchase' = None /\ result' = None /\ bought' = None
      /\ pools' = pools /\ balance' = balance /\ locked' = locked
      /\ tx' = [plan |-> plan, stage |-> "fee", start |-> Now]
  BY DEF NoConversion, Idle
<1>3. IsTx(tx') /\ tx'.stage = "fee"
  BY <1>1, <1>2, TxBegins DEF NoConversion, Stages
<1>4. TxInv'
  BY <1>2, <1>3 DEF TxInv
<1>5. pools' \in [PoolKeys -> PoolStates] /\ balance' \in Balances /\ locked' \in Balances
  BY <1>1, <1>2 DEF TypesInv
<1> QED BY <1>2, <1>3, <1>4, <1>5, Unstarted

\* The end of a conversion
LEMMA ConvertedKeeps ==
    ASSUME RouteIInv, Converted
    PROVE  RouteIInv'
<1>1. /\ tx # None /\ tx.stage = "converting" /\ call = None
      /\ tx' = None \/ tx' = [tx EXCEPT !.stage = "fee"]
      /\ UNCHANGED <<routerVars, icoVars>>
  BY DEF Converted
<1>2. IsTx(tx) /\ purchase = None /\ bought = None
  BY <1>1 DEF RouteIInv, TxInv
<1>3. call' = None /\ purchase' = None /\ bought' = None
  BY <1>1, <1>2 DEF routerVars, icoVars
<1>4. ASSUME tx' # None PROVE IsTx(tx') /\ tx'.stage = "fee"
  <2>1. tx' = [tx EXCEPT !.stage = "fee"] /\ "fee" \in Stages
    BY <1>1, <1>4 DEF Stages
  <2> QED BY <1>2, <2>1, TxParts
<1>5. TxInv'
  BY <1>3, <1>4 DEF TxInv
<1> QED BY <1>1, <1>4, <1>5, NextStage

\* The base fee
LEMMA ExecuteBaseFeeKeeps ==
    ASSUME RouteIInv, ExecuteBaseFee
    PROVE  RouteIInv'
<1>1. /\ tx # None /\ tx.stage = "base" /\ tx' = [tx EXCEPT !.stage = "command"]
      /\ UNCHANGED <<routerVars, icoVars>>
  BY DEF ExecuteBaseFee
<1>2. IsTx(tx) /\ call = None /\ purchase = None /\ bought = None /\ result = None
  BY <1>1 DEF RouteIInv, TxInv
<1>3. call' = None /\ purchase' = None /\ bought' = None /\ result' = None
  BY <1>1, <1>2 DEF routerVars, icoVars
<1>4. IsTx(tx') /\ tx'.stage = "command"
  BY <1>1, <1>2, TxParts DEF Stages
<1>5. TxInv'
  BY <1>3, <1>4 DEF TxInv
<1> QED BY <1>1, <1>4, <1>5, NextStage

\* The transaction is over.
LEMMA TxEnds ==
    ASSUME RouteIInv, EndCommand \/ NoSwap \/ EndHook
    PROVE  RouteIInv'
<1>1. tx' = None /\ UNCHANGED <<routerVars, icoVars>>
  BY DEF EndCommand, NoSwap, EndHook
<1>2. TxInv'
  BY <1>1 DEF TxInv
<1> QED BY <1>1, <1>2, NextStage

\* The fee
LEMMA TakeFeeKeeps ==
    ASSUME RouteIInv, TakeFee
    PROVE  RouteIInv'
<1>1. TypesInv
  BY DEF RouteIInv
<1>2. /\ tx # None /\ tx.stage = "fee" /\ tx' = [tx EXCEPT !.stage = "base"]
      /\ balance' = [balance EXCEPT ![Sender] = [balance[Sender] EXCEPT ![Native] = @ - tx.plan.fee]]
      /\ result' = None /\ UNCHANGED <<pools, locked, call, icoVars>>
  BY DEF TakeFee
<1>3. IsTx(tx) /\ call = None /\ purchase = None /\ bought = None
  BY <1>2 DEF RouteIInv, TxInv
<1>4. call' = None /\ purchase' = None /\ bought' = None
  BY <1>2, <1>3 DEF icoVars
<1>5. IsTx(tx') /\ tx'.stage = "base"
  BY <1>2, <1>3, TxParts DEF Stages
<1>6. TxInv'
  BY <1>2, <1>4, <1>5 DEF TxInv
<1>7. PICK n \in Nat : n = tx.plan.fee
  BY <1>3, TxParts
<1>8. balance[Sender] \in Amounts /\ Native \in Tokens /\ Sender \in Accounts
  BY <1>1, WhoIsWho, FeeConversionAssumption DEF TypesInv, Balances
<1>9. [balance[Sender] EXCEPT ![Native] = @ - n] \in Amounts
  BY <1>8 DEF Amounts
<1>10. balance' \in Balances
  BY <1>1, <1>2, <1>7, <1>8, <1>9 DEF TypesInv, Balances
<1>11. pools' \in [PoolKeys -> PoolStates] /\ locked' \in Balances
  BY <1>1, <1>2 DEF TypesInv
<1> QED BY <1>2, <1>4, <1>5, <1>6, <1>10, <1>11, Unstarted

\* What is not valid is undone.
LEMMA InvalidKeeps ==
    ASSUME RouteIInv, Invalid
    PROVE  RouteIInv'
<1>1. /\ tx # None /\ call' = call /\ purchase' = purchase
      /\ (call = None /\ purchase = None) \/ tx.stage = "base"
      /\ pools' = tx.start.pools /\ balance' = tx.start.balance /\ locked' = tx.start.locked
      /\ result' = None /\ bought' = None /\ tx' = None
  BY DEF Invalid, HookEnds
<1>2. TxInv
  BY DEF RouteIInv
<1>3. IsTx(tx) /\ call' = None /\ purchase' = None
  BY <1>1, <1>2 DEF TxInv
<1>4. tx.start \in States
  BY <1>3, TxParts
<1>5. pools' \in [PoolKeys -> PoolStates] /\ balance' \in Balances /\ locked' \in Balances
  BY <1>1, <1>4 DEF States
<1> QED BY <1>1, <1>3, <1>5, NothingStarted

\* A transfer
LEMMA TransferCommandKeeps ==
    ASSUME RouteIInv, TransferCommand
    PROVE  RouteIInv'
<1>1. TypesInv /\ EndsInv
  BY DEF RouteIInv
<1>2. PICK c : c = tx.plan.command
  OBVIOUS
<1>3. /\ tx # None /\ tx.stage = "command" /\ IsTransfer(c) /\ tx' = [tx EXCEPT !.stage = "after"]
      /\ balance' = IF balance[Sender][c.path[1]] >= c.amount
                    THEN Transferred(balance, Sender, c.recipient, c.path[1], c.amount) ELSE balance
      /\ before' = Now /\ UNCHANGED <<pools, locked, call, result, icoVars>>
  BY <1>2 DEF TransferCommand
<1>4. IsTx(tx) /\ call = None /\ purchase = None /\ bought = None /\ result = None
  BY <1>3 DEF RouteIInv, TxInv
<1>5. call' = None /\ purchase' = None /\ bought' = None /\ result' = None
  BY <1>3, <1>4 DEF icoVars
<1>6. IsTx(tx') /\ tx'.stage = "after" /\ tx'.plan.command = c
  BY <1>2, <1>3, <1>4, TxParts DEF Stages
<1>7. TxInv'
  BY <1>5, <1>6 DEF TxInv
<1>8. c \in Commands /\ IsCommand(c)
  BY <1>2, <1>4, TxParts, CommandIs
<1>9. PICK to \in Accounts, token \in Tokens, n \in Nat : to = c.recipient /\ token = c.path[1] /\ n = c.amount
  BY <1>3, <1>8 DEF IsCommand, IsTransfer, SwapNames
<1>10. /\ Now \in States /\ Now.pools = pools /\ Now.balance = balance /\ Now.locked = locked
       /\ SameTotals(balance, locked, Now)
  BY <1>1, NowIsState
<1>11. Sent1(c, balance', Now)
  BY <1>3, <1>10 DEF Sent1
<1>12. balance' \in Balances /\ \A t \in Tokens : Total(balance', locked, t) = Total(balance, locked, t)
  <2>1. Sender \in Accounts /\ n \in Int /\ balance \in Balances /\ locked \in Balances
    BY <1>1, WhoIsWho DEF TypesInv
  <2>2. CASE balance[Sender][token] >= n
    <3>1. balance' = Transferred(balance, Sender, to, token, n)
      BY <1>3, <1>9, <2>2
    <3> QED BY <2>1, <3>1, TransferredIs, TransferredTotal
  <2>3. CASE ~(balance[Sender][token] >= n)
    <3>1. balance' = balance
      BY <1>3, <1>9, <2>3
    <3> QED BY <2>1, <3>1
  <2> QED BY <2>2, <2>3
<1>13. SameTotals(balance', locked', before')
  BY <1>3, <1>10, <1>12 DEF SameTotals
<1>14. TypesInv'
  BY <1>1, <1>3, <1>5, <1>10, <1>12 DEF TypesInv
<1>15. AfterInv'
  BY <1>3, <1>6, <1>10, <1>11 DEF AfterInv
<1>16. KeptInv' /\ RouteInv' /\ ResultInv' /\ EndsInv' /\ PurchaseInv' /\ BoughtInv'
  BY <1>5, <1>13 DEF KeptInv, RouteInv, ResultInv, EndsInv, PurchaseInv, BoughtInv
<1> QED BY <1>7, <1>14, <1>15, <1>16 DEF RouteIInv

-----------------------------------------------------------------------------
(* The beginning of a route *)

\* A path of pools is long enough and of odd length.
LEMMA OddPathIs ==
    ASSUME NEW path, IsPath(path), Len(path) >= 3
    PROVE  OddPath(path)
<1>1. path \in Seq(Nat) /\ Len(path) % 2 = 1
  BY DEF IsPath
<1>2. PICK l \in Nat : l = Len(path)
  BY <1>1
<1>3. PICK n \in Int : n = l \div 2 /\ 2 * n <= l /\ l < 2 * n + 2
  BY DivBounds
<1>4. l % 2 = l - 2 * n
  <2>1. l \in Int /\ 2 \in Nat \ {0}
    OBVIOUS
  <2>2. l % 2 = l - 2 * (l \div 2)
    BY <2>1, ModIs
  <2> QED BY <1>3, <2>2
<1>5. n \in Nat \ {0} /\ l = 2 * n + 1
  BY <1>1, <1>2, <1>3, <1>4
<1> QED BY <1>1, <1>2, <1>5 DEF OddPath

\* A route at its beginning: nothing has been passed, nothing got.
Fresh(r) ==
    /\ r \in RouteRecords /\ OddPath(r.path) /\ r.rest = r.path
    /\ r.recipient = r.receiver /\ r.stack = << >> /\ r.amount = r.specified
    /\ r.phase = IF r.exactInput THEN "input" ELSE "output"
    /\ r.payer = Sender \/ (r.exactInput /\ r.payer \in PoolKeys \cap PoolsOf(r.path))

\* A route that begins
LEMMA FreshRoute ==
    ASSUME NEW r, Fresh(r), NEW p, NEW b, NEW o, Untouched(r, p, b, o),
           NEW x \in Int, Exchanged(r, b, o, x, 0), x <= r.specified,
           r.payer = Sender => x = 0
    PROVE  RouteOK(r, p, b, o)
<1>1. r \in RouteRecords /\ r.rest = r.path /\ r.stack = << >>
  BY DEF Fresh
<1>2. Along(r)
  <2>1. r.phase \in {"input", "output"}
    BY DEF Fresh
  <2>2. r.payer \in {Sender, Router} \cup (PoolKeys \cap PoolsOf(r.path))
    BY DEF Fresh
  <2>3. DOMAIN r.stack = {}
    BY <1>1
  <2> QED BY <1>1, <2>1, <2>2, <2>3 DEF Fresh, Along
<1>3. InPhase(r)
  <2>1. CASE r.exactInput
    BY <2>1 DEF Fresh, InPhase
  <2>2. CASE ~r.exactInput
    BY <2>2 DEF Fresh, InPhase
  <2> QED BY <2>1, <2>2
<1>4. SoFar(r, x, 0)
  <2>1. CASE r.exactInput
    <3>1. r.phase = "input"
      BY <2>1 DEF Fresh
    <3>2. InputSoFar(r, x, 0)
      BY <3>1 DEF Fresh, InputSoFar
    <3> QED BY <2>1, <3>2 DEF SoFar
  <2>2. CASE ~r.exactInput
    <3>1. r.phase = "output" /\ r.payer = Sender
      BY <2>2 DEF Fresh
    <3>2. OutputSoFar(r, x, 0)
      BY <1>1, <3>1 DEF Fresh, OutputSoFar
    <3> QED BY <2>2, <3>2 DEF SoFar
  <2> QED BY <2>1, <2>2
<1>5. 0 \in Int
  OBVIOUS
<1>6. Gains(r, b, o)
  BY <1>4, <1>5 DEF Gains
<1> QED BY <1>1, <1>2, <1>3, <1>6 DEF RouteOK

\* What the sender has asked for, in the state in which it begins
LEMMA SendersRoute ==
    ASSUME NEW r, Fresh(r), r.payer = Sender, TypesInv
    PROVE  RouteOK(r, pools, balance, Now)
<1>1. Now.pools = pools /\ Now.balance = balance
  BY DEF Now
<1>2. Untouched(r, pools, balance, Now)
  BY <1>1 DEF Untouched
<1>3. Exchanged(r, balance, Now, 0, 0)
  <2>1. \A t \in Tokens : balance[Sender][t] \in Int
    BY WhoIsWho DEF TypesInv, Balances, Amounts
  <2> QED BY <1>1, <2>1 DEF Exchanged
<1>4. 0 \in Int /\ 0 <= r.specified
  BY DEF Fresh, RouteRecords
<1> QED BY <1>2, <1>3, <1>4, FreshRoute

\* The record of an exact input
InputRoute(payer, path, amountIn, recipient, bound, limit) ==
    [exactInput |-> TRUE, phase |-> "input", path |-> path, rest |-> path, payer |-> payer,
     recipient |-> recipient, receiver |-> recipient, specified |-> amountIn, amount |-> amountIn,
     bound |-> bound, limit |-> limit, stack |-> <<>>]

\* The record of an exact output
OutputRoute(path, amountOut, recipient, bound, limit) ==
    [exactInput |-> FALSE, phase |-> "output", path |-> path, rest |-> path, payer |-> Sender,
     recipient |-> recipient, receiver |-> recipient, specified |-> amountOut, amount |-> amountOut,
     bound |-> bound, limit |-> limit, stack |-> <<>>]

\* The parts are of their types.
AreParts(payer, path, amount, recipient, bound, limit) ==
    /\ OddPath(path) /\ payer \in Accounts
    /\ payer = Sender \/ payer \in PoolKeys \cap PoolsOf(path)
    /\ amount \in Nat /\ recipient \in Accounts \cup {Zero} /\ bound \in Nat /\ limit \in Nat \cup {None}

\* The record that begins a route is in order.
LEMMA InputIsFresh ==
    ASSUME NEW payer, NEW path, NEW amount, NEW recipient, NEW bound, NEW limit,
           AreParts(payer, path, amount, recipient, bound, limit),
           NEW r, r = InputRoute(payer, path, amount, recipient, bound, limit)
    PROVE  /\ Fresh(r) /\ r.payer = payer /\ r.path = path /\ r.receiver = recipient
           /\ r.limit = limit /\ r.bound = bound /\ r.specified = amount
<1>1. path \in Seq(Nat) /\ << >> \in Seq(Frames)
  BY EmptySeq DEF OddPath, AreParts
<1>2. r \in RouteRecords
  BY <1>1 DEF InputRoute, RouteRecords, Phases, AreParts
<1>3. /\ r.payer = payer /\ r.path = path /\ r.receiver = recipient /\ r.limit = limit /\ r.bound = bound
      /\ r.specified = amount /\ r.exactInput = TRUE /\ r.rest = path /\ r.recipient = recipient
      /\ r.stack = << >> /\ r.amount = amount /\ r.phase = "input"
  BY DEF InputRoute
<1>4. Fresh(r)
  BY <1>2, <1>3, Zenon DEF Fresh, AreParts
<1> QED BY <1>3, <1>4

\* An exact output that begins
LEMMA OutputIsFresh ==
    ASSUME NEW path, NEW amount, NEW recipient, NEW bound, NEW limit,
           AreParts(Sender, path, amount, recipient, bound, limit),
           NEW r, r = OutputRoute(path, amount, recipient, bound, limit)
    PROVE  /\ Fresh(r) /\ r.payer = Sender /\ r.path = path /\ r.receiver = recipient
           /\ r.limit = limit /\ r.bound = bound /\ r.specified = amount
<1>1. path \in Seq(Nat) /\ << >> \in Seq(Frames) /\ Sender \in Accounts
  BY EmptySeq, WhoIsWho DEF OddPath, AreParts
<1>2. r \in RouteRecords
  BY <1>1 DEF OutputRoute, RouteRecords, Phases, AreParts
<1>3. /\ r.payer = Sender /\ r.path = path /\ r.receiver = recipient /\ r.limit = limit /\ r.bound = bound
      /\ r.specified = amount /\ r.exactInput = FALSE /\ r.rest = path /\ r.recipient = recipient
      /\ r.stack = << >> /\ r.amount = amount /\ r.phase = "output"
  BY DEF OutputRoute
<1>4. r.phase = IF r.exactInput THEN "input" ELSE "output"
  BY <1>3
<1>5. Fresh(r)
  BY <1>2, <1>3, <1>4 DEF Fresh, AreParts
<1> QED BY <1>3, <1>5

\* A route begins within a transaction.
LEMMA RouteBegins ==
    ASSUME TypesInv, NEW r, Fresh(r), RouteOK(r, pools, balance, before'),
           call' = r, result' = None, bought' = None,
           UNCHANGED <<pools, balance, locked>>,
           before' \in States, SameTotals(balance, locked, before'), TxInv',
           tx' # None => tx'.stage # "after",
           purchase' # None => IsOrder(purchase') /\ Ordered(purchase') /\ HasPath(purchase') /\ FirstLeg(r, purchase')
    PROVE  RouteIInv'
<1>1. r \in RouteRecords /\ r # None
  BY SwapRouterAssumption DEF Fresh, NoneIsNoRecord
<1>2. TypesInv'
  BY <1>1 DEF TypesInv
<1>3. KeptInv' /\ RouteInv' /\ ResultInv' /\ EndsInv' /\ AfterInv' /\ BoughtInv'
  BY DEF KeptInv, RouteInv, ResultInv, EndsInv, AfterInv, BoughtInv
<1>4. PurchaseInv'
  BY <1>1 DEF PurchaseInv
<1> QED BY <1>2, <1>3, <1>4 DEF RouteIInv

-----------------------------------------------------------------------------
(* The commands *)

\* A command begins to run.
LEMMA Runs ==
    ASSUME RouteIInv, NEW c \in Commands, NEW name, RunsNow(c, name)
    PROVE  /\ TypesInv /\ IsCommand(c) /\ c.name = name
           /\ call = None /\ purchase = None /\ result = None /\ bought = None
           /\ tx' # None => tx'.stage = "running"
           /\ TxInv'
<1>1. tx # None /\ tx.stage = "command" /\ c.name = name /\ tx' = [tx EXCEPT !.stage = "running"]
  BY DEF RunsNow
<1>2. IsTx(tx) /\ call = None /\ purchase = None /\ bought = None /\ result = None
  BY <1>1 DEF RouteIInv, TxInv
<1>3. "running" \in Stages
  BY DEF Stages
<1>4. IsTx(tx') /\ tx'.stage = "running"
  BY <1>1, <1>2, <1>3, TxParts
<1>5. TxInv'
  BY <1>4 DEF TxInv
<1>6. TypesInv /\ IsCommand(c)
  BY CommandIs DEF RouteIInv
<1> QED BY <1>1, <1>2, <1>4, <1>5, <1>6

\* The parts of a command
LEMMA CommandParts ==
    ASSUME NEW c, IsCommand(c)
    PROVE  /\ c.payer = Sender /\ c.path \in Seq(Nat) /\ IsPath(c.path) /\ c.amount \in Nat
           /\ c.recipient \in Accounts \cup {Zero} /\ c.bound \in Nat /\ c.limit \in Nat \cup {None}
           /\ c.exactInput \in BOOLEAN
           /\ c.name \in SwapNames => OddPath(c.path)
<1>1. /\ c.payer = Sender /\ c.path \in Seq(Nat) /\ IsPath(c.path) /\ c.amount \in Nat
      /\ c.recipient \in Accounts \cup {Zero} /\ c.bound \in Nat /\ c.limit \in Nat \cup {None}
      /\ c.exactInput \in BOOLEAN
      /\ c.name \in SwapNames => Len(c.path) >= 3
  BY DEF IsCommand
<1>2. c.name \in SwapNames => OddPath(c.path)
  BY <1>1, OddPathIs
<1> QED BY <1>1, <1>2

\* A command that swaps an exact input
LEMMA SwapsInputKeeps ==
    ASSUME RouteIInv, NEW c \in Commands, NEW name \in SwapNames, RunsNow(c, name), SwapsInput(c)
    PROVE  RouteIInv'
<1>1. /\ TypesInv /\ IsCommand(c) /\ c.name = name /\ purchase = None
      /\ tx' # None => tx'.stage = "running"
      /\ TxInv'
  BY Runs
<1>2. PICK r : r = InputRoute(Sender, c.path, c.amount, c.recipient, c.bound, c.limit)
  OBVIOUS
<1>3. /\ call' = r /\ before' = Now /\ result' = None /\ bought' = None /\ purchase' = purchase
      /\ UNCHANGED <<pools, balance, locked>>
  BY <1>2 DEF SwapsInput, ExactInput, ExactInputOf, Begin, InputRoute
<1>4. Fresh(r) /\ r.payer = Sender
  <2>1. AreParts(Sender, c.path, c.amount, c.recipient, c.bound, c.limit)
    BY <1>1, CommandParts, WhoIsWho DEF AreParts
  <2> QED BY <1>2, <2>1, InputIsFresh
<1>5. RouteOK(r, pools, balance, Now)
  BY <1>1, <1>4, SendersRoute
<1>6. Now \in States /\ SameTotals(balance, locked, Now)
  BY <1>1, NowIsState
<1>7. RouteOK(r, pools, balance, before') /\ before' \in States /\ SameTotals(balance, locked, before')
  BY <1>3, <1>5, <1>6
<1> QED BY <1>1, <1>3, <1>4, <1>7, RouteBegins

\* A command that swaps for an exact output
LEMMA SwapsOutputKeeps ==
    ASSUME RouteIInv, NEW c \in Commands, NEW name \in SwapNames, RunsNow(c, name), SwapsOutput(c)
    PROVE  RouteIInv'
<1>1. /\ TypesInv /\ IsCommand(c) /\ c.name = name /\ purchase = None
      /\ tx' # None => tx'.stage = "running"
      /\ TxInv'
  BY Runs
<1>2. PICK r : r = OutputRoute(c.path, c.amount, c.recipient, c.bound, c.limit)
  OBVIOUS
<1>3. /\ call' = r /\ before' = Now /\ result' = None /\ bought' = None /\ purchase' = purchase
      /\ UNCHANGED <<pools, balance, locked>>
  BY <1>2 DEF SwapsOutput, ExactOutput, Begin, OutputRoute
<1>4. Fresh(r) /\ r.payer = Sender
  <2>1. AreParts(Sender, c.path, c.amount, c.recipient, c.bound, c.limit)
    BY <1>1, CommandParts, WhoIsWho DEF AreParts
  <2> QED BY <1>2, <2>1, OutputIsFresh
<1>5. RouteOK(r, pools, balance, Now)
  BY <1>1, <1>4, SendersRoute
<1>6. Now \in States /\ SameTotals(balance, locked, Now)
  BY <1>1, NowIsState
<1>7. RouteOK(r, pools, balance, before') /\ before' \in States /\ SameTotals(balance, locked, before')
  BY <1>3, <1>5, <1>6
<1> QED BY <1>1, <1>3, <1>4, <1>7, RouteBegins

\* A transfer to a pool becomes a swap of what was sent.
LEMMA SwapAtPoolKeeps ==
    ASSUME RouteIInv, SwapAtPool
    PROVE  RouteIInv'
<1>1. PICK c : c = tx.plan.command
  OBVIOUS
<1>2. PICK other \in {c.recipient[1], c.recipient[2]} \ {c.path[1]} :
        /\ tx # None /\ tx.stage = "after" /\ IsSwapAtPool(c)
        /\ ExactInputOf(c.recipient, before, <<c.path[1], c.recipient[3], other>>, c.amount, Sender, 0, None)
        /\ tx' = [tx EXCEPT !.stage = "swapping"] /\ bought' = None /\ purchase' = purchase
  BY <1>1 DEF SwapAtPool, Hooks, Swapping
<1>3. TypesInv /\ KeptInv /\ TxInv /\ AfterInv
  BY DEF RouteIInv
<1>4. /\ IsTx(tx) /\ purchase = None /\ IsTransfer(c)
      /\ pools = before.pools /\ Sent1(c, balance, before)
  BY <1>1, <1>2, <1>3 DEF TxInv, AfterInv
<1>5. before \in States /\ SameTotals(balance, locked, before)
  BY <1>2, <1>3 DEF TypesInv, KeptInv, Started
<1>6. c \in Commands /\ IsCommand(c) /\ Suits(c)
  BY <1>1, <1>4, TxParts, CommandIs
<1>7. PICK key \in PoolKeys : key = c.recipient
  BY <1>2 DEF IsSwapAtPool
<1>8. PICK token \in Tokens, n \in Nat : token = c.path[1] /\ n = c.amount /\ token \in {key[1], key[2]}
  BY <1>2, <1>4, <1>6, <1>7 DEF IsCommand, IsTransfer, Suits, SuitsPool
<1>9. /\ key[1] \in Tokens /\ key[2] \in Tokens /\ key[1] < key[2]
      /\ key = <<key[1], key[2], key[3]>> /\ key[3] \in Nat /\ Tokens \subseteq Nat
  BY KeyParts, SwapRouterAssumption
<1>10. PICK out \in Tokens : out = other /\ out \in {key[1], key[2]} /\ out # token
  BY <1>7, <1>8, <1>9
<1>11. PICK path : path = <<token, key[3], out>>
  OBVIOUS
<1>12. OddPath(path) /\ Len(path) = 3 /\ path[1] = token /\ path[2] = key[3] /\ path[3] = out
  <2>1. path \in Seq(Nat) /\ Len(path) = 3 /\ path[1] = token /\ path[2] = key[3] /\ path[3] = out
    BY <1>9, <1>11
  <2>2. 1 \in Nat \ {0} /\ Len(path) = 2 * 1 + 1
    BY <2>1
  <2>3. \E m \in Nat \ {0} : Len(path) = 2 * m + 1
    BY <2>2
  <2> QED BY <2>1, <2>3 DEF OddPath
<1>13. key \in PoolsOf(path)
  <2>1. FirstPoolKey(path) \in PoolsOf(path)
    BY <1>12, PathParts
  <2>2. PICK i \in Int, j \in Int : i = key[1] /\ j = key[2] /\ i < j
    BY <1>9
  <2>3. Min({token, out}) = i /\ Max({token, out}) = j
    <3>1. token \in Int /\ out \in Int
      BY <1>9
    <3>2. /\ Min({token, out}) = (IF token <= out THEN token ELSE out)
          /\ Max({token, out}) = (IF token >= out THEN token ELSE out)
      BY <3>1, LeastOfTwo, GreatestOfTwo
    <3> QED BY <1>8, <1>10, <2>2, <3>1, <3>2
  <2>4. FirstPoolKey(path) = <<i, j, key[3]>>
    BY <1>12, <2>3, Zenon DEF FirstPoolKey, PoolKey
  <2> QED BY <1>9, <2>1, <2>2, <2>4
<1>14. token \in TokensOf(path) /\ TokensOf(path) = {token, out} /\ LastToken(path) = out
  <2>1. token \in TokensOf(path)
    BY <1>12, PathParts
  <2>2. ~HasMultiplePools(path)
    BY <1>12 DEF HasMultiplePools
  <2>3. LastToken(path) = out /\ TokensOf(path) \subseteq {token, out}
    BY <1>12, <2>2, LastHop
  <2>4. LastToken(path) \in TokensOf(path)
    BY <1>12, PathParts
  <2> QED BY <2>1, <2>3, <2>4
<1>15. key \in Accounts /\ key # Sender /\ Sender \in Accounts
  BY WhoIsWho
<1>16. PICK r : r = InputRoute(key, path, n, Sender, 0, None)
  OBVIOUS
<1>17. /\ call' = r /\ before' = before /\ result' = None
       /\ UNCHANGED <<pools, balance, locked>>
  BY <1>2, <1>7, <1>8, <1>10, <1>11, <1>16 DEF ExactInputOf, Begin, InputRoute
<1>18. /\ Fresh(r) /\ r.payer = key /\ r.path = path /\ r.receiver = Sender /\ r.specified = n
       /\ r.exactInput = TRUE
  <2>1. AreParts(key, path, n, Sender, 0, None)
    BY <1>12, <1>13, <1>15 DEF AreParts
  <2>2. Fresh(r) /\ r.payer = key /\ r.path = path /\ r.receiver = Sender /\ r.specified = n
    BY <1>16, <2>1, InputIsFresh
  <2>3. r.exactInput = TRUE
    BY <1>16 DEF InputRoute
  <2> QED BY <2>2, <2>3
<1>19. before.balance \in Balances
  BY <1>5 DEF States
<1>20. \E x \in {0, n} : Exchanged(r, balance, before, x, 0) /\ Untouched(r, pools, balance, before)
  <2>1. CASE before.balance[Sender][token] >= n
    <3>1. balance = Transferred(before.balance, Sender, key, token, n)
      BY <1>4, <1>7, <1>8, <2>1 DEF Sent1
    <3>2. /\ IsMoved(balance, before.balance, Sender, key, token, n)
          /\ \A a \in Accounts \ {Sender, key} : balance[a] = before.balance[a]
      <4>1. n \in Int
        OBVIOUS
      <4> QED BY <1>15, <1>19, <3>1, <4>1, TransferredIs
    <3>3. ASSUME NEW a \in Accounts, NEW t \in Tokens \ TokensOf(path)
          PROVE  balance[a][t] = before.balance[a][t]
      <4>1. before.balance[a][t] \in Int /\ t # token
        BY <1>14, <1>19 DEF Balances, Amounts
      <4> QED BY <3>2, <4>1 DEF IsMoved
    <3>4. Untouched(r, pools, balance, before)
      BY <1>4, <1>13, <1>18, <3>2, <3>3, WhoIsWho DEF Untouched
    <3>5. RouteIn(r) = token
      BY <1>12, <1>18 DEF RouteIn
    <3>6. ASSUME NEW t \in Tokens
          PROVE  balance[Sender][t] = before.balance[Sender][t]
                    + (IF t = RouteOut(r) /\ r.receiver = Sender THEN 0 ELSE 0)
                    - (IF t = RouteIn(r) THEN n ELSE 0)
      <4>1. before.balance[Sender][t] \in Int
        BY <1>15, <1>19 DEF Balances, Amounts
      <4> QED BY <1>15, <3>2, <3>5, <4>1 DEF IsMoved
    <3>7. Exchanged(r, balance, before, n, 0)
      BY <3>6 DEF Exchanged
    <3> QED BY <3>4, <3>7
  <2>2. CASE ~(before.balance[Sender][token] >= n)
    <3>1. balance = before.balance
      BY <1>4, <1>7, <1>8, <2>2 DEF Sent1
    <3>2. Untouched(r, pools, balance, before)
      BY <1>4, <3>1 DEF Untouched
    <3>3. \A t \in Tokens : balance[Sender][t] \in Int
      BY <1>15, <1>19, <3>1 DEF Balances, Amounts
    <3>4. Exchanged(r, balance, before, 0, 0)
      BY <3>1, <3>3 DEF Exchanged
    <3> QED BY <3>2, <3>4
  <2> QED BY <2>1, <2>2
<1>21. RouteOK(r, pools, balance, before)
  <2>1. PICK x \in {0, n} : Exchanged(r, balance, before, x, 0) /\ Untouched(r, pools, balance, before)
    BY <1>20
  <2>2. x \in Int /\ x <= r.specified /\ r.payer # Sender
    BY <1>15, <1>18
  <2> QED BY <1>18, <2>1, <2>2, FreshRoute
<1>22. "swapping" \in Stages
  BY DEF Stages
<1>23. IsTx(tx') /\ tx'.stage = "swapping"
  BY <1>2, <1>4, <1>22, TxParts
<1>24. TxInv' /\ (tx' # None => tx'.stage # "after")
  BY <1>23 DEF TxInv
<1>25. /\ RouteOK(r, pools, balance, before') /\ before' \in States /\ SameTotals(balance, locked, before')
       /\ purchase' = None /\ bought' = None
  BY <1>2, <1>4, <1>5, <1>17, <1>21
<1> QED BY <1>3, <1>17, <1>18, <1>24, <1>25, RouteBegins

-----------------------------------------------------------------------------
(* Purchases *)

\* The ICO of an order
LEMMA IcoParts ==
    ASSUME NEW o, IcoPathExists(o)
    PROVE  /\ IcoPool(o) \in DOMAIN ICOs /\ IcoPool(o) \in DOMAIN Holdings /\ IcoPool(o) # Sender
           /\ PaidBy(o) \in DOMAIN Holdings
           /\ IcoTokenIn(o) \in Tokens /\ o.tokenOut \in Tokens /\ IcoTokenIn(o) # o.tokenOut
           /\ IcoPool(o) = <<IcoTokenIn(o), o.tokenOut>>
           /\ ICOs[IcoPool(o)].price.num \in Nat \ {0} /\ ICOs[IcoPool(o)].price.den \in Nat \ {0}
<1>1. PICK pool \in DOMAIN ICOs : pool = IcoPool(o)
  BY DEF IcoPathExists
<1>2. pool = <<IcoTokenIn(o), o.tokenOut>>
  BY <1>1, Zenon DEF IcoPool
<1>3. pool \in Tokens \X Tokens /\ pool # Sender
  BY IcoRouterAssumption
<1>4. /\ pool[1] # pool[2] /\ {pool, ICOs[pool].providerAddress} \subseteq DOMAIN Holdings
      /\ ICOs[pool].price \in [num : Nat \ {0}, den : Nat \ {0}]
  BY IcoRouterAssumption DEF ICOsAre
<1>5. PICK price \in [num : Nat \ {0}, den : Nat \ {0}] : price = ICOs[pool].price
  BY <1>4
<1>6. price.num \in Nat \ {0} /\ price.den \in Nat \ {0}
  OBVIOUS
<1>7. PaidBy(o) = ICOs[pool].providerAddress
  BY <1>1 DEF PaidBy
<1>8. IcoTokenIn(o) = pool[1] /\ o.tokenOut = pool[2]
  BY <1>2
<1> QED BY <1>1, <1>2, <1>3, <1>4, <1>5, <1>6, <1>7, <1>8

\* Whether there is a first leg
LEMMA PathOfOrder ==
    ASSUME NEW path \in Seq(Nat), NEW n \in Nat, Len(path) = 2 * n + 1
    PROVE  /\ NumPools(path) = n
           /\ NumPools(path) > 0 => OddPath(path)
<1>1. PICK m \in Nat : m = 2 * n
  OBVIOUS
<1>2. m \div 2 = n
  BY <1>1, DivIs
<1>3. NumPools(path) = n
  BY <1>1, <1>2 DEF NumPools
<1> QED BY <1>3 DEF OddPath

\* A command that buys is an order.
LEMMA CommandOrders ==
    ASSUME NEW c \in Commands, IsPurchase(c), IcoPathExists(c)
    PROVE  IsOrder(c) /\ Ordered(c)
<1>1. IsCommand(c)
  BY CommandIs
<1>2. c.payer = Sender /\ IsPath(c.path)
  BY <1>1, CommandParts
<1>3. \E n \in Nat : Len(c.path) = 2 * n + 1
  <2>1. CASE Len(c.path) >= 3
    <3>1. OddPath(c.path)
      BY <1>2, <2>1, OddPathIs
    <3> QED BY <3>1 DEF OddPath
  <2>2. CASE ~(Len(c.path) >= 3)
    <3>a. PICK path \in Seq(Nat) : path = c.path /\ Len(path) % 2 = 1
      BY <1>2 DEF IsPath
    <3>b. PICK l \in Nat : l = Len(path)
      OBVIOUS
    <3>c. (l = 0 \/ l = 1 \/ l = 2) /\ l % 2 = 1
      <4>1. ~(l >= 3)
        BY <2>2, <3>a, <3>b
      <4>2. l = 0 \/ l = 1 \/ l = 2
        BY <4>1
      <4>3. l % 2 = 1
        BY <3>a, <3>b, Zenon
      <4> QED BY <4>2, <4>3
    <3>1. 0 % 2 = 0 /\ 2 % 2 = 0
      OBVIOUS
    <3>d. l = 1
      BY <3>c, <3>1
    <3>2. Len(c.path) = 1
      BY <3>d, <3>a, <3>b
    <3>3. Len(c.path) = 2 * 0 + 1 /\ 0 \in Nat
      BY <3>2
    <3> QED BY <3>3
  <2> QED BY <2>1, <2>2
<1>4. c \in [name : SwapNames \cup PurchaseNames \cup {"transfer"}, exactInput : BOOLEAN,
             payer : Accounts, path : Seq(Nat), amount : Nat, recipient : Accounts \cup {Zero},
             bound : Nat, limit : Nat \cup {None}, tokenOut : Tokens \cup {None}]
  BY <1>1, WhoIsWho DEF IsCommand
<1> QED BY <1>2, <1>3, <1>4 DEF IsOrder, Ordered

\* A purchase begins within a transaction.
LEMMA PurchaseBegins ==
    ASSUME TypesInv, NEW o, NEW origin, Purchase(o, origin), IsOrder(o), Ordered(o), result = None,
           origin \in States, SameTotals(balance, locked, origin), pools = origin.pools,
           Paid1(o, balance, origin),
           TxInv', tx' # None => tx'.stage = "running" \/ tx'.stage = "swapping"
    PROVE  RouteIInv'
<1>1. /\ call = None /\ purchase = None /\ IcoPathExists(o) /\ purchase' = o /\ bought' = None
      /\ BuyAlongPath(o) \/ BuyDirectly(o, origin)
  BY DEF Purchase
<1>2. tx' # None => tx'.stage # "after"
  OBVIOUS
<1>3. /\ o.exactInput \in BOOLEAN /\ o.path \in Seq(Nat) /\ o.amount \in Nat /\ o.bound \in Nat
      /\ \E n \in Nat : Len(o.path) = 2 * n + 1
  BY DEF IsOrder
<1>4. CASE BuyAlongPath(o)
  <2>1. HasPath(o) /\ OddPath(o.path)
    BY <1>3, <1>4, PathOfOrder DEF BuyAlongPath, HasPath
  <2>2. Sender \in Accounts \cup {Zero} /\ Sender \in Accounts /\ None \in Nat \cup {None}
    BY WhoIsWho
  <2>3. /\ Now \in States /\ SameTotals(balance, locked, Now)
    BY NowIsState
  <2>4. CASE o.exactInput
    <3>1. PICK r : r = InputRoute(Sender, o.path, o.amount, Sender, o.bound, None)
      OBVIOUS
    <3>2. call' = r /\ before' = Now /\ result' = None /\ UNCHANGED <<pools, balance, locked>>
      BY <1>4, <2>4, <3>1 DEF BuyAlongPath, ExactInput, ExactInputOf, Begin, InputRoute
    <3>3. /\ Fresh(r) /\ r.payer = Sender /\ r.path = o.path /\ r.receiver = Sender
          /\ r.limit = None /\ r.bound = o.bound /\ r.specified = o.amount /\ r.exactInput = TRUE
      <4>1. AreParts(Sender, o.path, o.amount, Sender, o.bound, None)
        BY <1>3, <2>1, <2>2 DEF AreParts
      <4>2. /\ Fresh(r) /\ r.payer = Sender /\ r.path = o.path /\ r.receiver = Sender
            /\ r.limit = None /\ r.bound = o.bound /\ r.specified = o.amount
        BY <3>1, <4>1, InputIsFresh
      <4>3. r.exactInput = TRUE
        BY <3>1 DEF InputRoute
      <4> QED BY <4>2, <4>3
    <3>4. RouteOK(r, pools, balance, Now)
      BY <3>3, SendersRoute
    <3>5. FirstLeg(r, o)
      BY <2>4, <3>3 DEF FirstLeg
    <3>6. RouteOK(r, pools, balance, before') /\ before' \in States /\ SameTotals(balance, locked, before')
          /\ (purchase' # None => IsOrder(purchase') /\ Ordered(purchase') /\ HasPath(purchase') /\ FirstLeg(r, purchase'))
      BY <1>1, <2>1, <2>3, <3>2, <3>4, <3>5
    <3> QED BY <1>1, <1>2, <3>2, <3>3, <3>6, RouteBegins
  <2>5. CASE ~o.exactInput
    <3>a. PICK n : n = QuoteExactOutputSingle(ICOs[IcoPool(o)].price, o.amount)
      OBVIOUS
    <3>b. n \in Nat
      <4>1. PICK num \in Nat \ {0}, den \in Nat \ {0} :
              num = ICOs[IcoPool(o)].price.num /\ den = ICOs[IcoPool(o)].price.den
        BY <1>1, IcoParts
      <4>2. PICK k \in Nat : k = Read(o.amount) * num
        <5>1. PICK a \in Nat : a = Read(o.amount)
          BY <1>3, ReadIs
        <5> QED BY <4>1, <5>1
      <4>3. n = Rounded(k, den)
        BY <3>a, <4>1, <4>2 DEF QuoteExactOutputSingle
      <4> QED BY <4>3, RoundedIs
    <3>1. PICK r : r = OutputRoute(o.path, n, Sender, o.bound, None)
      OBVIOUS
    <3>2. call' = r /\ before' = Now /\ result' = None /\ UNCHANGED <<pools, balance, locked>>
      BY <1>4, <2>5, <3>a, <3>1 DEF BuyAlongPath, IcoAmountIn, ExactOutput, Begin, OutputRoute
    <3>3. /\ Fresh(r) /\ r.payer = Sender /\ r.path = o.path /\ r.receiver = Sender
          /\ r.limit = None /\ r.bound = o.bound /\ r.specified = n /\ r.exactInput = FALSE
      <4>1. AreParts(Sender, o.path, n, Sender, o.bound, None)
        BY <1>3, <2>1, <2>2, <3>b DEF AreParts
      <4>2. /\ Fresh(r) /\ r.payer = Sender /\ r.path = o.path /\ r.receiver = Sender
            /\ r.limit = None /\ r.bound = o.bound /\ r.specified = n
        BY <3>1, <4>1, OutputIsFresh
      <4>3. r.exactInput = FALSE
        BY <3>1 DEF OutputRoute
      <4> QED BY <4>2, <4>3
    <3>4. RouteOK(r, pools, balance, Now)
      BY <3>3, SendersRoute
    <3>5. FirstLeg(r, o)
      <4>1. o.exactInput = FALSE
        BY <1>3, <2>5
      <4> QED BY <2>5, <3>a, <3>3, <4>1 DEF FirstLeg
    <3>6. RouteOK(r, pools, balance, before') /\ before' \in States /\ SameTotals(balance, locked, before')
          /\ (purchase' # None => IsOrder(purchase') /\ Ordered(purchase') /\ HasPath(purchase') /\ FirstLeg(r, purchase'))
      BY <1>1, <2>1, <2>3, <3>2, <3>4, <3>5
    <3> QED BY <1>1, <1>2, <3>2, <3>3, <3>6, RouteBegins
  <2> QED BY <2>4, <2>5
<1>5. CASE BuyDirectly(o, origin)
  <2>1. /\ ~HasPath(o) /\ before' = origin /\ result' = None /\ call' = None
        /\ pools' = pools /\ balance' = balance /\ locked' = locked
    BY <1>1, <1>5 DEF BuyDirectly
  <2>2. TypesInv' /\ KeptInv'
    BY <2>1 DEF TypesInv, KeptInv
  <2>3. RouteInv' /\ ResultInv' /\ EndsInv' /\ AfterInv' /\ BoughtInv'
    BY <1>1, <1>2, <2>1 DEF RouteInv, ResultInv, EndsInv, AfterInv, BoughtInv
  <2>4. Paid1(o, balance', before')
    BY <2>1
  <2>5. PurchaseInv'
    BY <1>1, <2>1, <2>4 DEF PurchaseInv
  <2> QED BY <2>2, <2>3, <2>5 DEF RouteIInv
<1> QED BY <1>1, <1>4, <1>5

\* A command that buys
LEMMA PurchaseCommandKeeps ==
    ASSUME RouteIInv, NEW c \in Commands, NEW name \in PurchaseNames, RunsNow(c, name), Purchase(c, Now)
    PROVE  RouteIInv'
<1>1. /\ TypesInv /\ IsCommand(c) /\ c.name = name /\ result = None
      /\ tx' # None => tx'.stage = "running"
      /\ TxInv'
  BY Runs
<1>2. IsPurchase(c) /\ IcoPathExists(c) /\ c.payer = Sender
  BY <1>1, CommandParts DEF IsPurchase, Purchase
<1>3. IsOrder(c) /\ Ordered(c)
  BY <1>2, CommandOrders
<1>4. Now \in States /\ Now.pools = pools /\ Now.balance = balance /\ SameTotals(balance, locked, Now)
  BY <1>1, NowIsState
<1>5. Paid1(c, balance, Now)
  BY <1>2, <1>4 DEF Paid1
<1> QED BY <1>1, <1>3, <1>4, <1>5, PurchaseBegins

\* A transfer to an ICO becomes a purchase with what was sent.
LEMMA SwapAtIcoKeeps ==
    ASSUME RouteIInv, SwapAtIco
    PROVE  RouteIInv'
<1>1. PICK c : c = tx.plan.command
  OBVIOUS
<1>2. PICK o : o = [c EXCEPT !.payer = c.recipient, !.recipient = Sender, !.tokenOut = c.recipient[2]]
  OBVIOUS
<1>3. /\ tx # None /\ tx.stage = "after" /\ IsSwapAtIco(c) /\ Purchase(o, before)
      /\ tx' = [tx EXCEPT !.stage = "swapping"]
  BY <1>1, <1>2 DEF SwapAtIco, Hooks, Swapping
<1>4. TypesInv /\ KeptInv /\ TxInv /\ AfterInv
  BY DEF RouteIInv
<1>5. /\ IsTx(tx) /\ purchase = None /\ result = None /\ IsTransfer(c)
      /\ pools = before.pools /\ Sent1(c, balance, before)
  BY <1>1, <1>3, <1>4 DEF TxInv, AfterInv
<1>6. before \in States /\ SameTotals(balance, locked, before)
  BY <1>3, <1>4 DEF TypesInv, KeptInv, Started
<1>7. c \in Commands /\ IsCommand(c) /\ Suits(c)
  BY <1>1, <1>5, TxParts, CommandIs
<1>8. /\ c \in [name : SwapNames \cup PurchaseNames \cup {"transfer"}, exactInput : BOOLEAN,
                payer : {Sender}, path : Seq(Nat), amount : Nat, recipient : Accounts \cup {Zero},
                bound : Nat, limit : Nat \cup {None}, tokenOut : Tokens \cup {None}]
      /\ c.recipient \in Accounts /\ Len(c.path) = 1 /\ c.exactInput = TRUE
  BY <1>5, <1>7 DEF IsCommand, IsTransfer, SwapNames
<1>9. PICK pool \in DOMAIN ICOs : pool = c.recipient /\ c.path[1] = pool[1]
  BY <1>3, <1>7 DEF IsSwapAtIco, Suits, SuitsIco
<1>10. pool \in Tokens \X Tokens /\ pool # Sender
  BY IcoRouterAssumption
<1>11. pool[2] \in Tokens /\ pool = <<pool[1], pool[2]>>
  BY <1>10
<1>12. /\ o.payer = pool /\ o.recipient = Sender /\ o.tokenOut = pool[2] /\ o.path = c.path
       /\ o.exactInput = TRUE /\ o.amount = c.amount
  BY <1>2, <1>8, <1>9
<1>13. o \in [name : SwapNames \cup PurchaseNames \cup {"transfer"}, exactInput : BOOLEAN,
              payer : Accounts, path : Seq(Nat), amount : Nat, recipient : Accounts \cup {Zero},
              bound : Nat, limit : Nat \cup {None}, tokenOut : Tokens \cup {None}]
  BY <1>2, <1>8, <1>9, <1>11, WhoIsWho
<1>14. IsOrder(o)
  <2>1. 0 \in Nat /\ Len(o.path) = 2 * 0 + 1
    BY <1>8, <1>12
  <2>2. \E n \in Nat : Len(o.path) = 2 * n + 1
    BY <2>1
  <2>3. IcoPathExists(o)
    BY <1>3 DEF Purchase
  <2> QED BY <1>13, <2>2, <2>3 DEF IsOrder
<1>15. Ordered(o)
  <2>1. NumPools(o.path) = 0
    <3>1. 0 \in Nat /\ Len(o.path) = 2 * 0 + 1 /\ o.path \in Seq(Nat)
      BY <1>8, <1>12
    <3> QED BY <3>1, PathOfOrder
  <2>2. ~HasPath(o)
    BY <2>1 DEF HasPath
  <2>3. IcoPool(o) = <<pool[1], pool[2]>>
    BY <1>8, <1>9, <1>12 DEF IcoPool, IcoTokenIn, LastToken
  <2> QED BY <1>11, <1>12, <2>2, <2>3 DEF Ordered
<1>16. Paid1(o, balance, before)
  <2>1. o.payer # Sender
    BY <1>10, <1>12
  <2>2. Sent1([path |-> o.path, amount |-> o.amount, recipient |-> o.payer], balance, before)
    BY <1>5, <1>9, <1>12 DEF Sent1
  <2> QED BY <2>1, <2>2 DEF Paid1
<1>17. "swapping" \in Stages
  BY DEF Stages
<1>18. IsTx(tx') /\ tx'.stage = "swapping"
  BY <1>3, <1>5, <1>17, TxParts
<1>19. TxInv'
  BY <1>18 DEF TxInv
<1> QED BY <1>3, <1>4, <1>5, <1>6, <1>14, <1>15, <1>16, <1>18, <1>19, PurchaseBegins

\* Who pays and who is paid, and how much, when it is the turn of the ICO
LEMMA IcoTurn ==
    ASSUME TypesInv, ResultInv, PurchaseInv, purchase # None, call = None, ~PathFailed
    PROVE  /\ purchase.payer \in Accounts /\ purchase.recipient \in Accounts
           /\ IcoAmountIn(purchase) \in Nat /\ IcoAmountOut(purchase) \in Nat
           /\ purchase.exactInput \in BOOLEAN
           /\ HasPath(purchase) =>
                 /\ result # None /\ result.ok /\ FirstLeg(result.route, purchase)
                 /\ RouteDone(result.route, pools, balance, before)
<1>1. IsOrder(purchase) /\ Ordered(purchase)
  BY DEF PurchaseInv
<1>2. /\ purchase.payer \in Accounts /\ purchase.exactInput \in BOOLEAN /\ purchase.amount \in Nat
      /\ IcoPathExists(purchase)
  BY <1>1 DEF IsOrder
<1>3. purchase.recipient \in Accounts
  <2>1. CASE purchase \in Commands /\ IsPurchase(purchase)
    <3>1. IsCommand(purchase)
      BY <2>1, CommandIs
    <3> QED BY <2>1, <3>1 DEF IsCommand, IsPurchase, SwapNames, PurchaseNames
  <2>2. CASE purchase.recipient = Sender
    BY <2>2, WhoIsWho
  <2> QED BY <1>1, <2>1, <2>2 DEF Ordered
<1>4. ASSUME HasPath(purchase)
      PROVE  /\ result # None /\ result.ok /\ FirstLeg(result.route, purchase)
             /\ RouteDone(result.route, pools, balance, before)
  <2>1. result # None /\ (result.ok => FirstLeg(result.route, purchase))
    BY <1>4 DEF PurchaseInv
  <2>2. result.ok
    BY <2>1 DEF PathFailed
  <2>3. RouteDone(result.route, pools, balance, before)
    BY <2>1, <2>2 DEF ResultInv
  <2> QED BY <2>1, <2>2, <2>3
<1>5. PICK num, den, price :
        num \in Nat \ {0} /\ den \in Nat \ {0} /\ price = ICOs[IcoPool(purchase)].price /\ num = price.num /\ den = price.den
  BY <1>2, IcoParts
<1>6. IcoAmountIn(purchase) \in Nat
  <2>1. CASE purchase.exactInput /\ HasPath(purchase)
    <3>1. result.route \in RouteRecords
      BY <1>4, <2>1 DEF RouteDone, RouteOK
    <3>2. result.route.amount \in Nat
      BY <3>1 DEF RouteRecords
    <3> QED BY <2>1, <3>2 DEF IcoAmountIn
  <2>2. CASE purchase.exactInput /\ ~HasPath(purchase)
    BY <1>2, <2>2 DEF IcoAmountIn
  <2>3. CASE ~purchase.exactInput
    <3>1. PICK k \in Nat : k = Read(purchase.amount) * num
      <4>1. PICK a \in Nat : a = Read(purchase.amount)
        BY <1>2, ReadIs
      <4> QED BY <1>5, <4>1
    <3>2. IcoAmountIn(purchase) = Rounded(k, den)
      BY <1>5, <2>3, <3>1 DEF IcoAmountIn, QuoteExactOutputSingle
    <3> QED BY <1>5, <3>2, RoundedIs
  <2> QED BY <2>1, <2>2, <2>3
<1>7. IcoAmountOut(purchase) \in Nat
  <2>1. CASE purchase.exactInput
    <3>1. PICK k \in Nat : k = Read(IcoAmountIn(purchase)) * den
      <4>1. PICK a \in Nat : a = Read(IcoAmountIn(purchase))
        BY <1>6, ReadIs
      <4> QED BY <1>5, <4>1
    <3>2. IcoAmountOut(purchase) = Rounded(k, num)
      BY <1>5, <2>1, <3>1 DEF IcoAmountOut, QuoteExactInputSingle
    <3> QED BY <1>5, <3>2, RoundedIs
  <2>2. CASE ~purchase.exactInput
    BY <1>2, <2>2 DEF IcoAmountOut
  <2> QED BY <2>1, <2>2
<1> QED BY <1>2, <1>3, <1>4, <1>6, <1>7

\* The ICO is paid and gives what was bought.
LEMMA IcoSwapInternalKeeps ==
    ASSUME RouteIInv, IcoSwapInternal, tx' = tx
    PROVE  RouteIInv'
<1>1. TypesInv /\ KeptInv /\ ResultInv /\ TxInv /\ PurchaseInv
  BY DEF RouteIInv
<1>2. PICK in, out, from, pool, to, sold, token :
        /\ in = IcoAmountIn(purchase) /\ out = IcoAmountOut(purchase) /\ from = purchase.payer
        /\ pool = IcoPool(purchase) /\ to = purchase.recipient /\ sold = purchase.tokenOut
        /\ token = IcoTokenIn(purchase)
  OBVIOUS
<1>3. PICK paid : paid = Transferred(balance, from, PaidBy(purchase), token, in)
  OBVIOUS
<1>4. /\ purchase # None /\ call = None /\ ~PathFailed
      /\ balance' = Transferred(paid, pool, to, sold, out)
      /\ result' = None /\ purchase' = None /\ bought'.ok = TRUE
      /\ UNCHANGED <<pools, locked, call, before>>
  BY <1>2, <1>3 DEF IcoSwapInternal, IcoFits
<1>5. from \in Accounts /\ to \in Accounts /\ in \in Int /\ out \in Int
  BY <1>1, <1>2, <1>4, IcoTurn
<1>6. pool \in Accounts /\ PaidBy(purchase) \in Accounts /\ token \in Tokens /\ sold \in Tokens
  <2>1. IcoPathExists(purchase)
    BY <1>1, <1>4 DEF PurchaseInv, IsOrder
  <2> QED BY <1>2, <2>1, IcoParts, WhoIsWho
<1>7. before \in States /\ SameTotals(balance, locked, before) /\ balance \in Balances /\ locked \in Balances
  BY <1>1, <1>4 DEF TypesInv, KeptInv, Started
<1>8. paid \in Balances /\ \A t \in Tokens : Total(paid, locked, t) = Total(balance, locked, t)
  BY <1>3, <1>5, <1>6, <1>7, TransferredIs, TransferredTotal
<1>9. balance' \in Balances /\ \A t \in Tokens : Total(balance', locked, t) = Total(paid, locked, t)
  BY <1>4, <1>5, <1>6, <1>7, <1>8, TransferredIs, TransferredTotal
<1>10. SameTotals(balance', locked', before')
  BY <1>4, <1>7, <1>8, <1>9 DEF SameTotals
<1>11. TypesInv'
  BY <1>1, <1>4, <1>7, <1>9 DEF TypesInv
<1>12. tx # None => tx.stage \notin {"converting", "fee", "base", "command", "after"}
  BY <1>1, <1>4 DEF TxInv
<1>13. TxInv' /\ AfterInv'
  BY <1>1, <1>12 DEF TxInv, AfterInv
<1>14. KeptInv' /\ RouteInv' /\ ResultInv' /\ EndsInv' /\ PurchaseInv' /\ BoughtInv'
  BY <1>4, <1>10 DEF KeptInv, RouteInv, ResultInv, EndsInv, PurchaseInv, BoughtInv
<1> QED BY <1>11, <1>13, <1>14 DEF RouteIInv

\* A purchase that fails is undone.
LEMMA IcoRevertKeeps ==
    ASSUME RouteIInv, IcoRevert, tx' = tx
    PROVE  RouteIInv'
<1>1. TypesInv /\ TxInv
  BY DEF RouteIInv
<1>2. /\ purchase # None /\ call = None
      /\ pools' = before.pools /\ balance' = before.balance /\ locked' = before.locked
      /\ result' = None /\ purchase' = None /\ call' = None /\ before' = before
  BY DEF IcoRevert
<1>3. before \in States
  BY <1>1, <1>2 DEF TypesInv, Started
<1>4. pools' \in [PoolKeys -> PoolStates] /\ balance' \in Balances /\ locked' \in Balances
  BY <1>2, <1>3 DEF States
<1>5. SameTotals(balance', locked', before')
  BY <1>2 DEF SameTotals
<1>6. TypesInv'
  BY <1>2, <1>3, <1>4 DEF TypesInv
<1>7. tx # None => tx.stage \notin {"converting", "fee", "base", "command", "after"}
  BY <1>1, <1>2 DEF TxInv
<1>8. TxInv' /\ AfterInv'
  BY <1>1, <1>7 DEF TxInv, AfterInv
<1>9. KeptInv' /\ RouteInv' /\ ResultInv' /\ EndsInv' /\ PurchaseInv' /\ BoughtInv'
  BY <1>2, <1>5 DEF KeptInv, RouteInv, ResultInv, EndsInv, PurchaseInv, BoughtInv
<1> QED BY <1>6, <1>8, <1>9 DEF RouteIInv

-----------------------------------------------------------------------------
(* Conversions *)

\* A set of natural numbers has a least one.
LEMMA LeastNat ==
    ASSUME NEW S \in SUBSET Nat, NEW a \in S
    PROVE  \E m \in S : \A n \in S : m <= n
<1> DEFINE Good == {k \in 0 .. a : (\E n \in S : n <= k) => \E m \in S : \A n \in S : m <= n}
<1>1. 0 \in Good
  <2>1. ASSUME NEW n \in S, n <= 0 PROVE \A m \in S : n <= m
    BY <2>1
  <2> QED BY <2>1
<1>2. ASSUME NEW k \in 0 .. a - 1, k \in Good PROVE k + 1 \in Good
  <2>1. CASE \E n \in S : n <= k
    BY <1>2, <2>1
  <2>2. CASE ~ \E n \in S : n <= k
    <3>1. ASSUME NEW n \in S, n <= k + 1 PROVE \A m \in S : n <= m
      <4>1. \A m \in S : m > k /\ m \in Nat
        BY <2>2
      <4> QED BY <3>1, <4>1
    <3> QED BY <3>1
  <2> QED BY <2>1, <2>2
<1>3. a \in Good
  <2>1. a \in Nat
    OBVIOUS
  <2> HIDE DEF Good
  <2>2. \A m \in 0 .. a : m \in Good
    BY <1>1, <1>2, <2>1, UpTo
  <2> QED BY <2>1, <2>2
<1> QED BY <1>3

\* What a conversion can be: the least by three numbers
Wishes == [custom : {0, 1}, at : Nat, path : Seq(Nat), amountIn : Nat]

\* One of the choices is preferred to all.
LEMMA SomeIsPreferred ==
    ASSUME NEW found \in SUBSET Wishes, found # {}
    PROVE  \E q \in found : \A r \in found : Prefers(q, r)
<1>1. \A q \in found : q.custom \in Nat /\ q.amountIn \in Nat /\ q.at \in Nat
  BY DEF Wishes
<1>2. PICK c \in Nat : /\ \E q \in found : q.custom = c
                       /\ \A q \in found : c <= q.custom
  <2>1. PICK S : S = {q.custom : q \in found}
    OBVIOUS
  <2>2. S \in SUBSET Nat /\ S # {}
    BY <1>1, <2>1
  <2>3. PICK m \in S : \A n \in S : m <= n
    BY <2>2, LeastNat
  <2> QED BY <2>1, <2>2, <2>3
<1>3. PICK d \in Nat : /\ \E q \in found : q.custom = c /\ q.amountIn = d
                       /\ \A q \in found : q.custom = c => d <= q.amountIn
  <2>1. PICK S : S = {q.amountIn : q \in {r \in found : r.custom = c}}
    OBVIOUS
  <2>2. S \in SUBSET Nat /\ S # {}
    BY <1>1, <1>2, <2>1
  <2>3. PICK m \in S : \A n \in S : m <= n
    BY <2>2, LeastNat
  <2> QED BY <2>1, <2>2, <2>3
<1>4. PICK e \in Nat : /\ \E q \in found : q.custom = c /\ q.amountIn = d /\ q.at = e
                       /\ \A q \in found : q.custom = c /\ q.amountIn = d => e <= q.at
  <2>1. PICK S : S = {q.at : q \in {r \in found : r.custom = c /\ r.amountIn = d}}
    OBVIOUS
  <2>2. S \in SUBSET Nat /\ S # {}
    BY <1>1, <1>3, <2>1
  <2>3. PICK m \in S : \A n \in S : m <= n
    BY <2>2, LeastNat
  <2> QED BY <2>1, <2>2, <2>3
<1>5. PICK q \in found : q.custom = c /\ q.amountIn = d /\ q.at = e
  BY <1>4
<1>6. ASSUME NEW r \in found PROVE Prefers(q, r)
  <2>1. r.custom \in Nat /\ r.amountIn \in Nat /\ r.at \in Nat
    BY <1>1
  <2>2. /\ c <= r.custom
        /\ r.custom = c => d <= r.amountIn
        /\ r.custom = c /\ r.amountIn = d => e <= r.at
    BY <1>2, <1>3, <1>4
  <2> QED BY <1>5, <2>1, <2>2 DEF Prefers
<1> QED BY <1>6

\* The hop of a path
LEMMA HopParts ==
    ASSUME NEW path, OddPath(path), NEW i \in 1 .. NumPools(path), NEW hop, hop = Hop(path, i)
    PROVE  hop \in Seq(Nat) /\ hop[1] \in Nat /\ hop[2] \in Nat /\ hop[3] \in Nat
<1>1. PICK n \in Nat \ {0} : Len(path) = 2 * n + 1 /\ NumPools(path) = n
  BY OddLength
<1>2. PICK a \in Nat, b \in Nat : a = 2 * i - 1 /\ b = 2 * i + 1 /\ 1 <= a /\ b <= Len(path) /\ b = a + 2
  BY <1>1
<1>3. path \in Seq(Nat)
  BY DEF OddPath
<1>4. \A j \in a .. b : path[j] \in Nat
  BY <1>2, <1>3
<1>5. hop = SubSeq(path, a, b)
  BY <1>2 DEF Hop
<1>6. /\ hop \in Seq(Nat) /\ Len(hop) = IF a <= b THEN b - a + 1 ELSE 0
      /\ \A j \in 1 .. b - a + 1 : hop[j] = path[a + j - 1]
  <2>1. a \in Int /\ b \in Int
    OBVIOUS
  <2> QED BY <1>4, <1>5, <2>1, SubSeqProperties
<1>7. hop[1] = path[a] /\ hop[2] = path[a + 1] /\ hop[3] = path[b]
  BY <1>2, <1>6
<1> QED BY <1>2, <1>4, <1>6, <1>7

\* The quote of a hop
LEMMA QuoteOutTyped ==
    ASSUME NEW state \in [PoolKeys -> PoolStates], NEW amount \in Quotes, NEW hop \in Seq(Nat),
           hop[1] \in Nat, hop[3] \in Nat, NEW q, q = QuoteOut(state, None)[hop][amount]
    PROVE  q \in Quotes
<1>1. PICK swap : swap = HopSwap(state, FirstPoolKey(hop), hop[3], hop[1], -amount, None)
  OBVIOUS
<1>2. q = IF amount = Error \/ swap = Error \/ (None = None /\ swap.amountOut # amount)
          THEN Error ELSE swap.amountIn
  BY <1>1, Zenon DEF QuoteOut
<1>3. CASE q = Error
  BY <1>3 DEF Quotes
<1>4. CASE q # Error
  <2>1. amount # Error /\ swap # Error /\ q = swap.amountIn
    BY <1>2, <1>4, Zenon
  <2>2. PICK n \in Int, in \in Int, out \in Int : n = -amount /\ in = hop[3] /\ out = hop[1]
    <3>1. amount \in Nat
      BY <2>1 DEF Quotes
    <3> QED BY <3>1
  <2>a. PICK k : k = FirstPoolKey(hop)
    OBVIOUS
  <2>b. PICK limit \in Nat \cup {None} : limit = None
    OBVIOUS
  <2>3. swap = HopSwap(state, k, in, out, n, limit)
    BY <1>1, <2>2, <2>a, <2>b
  <2>4. /\ k \in PoolKeys /\ n # 0
        /\ \E i \in Nat \ {0}, o \in Nat, fee \in Nat, pool \in PoolStates :
              /\ swap = [amountIn |-> i, amountOut |-> o, protocolFee |-> fee, pool |-> pool]
              /\ n > 0 => i <= n
              /\ n < 0 => o <= -n
    BY <2>1, <2>3, HopTyped
  <2>5. swap.amountIn \in Nat
    BY <2>4
  <2> QED BY <2>1, <2>5 DEF Quotes
<1> QED BY <1>3, <1>4

\* The recursion that Quote is written as
Steps(ofHop, path, amount, n, after) ==
    after = [i \in 0 .. n |-> IF i = 0 THEN amount ELSE ofHop[Hop(path, i)][after[i - 1]]]

\* A path can be quoted hop by hop.
LEMMA StepsExist ==
    ASSUME NEW ofHop, NEW path, NEW amount, NEW n \in Nat
    PROVE  \E after : Steps(ofHop, path, amount, n, after)
<1> DEFINE Good == {k \in 0 .. n : \E after : Steps(ofHop, path, amount, k, after)}
<1>1. 0 \in Good
  <2>1. Steps(ofHop, path, amount, 0, [i \in 0 .. 0 |-> amount])
    BY DEF Steps
  <2> QED BY <2>1
<1>2. ASSUME NEW k \in 0 .. n - 1, k \in Good PROVE k + 1 \in Good
  <2>1. PICK after : Steps(ofHop, path, amount, k, after)
    BY <1>2
  <2>2. PICK last : last = ofHop[Hop(path, k + 1)][after[k]]
    OBVIOUS
  <2>3. PICK next : next = [i \in 0 .. k + 1 |-> IF i = k + 1 THEN last ELSE after[i]]
    OBVIOUS
  <2>4. ASSUME NEW i \in 0 .. k + 1
        PROVE  next[i] = IF i = 0 THEN amount ELSE ofHop[Hop(path, i)][next[i - 1]]
    <3>1. CASE i = k + 1
      <4>1. i # 0 /\ i - 1 = k /\ k \in 0 .. k + 1 /\ next[k] = after[k] /\ next[i] = last
        BY <2>3, <3>1
      <4> QED BY <2>2, <3>1, <4>1
    <3>2. CASE i \in 1 .. k
      <4>1. /\ i # 0 /\ i \in 0 .. k /\ i - 1 \in 0 .. k + 1
            /\ next[i] = after[i] /\ next[i - 1] = after[i - 1]
        BY <2>3, <3>2
      <4> QED BY <2>1, <4>1 DEF Steps
    <3>3. CASE i = 0
      <4>1. next[0] = after[0] /\ 0 \in 0 .. k
        BY <2>3
      <4> QED BY <2>1, <3>3, <4>1 DEF Steps
    <3> QED BY <3>1, <3>2, <3>3
  <2>5. DOMAIN next = 0 .. k + 1 /\ next = [i \in 0 .. k + 1 |-> next[i]]
    BY <2>3
  <2>6. Steps(ofHop, path, amount, k + 1, next)
    <3> HIDE <2>3
    <3> QED BY <2>4, <2>5 DEF Steps
  <2> QED BY <2>6
<1>3. n \in Good
  <2> HIDE DEF Good
  <2> QED BY <1>1, <1>2, UpTo
<1> QED BY <1>3

\* A quote goes from hop to hop.
LEMMA QuoteSteps ==
    ASSUME NEW ofHop, NEW path, NEW amount, NumPools(path) \in Nat
    PROVE  \E after :
              /\ Quote(ofHop, path, amount) = after[NumPools(path)] /\ after[0] = amount
              /\ \A i \in 1 .. NumPools(path) : after[i] = ofHop[Hop(path, i)][after[i - 1]]
<1>1. PICK n \in Nat : n = NumPools(path)
  OBVIOUS
<1> DEFINE after == CHOOSE a : Steps(ofHop, path, amount, n, a)
<1>2. Steps(ofHop, path, amount, n, after)
  BY StepsExist
<1>3. Quote(ofHop, path, amount) = after[n]
  BY <1>1 DEF Quote, Steps
<1>4. \A i \in 0 .. n : after[i] = IF i = 0 THEN amount ELSE ofHop[Hop(path, i)][after[i - 1]]
  <2> HIDE DEF after
  <2> QED BY <1>2 DEF Steps
<1> HIDE DEF after
<1>5. after[0] = amount /\ \A i \in 1 .. n : after[i] = ofHop[Hop(path, i)][after[i - 1]]
  BY <1>4
<1> QED BY <1>1, <1>3, <1>5

\* A quote is an amount or an error.
LEMMA QuoteTyped ==
    ASSUME NEW state \in [PoolKeys -> PoolStates], NEW path, OddPath(path), NEW amount \in Nat
    PROVE  QuoteExactOutput(state, path, amount, None) \in Quotes
<1>1. PICK n \in Nat \ {0} : n = NumPools(path)
  BY OddLength
<1>2. PICK ofHop : ofHop = QuoteOut(state, None)
  OBVIOUS
<1>3. PICK after :
        /\ Quote(ofHop, path, amount) = after[n] /\ after[0] = amount
        /\ \A i \in 1 .. n : after[i] = ofHop[Hop(path, i)][after[i - 1]]
  BY <1>1, QuoteSteps
<1> DEFINE Good == {i \in 0 .. n : after[i] \in Quotes}
<1>4. 0 \in Good
  BY <1>3 DEF Quotes
<1>5. ASSUME NEW m \in 0 .. n - 1, m \in Good PROVE m + 1 \in Good
  <2>1. PICK i \in 1 .. n : i = m + 1 /\ i - 1 = m
    OBVIOUS
  <2>2. PICK a \in Quotes : a = after[m]
    BY <1>5
  <2>3. PICK hop : hop = Hop(path, i)
    OBVIOUS
  <2>4. hop \in Seq(Nat) /\ hop[1] \in Nat /\ hop[3] \in Nat
    BY <1>1, <2>3, HopParts
  <2>5. after[i] = ofHop[hop][a]
    BY <1>3, <2>1, <2>2, <2>3, Zenon
  <2>6. after[i] \in Quotes
    BY <1>2, <2>4, <2>5, QuoteOutTyped
  <2> QED BY <2>1, <2>6
<1>6. n \in Good
  <2>1. n \in Nat /\ n \in 0 .. n
    OBVIOUS
  <2> HIDE DEF Good
  <2>2. \A m \in 0 .. n : m \in Good
    BY <1>4, <1>5, <2>1, UpTo
  <2> QED BY <2>1, <2>2
<1>7. after[n] \in Quotes
  BY <1>6
<1> QED BY <1>2, <1>3, <1>7 DEF QuoteExactOutput

\* A conversion is tried along a path that begins with the native token or is configured.
LEMMA TriedPaths ==
    ASSUME NEW token \in Nat, NEW p \in NativePaths(token) \cup CustomPaths(token)
    PROVE  p.custom \in {0, 1} /\ p.at \in Nat /\ OddPath(p.path)
<1>1. Native \in Nat
  BY SwapRouterAssumption, FeeConversionAssumption
<1>2. FeeTiers \in Seq(Nat)
  <2>1. FeeTiers \in Seq(0 .. FeeUnit - 1)
    BY FeeConversionAssumption DEF TiersAre
  <2>2. PICK fees : fees = 0 .. FeeUnit - 1
    OBVIOUS
  <2>3. \A f \in fees : f \in Nat
    <3>1. FeeUnit \in Int
      BY PoolMathAssumption
    <3> QED BY <2>2, <3>1
  <2>4. FeeTiers \in Seq(fees)
    BY <2>1, <2>2
  <2> QED BY ONLY <2>3, <2>4
<1>3. CASE p \in NativePaths(token)
  <2>1. PICK i \in DOMAIN FeeTiers : p = [custom |-> 0, at |-> i, path |-> <<Native, FeeTiers[i], token>>]
    BY <1>3 DEF NativePaths
  <2>2. FeeTiers[i] \in Nat /\ i \in Nat
    BY <1>2
  <2>3. PICK path : path = <<Native, FeeTiers[i], token>>
    OBVIOUS
  <2>4. path \in Seq(Nat) /\ Len(path) = 3
    BY <1>1, <2>2, <2>3
  <2>5. 1 \in Nat \ {0} /\ Len(path) = 2 * 1 + 1
    BY <2>4
  <2>6. OddPath(path)
    BY <2>4, <2>5 DEF OddPath
  <2> QED BY <2>1, <2>2, <2>3, <2>6
<1>4. CASE p \in CustomPaths(token)
  <2>1. PICK n \in (DOMAIN FeeTiers) \X (DOMAIN ConversionPaths) :
          p = [custom |-> 1, at |-> n[1] * Len(ConversionPaths) + n[2],
               path |-> ConversionPaths[n[2]] \o <<FeeTiers[n[1]], token>>]
    BY <1>4 DEF CustomPaths
  <2>2. PICK i \in DOMAIN FeeTiers, j \in DOMAIN ConversionPaths : i = n[1] /\ j = n[2]
    OBVIOUS
  <2>3. ConversionPaths \in Seq(Seq(Nat)) /\ AcceptedPath(ConversionPaths[j])
    BY FeeConversionAssumption DEF ConversionPathsAre
  <2>4. PICK custom \in Seq(Nat), fee \in Nat :
          custom = ConversionPaths[j] /\ fee = FeeTiers[i] /\ Len(custom) >= 3 /\ (Len(custom) - 3) % 2 = 0
    BY <1>2, <2>3 DEF AcceptedPath
  <2>5. i \in Nat /\ j \in Nat /\ Len(ConversionPaths) \in Nat
    BY SMTT(40), <1>2, <2>3
  <2>6. PICK at \in Nat : at = i * Len(ConversionPaths) + j
    BY <2>5
  <2>7. PICK path : path = custom \o <<fee, token>>
    OBVIOUS
  <2>8. path \in Seq(Nat) /\ Len(path) = Len(custom) + 2
    BY <2>7
  <2>9. PICK m \in Nat : Len(custom) = 2 * m + 3
    <3>1. PICK l \in Nat : l = Len(custom) - 3
      BY <2>4
    <3>2. PICK q \in Int : q = l \div 2 /\ 2 * q <= l /\ l < 2 * q + 2
      BY DivBounds
    <3>3. l % 2 = l - 2 * q
      <4>1. l \in Int /\ 2 \in Nat \ {0}
        OBVIOUS
      <4>2. l % 2 = l - 2 * (l \div 2)
        BY <4>1, ModIs
      <4> QED BY <3>2, <4>2
    <3>4. l % 2 = 0
      BY <2>4, <3>1, Zenon
    <3>5. q \in Nat /\ l = 2 * q
      BY <3>2, <3>3, <3>4
    <3> QED BY SMTT(40), <2>4, <3>1, <3>5
  <2>10. m + 2 \in Nat \ {0} /\ Len(path) = 2 * (m + 2) + 1
    BY <2>8, <2>9
  <2>11. OddPath(path)
    BY <2>8, <2>10 DEF OddPath
  <2>12. p = [custom |-> 1, at |-> at, path |-> path]
    BY <2>1, <2>2, <2>4, <2>6, <2>7
  <2> QED BY <2>6, <2>11, <2>12
<1> QED BY <1>3, <1>4

\* What is given is a token.
LEMMA TokenInNat ==
    ASSUME NEW c, IsCommand(c)
    PROVE  TokenIn(c) \in Nat
<1>1. c.path \in Seq(Nat) /\ Len(c.path) % 2 = 1
  BY CommandParts DEF IsPath
<1>2. PICK path \in Seq(Nat), l \in Nat : path = c.path /\ l = Len(path)
  BY <1>1
<1>3. l # 0
  <2>1. l % 2 = 1
    BY <1>1, <1>2, Zenon
  <2>2. 0 % 2 = 0
    OBVIOUS
  <2> QED BY <2>1, <2>2
<1>4. path[1] \in Nat /\ path[l] \in Nat
  BY <1>2, <1>3
<1> QED BY <1>2, <1>4 DEF TokenIn, LastToken

\* What is converted, if anything: along a path that is one, for an amount that is missing
LEMMA ConversionIs ==
    ASSUME TypesInv, NEW command \in Commands, NEW fee \in TxFees, NEW plan, plan = Plan(command, fee),
           plan.conversion # None, plan.conversion # Error
    PROVE  /\ OddPath(plan.conversion.path) /\ plan.conversion.amountIn \in Nat
           /\ AmountMissing(plan.fee) \in Nat
<1>1. IsCommand(command) /\ fee \in Nat
  BY CommandIs, FeeConversionAssumption
<1>2. LacksFee(fee) /\ plan.conversion = Conversion(command, fee) /\ plan.fee = fee
  <2>1. CASE HasHandler(command) /\ LacksFee(fee)
    BY <2>1 DEF Plan
  <2>2. CASE ~(HasHandler(command) /\ LacksFee(fee))
    BY <2>2 DEF Plan
  <2> QED BY <2>1, <2>2
<1>3. PICK missing \in Nat : missing = AmountMissing(fee)
  <2>1. balance[Sender][Native] \in Int
    BY WhoIsWho, FeeConversionAssumption DEF TypesInv, Balances, Amounts
  <2>2. fee - balance[Sender][Native] \in Nat
    BY <1>1, <1>2, <2>1 DEF LacksFee
  <2> QED BY <2>2 DEF AmountMissing
<1>4. PICK token \in Nat : token = TokenIn(command)
  BY <1>1, TokenInNat
<1>5. PICK tried : tried = NativePaths(TokenIn(command)) \cup CustomPaths(TokenIn(command))
  OBVIOUS
<1> DEFINE quotes == {[custom |-> p.custom, at |-> p.at, path |-> p.path,
                       amountIn |-> QuoteExactOutput(pools, p.path, AmountMissing(fee), None)] :
                      p \in NativePaths(TokenIn(command)) \cup CustomPaths(TokenIn(command))}
           found == {q \in quotes : q.amountIn # Error}
<1>6. ASSUME NEW q \in found
      PROVE  /\ q.amountIn # Error
             /\ \E p \in tried : q = [custom |-> p.custom, at |-> p.at, path |-> p.path,
                                     amountIn |-> QuoteExactOutput(pools, p.path, missing, None)]
  BY <1>3, <1>5
<1>7. /\ plan.conversion = CHOOSE q \in found : \A r \in found : Prefers(q, r)
      /\ found # {}
  <2>1. /\ Conversion(command, fee) # Error /\ Conversion(command, fee) # None
    BY <1>2
  <2>2. Conversion(command, fee) = IF HandlerThrows(TokenIn(command)) THEN Error
          ELSE IF found = {} THEN None ELSE CHOOSE q \in found : \A r \in found : Prefers(q, r)
    BY Zenon DEF Conversion
  <2>3. PICK c : c = Conversion(command, fee)
    OBVIOUS
  <2>4. CASE HandlerThrows(TokenIn(command))
    BY <2>1, <2>2, <2>4, Zenon
  <2>5. CASE found = {}
    BY <2>1, <2>2, <2>5, Zenon
  <2> QED BY <1>2, <2>2, <2>4, <2>5, Zenon
<1>8. PICK kept : kept = found
  OBVIOUS
<1>9. ASSUME NEW q \in kept PROVE q \in Wishes /\ OddPath(q.path)
  <2>1. PICK p \in tried :
          q = [custom |-> p.custom, at |-> p.at, path |-> p.path,
               amountIn |-> QuoteExactOutput(pools, p.path, missing, None)]
    BY <1>6, <1>8
  <2>2. p.custom \in {0, 1} /\ p.at \in Nat /\ OddPath(p.path)
    BY <1>4, <1>5, TriedPaths
  <2>3. QuoteExactOutput(pools, p.path, missing, None) \in Quotes
    BY <2>2, QuoteTyped DEF TypesInv
  <2>4. PICK n : n = QuoteExactOutput(pools, p.path, missing, None)
    OBVIOUS
  <2>5. q.amountIn = n /\ q.path = p.path /\ q = [custom |-> p.custom, at |-> p.at, path |-> p.path, amountIn |-> n]
    BY <2>1, <2>4
  <2>6. n \in Nat
    BY <1>6, <1>8, <2>3, <2>4, <2>5 DEF Quotes
  <2> QED BY <2>2, <2>5, <2>6 DEF Wishes, OddPath
<1>10. kept \in SUBSET Wishes
  BY <1>9
<1>11. PICK best \in kept : best = plan.conversion
  <2>1. \E q \in kept : \A r \in kept : Prefers(q, r)
    BY <1>7, <1>10, <1>8, SomeIsPreferred
  <2> QED BY <1>7, <1>8, <2>1, Zenon
<1>12. OddPath(best.path) /\ best.amountIn \in Nat
  BY <1>9 DEF Wishes
<1> QED BY <1>2, <1>3, <1>11, <1>12

\* A conversion that begins
LEMMA ConvertKeeps ==
    ASSUME RouteIInv, Idle, NEW command \in Commands, NEW fee \in TxFees, NEW plan,
           plan = Plan(command, fee), Convert(plan)
    PROVE  RouteIInv'
<1>1. TypesInv /\ purchase = None
  BY DEF RouteIInv, Idle
<1>2. PICK path, n, bound :
        path = plan.conversion.path /\ n = AmountMissing(plan.fee) /\ bound = plan.conversion.amountIn
  OBVIOUS
<1>3. /\ Verified(plan) /\ plan.conversion # None
      /\ ExactOutput(path, n, Sender, bound, None)
      /\ tx' = [plan |-> plan, stage |-> "converting", start |-> Now]
      /\ bought' = None /\ purchase' = None
  BY <1>1, <1>2 DEF Convert
<1>4. plan.conversion # Error
  BY <1>3 DEF Verified
<1>5. OddPath(path) /\ n \in Nat /\ bound \in Nat
  BY <1>1, <1>2, <1>3, <1>4, ConversionIs
<1>6. PICK r : r = OutputRoute(path, n, Sender, bound, None)
  OBVIOUS
<1>7. call' = r /\ before' = Now /\ result' = None /\ UNCHANGED <<pools, balance, locked>>
  BY <1>3, <1>6 DEF ExactOutput, Begin, OutputRoute
<1>8. Fresh(r) /\ r.payer = Sender
  <2>1. AreParts(Sender, path, n, Sender, bound, None)
    BY <1>5, WhoIsWho DEF AreParts
  <2> QED BY <1>6, <2>1, OutputIsFresh
<1>9. RouteOK(r, pools, balance, Now)
  BY <1>1, <1>8, SendersRoute
<1>10. Now \in States /\ SameTotals(balance, locked, Now)
  BY <1>1, NowIsState
<1>11. RouteOK(r, pools, balance, before') /\ before' \in States /\ SameTotals(balance, locked, before')
  BY <1>7, <1>9, <1>10
<1>12. "converting" \in Stages
  BY DEF Stages
<1>13. IsTx(tx') /\ tx'.stage = "converting"
  BY <1>1, <1>3, <1>12, TxBegins
<1>14. TxInv' /\ (tx' # None => tx'.stage # "after")
  BY <1>3, <1>13 DEF TxInv
<1> QED BY <1>1, <1>3, <1>7, <1>8, <1>11, <1>14, RouteBegins

-----------------------------------------------------------------------------
(* The theorems *)

\* The invariant is inductive.
LEMMA RoutesInductive == Spec => []RouteIInv
<1>1. RouteIInv /\ [Next]_vars => RouteIInv'
  <2> SUFFICES ASSUME RouteIInv, [Next]_vars PROVE RouteIInv'
    OBVIOUS
  <2>1. CASE UNCHANGED vars
    <3>1. UNCHANGED <<routerVars, icoVars, tx>>
      BY <2>1 DEF vars
    <3> QED BY <3>1, Stutters
  <2>2. ASSUME NEW command \in Commands, NEW fee \in TxFees, Transaction(command, fee) PROVE RouteIInv'
    <3>1. PICK plan : plan = Plan(command, fee) /\ Idle /\ (Reject(plan) \/ Convert(plan) \/ NoConversion(plan))
      BY <2>2 DEF Transaction
    <3>2. CASE Reject(plan)
      <4>1. UNCHANGED <<routerVars, icoVars, tx>>
        BY <3>2 DEF Reject
      <4> QED BY <4>1, Stutters
    <3>3. CASE Convert(plan)
      BY <3>1, <3>3, ConvertKeeps
    <3>4. CASE NoConversion(plan)
      BY <3>1, <3>4, NoConversionKeeps
    <3> QED BY <3>1, <3>2, <3>3, <3>4
  <2>3. ASSUME Execution PROVE RouteIInv'
    <3>1. CASE RouteStep /\ UNCHANGED <<icoVars, tx, events>>
      <4>1. UNCHANGED <<icoVars, tx>>
        BY <3>1
      <4>2. CASE SwapIn \/ SwapOut \/ PayOut \/ ReturnOut
        BY <4>1, <4>2, RouteGoesOn
      <4>3. CASE Finish \/ Revert
        BY <4>1, <4>3, RouteEnds
      <4> QED BY <3>1, <4>2, <4>3 DEF RouteStep
    <3>2. CASE (IcoSwapInternal \/ IcoRevert) /\ UNCHANGED <<tx, events>>
      BY <3>2, IcoSwapInternalKeeps, IcoRevertKeeps
    <3>3. CASE Converted \/ TakeFee \/ ExecuteBaseFee
      BY <3>3, ConvertedKeeps, TakeFeeKeeps, ExecuteBaseFeeKeeps
    <3>4. CASE ExactInputCommand \/ ExactInputSingleCommand
      <4>1. PICK c \in Commands, name \in SwapNames : RunsNow(c, name) /\ SwapsInput(c)
        BY <3>4 DEF ExactInputCommand, ExactInputSingleCommand, SwapNames
      <4> QED BY <4>1, SwapsInputKeeps
    <3>5. CASE ExactOutputCommand \/ ExactOutputSingleCommand
      <4>1. PICK c \in Commands, name \in SwapNames : RunsNow(c, name) /\ SwapsOutput(c)
        BY <3>5 DEF ExactOutputCommand, ExactOutputSingleCommand, SwapNames
      <4> QED BY <4>1, SwapsOutputKeeps
    <3>6. CASE IcoExactInputCommand \/ IcoExactInputSingleCommand \/ IcoExactOutputCommand
               \/ IcoExactOutputSingleCommand
      <4>1. PICK c \in Commands, name \in PurchaseNames : RunsNow(c, name) /\ Purchase(c, Now)
        BY <3>6 DEF IcoExactInputCommand, IcoExactInputSingleCommand, IcoExactOutputCommand,
                    IcoExactOutputSingleCommand, PurchaseNames
      <4> QED BY <4>1, PurchaseCommandKeeps
    <3>7. CASE EndCommand \/ NoSwap \/ EndHook
      BY <3>7, TxEnds
    <3>8. CASE TransferCommand \/ SwapAtIco \/ SwapAtPool \/ Invalid
      BY <3>8, TransferCommandKeeps, SwapAtIcoKeeps, SwapAtPoolKeeps, InvalidKeeps
    <3> QED BY <2>3, <3>1, <3>2, <3>3, <3>4, <3>5, <3>6, <3>7, <3>8 DEF Execution
  <2>4. ASSUME Meanwhile PROVE RouteIInv'
    BY <2>4, MeanwhileKeeps
  <2> QED BY <2>1, <2>2, <2>3, <2>4 DEF Next
<1> QED BY <1>1, InitHolds, PTL DEF Spec

-----------------------------------------------------------------------------
(* What routes settle *)

\* A gain is a number.
LEMMA GainIs ==
    ASSUME TypesInv, before \in States, NEW a \in Accounts, NEW t \in Tokens
    PROVE  /\ balance[a][t] \in Int /\ before.balance[a][t] \in Int
           /\ Gain(a, t) = balance[a][t] - before.balance[a][t]
<1>1. balance \in Balances /\ before.balance \in Balances
  BY DEF TypesInv, States
<1> QED BY <1>1 DEF Balances, Amounts, Gain

\* A route that has ended well settles.
LEMMA DoneSettles ==
    ASSUME TypesInv, before \in States, RouteDone(result.route, pools, balance, before)
    PROVE  SwapSettles
<1>1. PICK r \in RouteRecords : r = result.route
  BY DEF RouteDone, RouteOK
<1>2. /\ Along(r) /\ InPhase(r) /\ Untouched(r, pools, balance, before) /\ Gains(r, balance, before)
      /\ r.phase = "finish" /\ WithinBound(r, r.amount)
      /\ \A t \in TokensOf(r.path) : balance[Router][t] = 0
  BY <1>1 DEF RouteDone, RouteOK
<1>3. OddPath(r.path) /\ TokensOf(r.path) \subseteq Tokens
  BY <1>2 DEF Along
<1>4. PICK in \in Tokens, out \in Tokens : in = RouteIn(r) /\ out = RouteOut(r)
  <2>1. r.path[1] \in Tokens /\ LastToken(r.path) \in Tokens
    BY <1>3, PathParts
  <2> QED BY <2>1 DEF RouteIn, RouteOut
<1>5. PICK x \in Int, y \in Int : Exchanged(r, balance, before, x, y) /\ SoFar(r, x, y)
  BY <1>2 DEF Gains
<1>6. PICK specified \in Nat, bound \in Nat, amount \in Nat :
        specified = r.specified /\ bound = r.bound /\ amount = r.amount
  BY DEF RouteRecords
<1>7. Sender \in Accounts
  BY WhoIsWho
<1>8. ASSUME NEW t \in Tokens
      PROVE  Gain(Sender, t) = (IF t = out /\ r.receiver = Sender THEN y ELSE 0) - (IF t = in THEN x ELSE 0)
  <2>1. /\ balance[Sender][t] \in Int /\ before.balance[Sender][t] \in Int
        /\ Gain(Sender, t) = balance[Sender][t] - before.balance[Sender][t]
    BY <1>7, GainIs
  <2>2. balance[Sender][t] = before.balance[Sender][t]
            + (IF t = out /\ r.receiver = Sender THEN y ELSE 0) - (IF t = in THEN x ELSE 0)
    BY <1>4, <1>5 DEF Exchanged
  <2> QED BY <2>1, <2>2
<1>9. CASE r.exactInput
  <2>1. x <= specified /\ y = amount /\ amount >= bound
    BY <1>2, <1>5, <1>6, <1>9 DEF SoFar, InputSoFar, WithinBound
  <2>2. in # out => Gain(Sender, in) >= -specified
    BY <1>8, <2>1
  <2>3. in # out /\ r.receiver = Sender => Gain(Sender, out) >= bound
    BY <1>8, <2>1
  <2>4. in = r.path[1] /\ out = LastToken(r.path)
    BY <1>4, <1>9 DEF RouteIn, RouteOut
  <2>5. \A t \in Tokens \ {in, out} : Gain(Sender, t) = 0
    BY <1>8
  <2> QED BY <1>1, <1>2, <1>6, <1>9, <2>2, <2>3, <2>4, <2>5 DEF SwapSettles, Route, TokenIn, Untouched
<1>10. CASE ~r.exactInput
  <2>1. x = amount /\ amount <= bound /\ (r.limit = None => y = specified)
    BY <1>2, <1>5, <1>6, <1>10 DEF SoFar, OutputSoFar, WithinBound
  <2>2. in # out => Gain(Sender, in) >= -bound
    BY <1>8, <2>1
  <2>3. in # out /\ r.receiver = Sender /\ r.limit = None => Gain(Sender, out) >= specified
    BY <1>8, <2>1
  <2>4. out = r.path[1] /\ in = LastToken(r.path)
    BY <1>4, <1>10 DEF RouteIn, RouteOut
  <2>5. \A t \in Tokens \ {in, out} : Gain(Sender, t) = 0
    BY <1>8
  <2> QED BY <1>1, <1>2, <1>6, <1>10, <2>2, <2>3, <2>4, <2>5 DEF SwapSettles, Route, TokenIn, Untouched
<1> QED BY <1>9, <1>10

\* All is there when something has ended.
LEMMA KeptIsThere ==
    ASSUME TypesInv, KeptInv, Started
    PROVE  before \in States /\ AllIsThere
BY DEF TypesInv, KeptInv, SameTotals, AllIsThere
-----------------------------------------------------------------------------
(* What purchases settle *)

\* No ICO pays itself or the sender of the transactions, and no purchase is of a token
\* on its own path or for the ICO that sells it.
OrdersSuit ==
    /\ \A pool \in DOMAIN ICOs : ICOs[pool].providerAddress \notin {pool, Sender}
    /\ \A c \in Commands : IsPurchase(c) => c.recipient # IcoPool(c) /\ c.tokenOut \notin TokensOf(c.path)

\* Who an order is of and for
LEMMA Suited ==
    ASSUME OrdersSuit, NEW o, IsOrder(o), Ordered(o)
    PROVE  /\ PaidBy(o) # IcoPool(o) /\ PaidBy(o) # Sender /\ o.recipient # IcoPool(o)
           /\ TokenIn(o) # o.tokenOut
           /\ HasPath(o) => OddPath(o.path) /\ o.payer = Sender /\ o.tokenOut \notin TokensOf(o.path)
           /\ ~HasPath(o) => TokenIn(o) = IcoTokenIn(o)
<1>1. /\ IcoPool(o) \in DOMAIN ICOs /\ IcoPool(o) # Sender /\ IcoTokenIn(o) # o.tokenOut
  BY IcoParts DEF IsOrder
<1>2. PaidBy(o) # IcoPool(o) /\ PaidBy(o) # Sender
  BY <1>1 DEF OrdersSuit, PaidBy
<1>3. PICK path \in Seq(Nat), n \in Nat : path = o.path /\ Len(path) = 2 * n + 1
  BY DEF IsOrder
<1>4. NumPools(path) = n /\ (n > 0 => OddPath(path))
  BY <1>3, PathOfOrder
<1>5. ~HasPath(o) => TokenIn(o) = IcoTokenIn(o)
  <2>1. ~HasPath(o) => Len(path) = 1
    BY <1>3, <1>4 DEF HasPath
  <2> QED BY <1>3, <2>1 DEF TokenIn, IcoTokenIn, LastToken
<1>6. CASE o \in Commands /\ IsPurchase(o) /\ o.payer = Sender
  <2>1. o.recipient # IcoPool(o) /\ o.tokenOut \notin TokensOf(o.path)
    BY <1>6 DEF OrdersSuit
  <2>2. HasPath(o) => TokenIn(o) \in TokensOf(o.path)
    <3>1. HasPath(o) => OddPath(path)
      BY <1>3, <1>4 DEF HasPath
    <3> QED BY <1>3, <3>1, PathParts DEF TokenIn
  <2>3. TokenIn(o) # o.tokenOut
    BY <1>1, <1>5, <2>1, <2>2
  <2> QED BY <1>2, <1>3, <1>4, <1>5, <1>6, <2>1, <2>3 DEF HasPath
<1>7. CASE ~HasPath(o) /\ o.recipient = Sender
  BY <1>1, <1>2, <1>5, <1>7
<1> QED BY <1>6, <1>7 DEF Ordered

\* What a purchase may take at most
MostOf(o, amountIn) ==
    IF ~HasPath(o) THEN amountIn ELSE IF o.exactInput THEN o.amount ELSE o.bound

\* The provider of the ICO has been paid, by the sender.
IsPaid(o, b, s, amountIn) ==
    /\ TokenIn(o) \in Tokens
    /\ \E x \in Int : /\ x <= MostOf(o, amountIn)
                      /\ \A t \in Tokens : b[Sender][t] = s.balance[Sender][t]
                                                         - (IF t = TokenIn(o) THEN x ELSE 0)
    /\ (o.payer # Sender => s.balance[Sender][TokenIn(o)] >= o.amount) =>
          b[IcoPool(o)][IcoTokenIn(o)] = s.balance[IcoPool(o)][IcoTokenIn(o)]
    /\ b[IcoPool(o)][o.tokenOut] = s.balance[IcoPool(o)][o.tokenOut]
    /\ b[PaidBy(o)][IcoTokenIn(o)] = s.balance[PaidBy(o)][IcoTokenIn(o)] + amountIn
    /\ b[o.recipient][o.tokenOut] = s.balance[o.recipient][o.tokenOut]

\* After a first leg, which brings what the ICO takes
LEMMA PaidAlongPath ==
    ASSUME OrdersSuit, RouteIInv, purchase # None, call = None, ~PathFailed, HasPath(purchase),
           NEW amount, amount = IcoAmountIn(purchase),
           NEW paid, paid = Transferred(balance, purchase.payer, PaidBy(purchase),
                                        IcoTokenIn(purchase), amount)
    PROVE  IsPaid(purchase, paid, before, amount)
<1>1. TypesInv /\ ResultInv /\ PurchaseInv /\ before \in States
  BY DEF RouteIInv, TypesInv, Started
<1>2. PICK o : o = purchase
  OBVIOUS
<1>3. IsOrder(o) /\ Ordered(o) /\ IcoPathExists(o)
  BY <1>1, <1>2 DEF PurchaseInv, IsOrder
<1>4. PICK pool, provider, token, sold, to, in :
        /\ token \in Tokens /\ sold \in Tokens
        /\ pool = IcoPool(o) /\ provider = PaidBy(o) /\ token = IcoTokenIn(o) /\ sold = o.tokenOut
        /\ to = o.recipient /\ in = TokenIn(o)
  BY <1>3, IcoParts
<1>5. /\ pool \in DOMAIN Holdings /\ provider \in DOMAIN Holdings /\ token # sold /\ pool # Sender
      /\ provider # pool /\ provider # Sender /\ to # pool
      /\ OddPath(o.path) /\ o.payer = Sender /\ sold \notin TokensOf(o.path) /\ in # sold
  BY <1>2, <1>3, <1>4, IcoParts, Suited
<1>6. /\ to \in Accounts /\ amount \in Nat /\ o.exactInput \in BOOLEAN
      /\ result # None /\ FirstLeg(result.route, o) /\ RouteDone(result.route, pools, balance, before)
  BY <1>1, <1>2, <1>4, IcoTurn
<1>7. PICK r \in RouteRecords : r = result.route
  BY <1>6 DEF RouteDone, RouteOK
<1>8. /\ Untouched(r, pools, balance, before) /\ Gains(r, balance, before)
      /\ r.phase = "finish" /\ WithinBound(r, r.amount)
  BY <1>6, <1>7 DEF RouteDone, RouteOK
<1>9. /\ r.path = o.path /\ r.receiver = Sender /\ r.limit = None /\ r.bound = o.bound
      /\ r.exactInput = o.exactInput
      /\ r.specified = IF o.exactInput THEN o.amount
                       ELSE QuoteExactOutputSingle(ICOs[IcoPool(o)].price, o.amount)
  BY <1>6, <1>7 DEF FirstLeg
<1>10. PICK x \in Int, y \in Int : Exchanged(r, balance, before, x, y) /\ SoFar(r, x, y)
  BY <1>8 DEF Gains
<1>11. RouteIn(r) = in /\ RouteOut(r) = token
  BY <1>4, <1>9 DEF RouteIn, RouteOut, TokenIn, IcoTokenIn
<1>12. y = amount
  <2>1. CASE o.exactInput
    BY <1>2, <1>6, <1>7, <1>8, <1>9, <1>10, <2>1 DEF SoFar, InputSoFar, IcoAmountIn
  <2>2. CASE ~o.exactInput
    BY <1>2, <1>6, <1>7, <1>8, <1>9, <1>10, <2>2 DEF SoFar, OutputSoFar, IcoAmountIn
  <2> QED BY <2>1, <2>2
<1>13. x <= MostOf(o, amount)
  <2>1. CASE o.exactInput
    BY <1>2, <1>8, <1>9, <1>10, <2>1 DEF SoFar, InputSoFar, MostOf
  <2>2. CASE ~o.exactInput
    BY <1>2, <1>8, <1>9, <1>10, <2>2 DEF SoFar, OutputSoFar, MostOf, WithinBound
  <2> QED BY <2>1, <2>2
<1>14. /\ balance \in Balances /\ before.balance \in Balances /\ token \in Tokens /\ sold \in Tokens
       /\ Sender \in Accounts /\ pool \in Accounts /\ provider \in Accounts
  BY <1>1, <1>4, <1>5, WhoIsWho DEF TypesInv, States
<1>15. IsMoved(paid, balance, Sender, provider, token, amount)
  <2>1. paid = Transferred(balance, Sender, provider, token, amount) /\ amount \in Int
    BY <1>2, <1>4, <1>5, <1>6
  <2> QED BY <1>14, <2>1, TransferredIs
<1>16. ASSUME NEW t \in Tokens
       PROVE  paid[Sender][t] = before.balance[Sender][t] - (IF t = in THEN x ELSE 0)
  <2>1. balance[Sender][t] = before.balance[Sender][t]
            + (IF t = token THEN y ELSE 0) - (IF t = in THEN x ELSE 0)
    BY <1>9, <1>10, <1>11 DEF Exchanged
  <2>2. paid[Sender][t] = balance[Sender][t] - (IF t = token THEN amount ELSE 0)
    BY <1>5, <1>6, <1>14, <1>15 DEF IsMoved, Balances, Amounts
  <2>3. before.balance[Sender][t] \in Int
    BY <1>14 DEF Balances, Amounts
  <2> QED BY <1>6, <1>12, <2>1, <2>2, <2>3
<1>17. balance[pool] = before.balance[pool] /\ balance[provider] = before.balance[provider]
  BY <1>5, <1>8, <1>9 DEF Untouched
<1>18. balance[to][sold] = before.balance[to][sold]
  BY <1>4, <1>5, <1>6, <1>8, <1>9 DEF Untouched
<1>19. /\ paid[pool][token] = before.balance[pool][token] /\ paid[pool][sold] = before.balance[pool][sold]
       /\ paid[provider][token] = before.balance[provider][token] + amount
  BY <1>5, <1>14, <1>15, <1>17 DEF IsMoved, Balances, Amounts
<1>20. paid[to][sold] = before.balance[to][sold]
  BY <1>5, <1>6, <1>14, <1>15, <1>18 DEF IsMoved, Balances, Amounts
<1>21. in \in Tokens
  <2>1. OddPath(r.path) /\ TokensOf(r.path) \subseteq Tokens
    BY <1>6, <1>7, <1>8 DEF RouteDone, RouteOK, Along
  <2>2. r.path[1] \in Tokens /\ LastToken(r.path) \in Tokens
    BY <2>1, PathParts
  <2> QED BY <1>11, <2>2 DEF RouteIn
<1> QED BY <1>2, <1>4, <1>13, <1>16, <1>19, <1>20, <1>21 DEF IsPaid

\* Without a first leg, by the sender or by the ICO that was sent what it takes
LEMMA PaidDirectly ==
    ASSUME OrdersSuit, RouteIInv, purchase # None, call = None, ~PathFailed, ~HasPath(purchase),
           NEW amount, amount = IcoAmountIn(purchase),
           NEW paid, paid = Transferred(balance, purchase.payer, PaidBy(purchase),
                                        IcoTokenIn(purchase), amount)
    PROVE  IsPaid(purchase, paid, before, amount)
<1>1. TypesInv /\ ResultInv /\ PurchaseInv /\ before \in States
  BY DEF RouteIInv, TypesInv, Started
<1>2. PICK o : o = purchase
  OBVIOUS
<1>3. IsOrder(o) /\ Ordered(o) /\ IcoPathExists(o) /\ Paid1(o, balance, before)
  BY <1>1, <1>2 DEF PurchaseInv, IsOrder
<1>4. PICK pool, provider, token, sold, to :
        /\ token \in Tokens /\ sold \in Tokens
        /\ pool = IcoPool(o) /\ provider = PaidBy(o) /\ token = IcoTokenIn(o) /\ sold = o.tokenOut
        /\ to = o.recipient
  BY <1>3, IcoParts
<1>5. /\ pool \in DOMAIN Holdings /\ provider \in DOMAIN Holdings /\ token # sold /\ pool # Sender
      /\ provider # pool /\ provider # Sender /\ to # pool /\ TokenIn(o) = token
  BY <1>2, <1>3, <1>4, IcoParts, Suited
<1>6. /\ to \in Accounts /\ amount \in Nat /\ o.exactInput \in BOOLEAN
  BY <1>1, <1>2, <1>4, IcoTurn
<1>7. /\ balance \in Balances /\ before.balance \in Balances /\ token \in Tokens /\ sold \in Tokens
      /\ Sender \in Accounts /\ pool \in Accounts /\ provider \in Accounts
  BY <1>1, <1>4, <1>5, WhoIsWho DEF TypesInv, States
<1>8. MostOf(o, amount) = amount
  BY <1>2 DEF MostOf
<1>9. CASE o.payer = Sender
  <2>1. balance = before.balance
    BY <1>3, <1>9 DEF Paid1
  <2>2. IsMoved(paid, balance, Sender, provider, token, amount)
    <3>1. paid = Transferred(balance, Sender, provider, token, amount) /\ amount \in Int
      BY <1>2, <1>4, <1>6, <1>9
    <3> QED BY <1>7, <3>1, TransferredIs
  <2>3. \A t \in Tokens : paid[Sender][t] = before.balance[Sender][t] - (IF t = token THEN amount ELSE 0)
    BY <1>5, <1>6, <1>7, <2>1, <2>2 DEF IsMoved, Balances, Amounts
  <2>4. /\ paid[pool][token] = before.balance[pool][token] /\ paid[pool][sold] = before.balance[pool][sold]
        /\ paid[provider][token] = before.balance[provider][token] + amount
    BY <1>5, <1>6, <1>7, <2>1, <2>2 DEF IsMoved, Balances, Amounts
  <2>5. paid[to][sold] = before.balance[to][sold]
    BY <1>5, <1>6, <1>7, <2>1, <2>2 DEF IsMoved, Balances, Amounts
  <2>6. amount \in Int /\ amount <= MostOf(o, amount)
    BY <1>6, <1>8
  <2> QED BY <1>2, <1>4, <1>5, <2>3, <2>4, <2>5, <2>6 DEF IsPaid
<1>10. CASE o.payer # Sender
  <2>1. o.payer = pool /\ to = Sender /\ o.exactInput
    BY <1>3, <1>4, <1>10 DEF Ordered
  <2>2. amount = o.amount
    BY <1>2, <2>1 DEF IcoAmountIn
  <2>3. o.path[1] = token
    BY <1>5, <2>1 DEF TokenIn
  <2>4. balance = IF before.balance[Sender][token] >= amount
                  THEN Transferred(before.balance, Sender, pool, token, amount) ELSE before.balance
    BY <1>3, <1>10, <2>1, <2>2, <2>3 DEF Paid1, Sent1
  <2>5. IsMoved(paid, balance, pool, provider, token, amount)
    <3>1. paid = Transferred(balance, pool, provider, token, amount) /\ amount \in Int
      BY <1>2, <1>4, <1>6, <2>1
    <3> QED BY <1>7, <3>1, TransferredIs
  <2>6. PICK x \in Nat : /\ x = IF before.balance[Sender][token] >= amount THEN amount ELSE 0
    BY <1>6
  <2>7. IsMoved(balance, before.balance, Sender, pool, token, x)
    <3>1. CASE before.balance[Sender][token] >= amount
      <4>1. balance = Transferred(before.balance, Sender, pool, token, amount) /\ amount \in Int
        BY <1>6, <2>4, <3>1
      <4> QED BY <1>7, <2>6, <3>1, <4>1, TransferredIs
    <3>2. CASE ~(before.balance[Sender][token] >= amount)
      <4>1. balance = before.balance /\ x = 0
        BY <2>4, <2>6, <3>2
      <4> QED BY <1>7, <4>1 DEF IsMoved, Balances, Amounts
    <3> QED BY <3>1, <3>2
  <2>8. \A t \in Tokens : paid[Sender][t] = before.balance[Sender][t] - (IF t = token THEN x ELSE 0)
    BY <1>5, <1>6, <1>7, <2>5, <2>7 DEF IsMoved, Balances, Amounts
  <2>9. /\ paid[pool][token] = before.balance[pool][token] + x - amount
        /\ paid[pool][sold] = before.balance[pool][sold]
        /\ paid[provider][token] = before.balance[provider][token] + amount
    BY <1>5, <1>6, <1>7, <2>5, <2>7 DEF IsMoved, Balances, Amounts
  <2>10. paid[Sender][sold] = before.balance[Sender][sold]
    BY <1>5, <1>7, <2>8 DEF Balances, Amounts
  <2>11. before.balance[Sender][token] >= amount => paid[pool][token] = before.balance[pool][token]
    BY <1>6, <1>7, <2>6, <2>9 DEF Balances, Amounts
  <2>12. x \in Int /\ x <= MostOf(o, amount)
    BY <1>6, <1>8, <2>6
  <2> QED BY <1>2, <1>4, <1>5, <1>10, <2>1, <2>2, <2>8, <2>9, <2>10, <2>11, <2>12 DEF IsPaid
<1> QED BY <1>9, <1>10

\* What an order asks for, and what its recipient gets at least
LeastOf(o) ==
    IF ~o.exactInput THEN o.amount
    ELSE QuoteExactInputSingle(ICOs[IcoPool(o)].price, IF HasPath(o) THEN o.bound ELSE o.amount)

\* An ICO quotes no less for more.
LEMMA QuotesGrow ==
    ASSUME NEW m \in Nat, NEW n \in Nat, m <= n, n <= MaxAmount,
           NEW den \in Nat, NEW num \in Nat \ {0}
    PROVE  Rounded(Read(m) * den, num) <= Rounded(Read(n) * den, num)
<1>1. PICK a, b \in Nat : a = Read(m) /\ b = Read(n)
  BY ReadIs
<1>2. a <= b
  BY <1>1, ReadGrows
<1>3. PICK c, d \in Nat : c = a * den /\ d = b * den
  OBVIOUS
<1>4. c <= d
  BY <1>2, <1>3
<1> QED BY <1>1, <1>3, <1>4, RoundedGrows

\* What of an order its quote is of, if it is no exact Number
Inexact(o, amountIn, num, den) ==
    IF o.exactInput THEN BeyondNumber(amountIn, den) ELSE BeyondNumber(o.amount, num)

AtPrice(price, gap, inexact) == WithinRounding(price, gap, 1, inexact)

\* What an ICO takes and gives is at its price.
LEMMA IcoPrice ==
    ASSUME RouteIInv, purchase # None, call = None, ~PathFailed,
           NEW o, o = purchase, NEW in, in = IcoAmountIn(o), NEW out, out = IcoAmountOut(o),
           NEW price, price = ICOs[IcoPool(o)].price,
           NEW num, num = price.num, NEW den, den = price.den,
           NEW gap, gap = den * in - num * out
    PROVE  /\ in \in Nat /\ out \in Nat /\ num \in Nat \ {0} /\ den \in Nat \ {0}
           /\ AtPrice(price, gap, Inexact(o, in, num, den))
           /\ in <= MaxAmount => out >= LeastOf(o)
<1>1. TypesInv /\ ResultInv /\ PurchaseInv
  BY DEF RouteIInv
<1>2. IsOrder(o) /\ Ordered(o) /\ IcoPathExists(o)
  BY <1>1 DEF PurchaseInv, IsOrder
<1>3. num \in Nat \ {0} /\ den \in Nat \ {0}
  BY <1>2, IcoParts
<1>4. /\ in \in Nat /\ out \in Nat /\ o.exactInput \in BOOLEAN
      /\ HasPath(o) => result # None /\ FirstLeg(result.route, o) /\ RouteDone(result.route, pools, balance, before)
  BY <1>1, IcoTurn
<1>5. PICK amount \in Nat, bound \in Nat : amount = o.amount /\ bound = o.bound
  BY <1>2 DEF IsOrder
<1>6. PICK unit \in Nat : unit = Unit(price) /\ num <= unit /\ den <= unit
  <2>1. Unit(price) = IF num > den THEN num ELSE den
    BY DEF Unit
  <2> QED BY <1>3, <2>1
<1>7. gap \in Int /\ -gap \in Int /\ -(-gap) = gap
  <2>1. PICK a, b \in Int : a = den * in /\ b = num * out
    BY <1>3, <1>4
  <2> QED BY <2>1
<1>8. ASSUME NEW b, OffBy(unit, gap, 1, b), OffBy(unit, -gap, 1, b)
      PROVE  AtPrice(price, gap, b)
  BY <1>6, <1>7, <1>8, WithinRoundingIs DEF AtPrice
<1>9. CASE o.exactInput
  <2>1. out = Rounded(Read(in) * den, num)
    BY <1>9 DEF IcoAmountOut, QuoteExactInputSingle
  <2>2. PICK b : b = BeyondNumber(in, den)
    OBVIOUS
  <2>3. -gap = num * out - in * den
    BY <1>3, <1>4
  <2>4. OffBy(unit, -gap, 1, b) /\ OffBy(unit, -(-gap), 1, b)
    <3>1. num <= unit /\ den \in Nat /\ -gap \in Int
      BY <1>3, <1>6, <1>7
    <3> QED BY ONLY <1>3, <1>4, <2>1, <2>2, <2>3, <3>1, unit \in Nat, QuoteClose
  <2>5. AtPrice(price, gap, b)
    BY <1>7, <1>8, <2>4
  <2>6. Inexact(o, in, num, den) = b
    BY <1>9, <2>2 DEF Inexact
  <2>7. PICK least \in Nat : least = IF HasPath(o) THEN bound ELSE amount
    OBVIOUS
  <2>8. least <= in
    <3>1. CASE HasPath(o)
      <4>1. PICK r \in RouteRecords : r = result.route
        BY <1>4, <3>1 DEF RouteDone, RouteOK
      <4>2. r.exactInput = o.exactInput /\ r.bound = bound /\ WithinBound(r, r.amount) /\ r.amount \in Nat
        BY <1>4, <1>5, <3>1, <4>1 DEF RouteDone, FirstLeg, RouteRecords
      <4>3. in = r.amount
        BY <1>9, <3>1, <4>1 DEF IcoAmountIn
      <4> QED BY <1>9, <2>7, <3>1, <4>2, <4>3 DEF WithinBound
    <3>2. CASE ~HasPath(o)
      BY <1>5, <1>9, <2>7, <3>2 DEF IcoAmountIn
    <3> QED BY <3>1, <3>2
  <2>9. LeastOf(o) = Rounded(Read(least) * den, num)
    BY <1>5, <1>9, <2>7 DEF LeastOf, QuoteExactInputSingle
  <2>10. in <= MaxAmount => out >= LeastOf(o)
    <3> SUFFICES ASSUME in <= MaxAmount PROVE out >= LeastOf(o)
      OBVIOUS
    <3>1. PICK x : x = Rounded(Read(least) * den, num)
      OBVIOUS
    <3>2. x <= out
      BY <1>3, <1>4, <2>1, <2>8, <3>1, QuotesGrow
    <3>3. x \in Nat
      <4>1. PICK k \in Nat : k = Read(least) * den
        <5>1. PICK a \in Nat : a = Read(least)
          BY ReadIs
        <5> QED BY <1>3, <5>1
      <4> QED BY <1>3, <3>1, <4>1, RoundedIs
    <3> QED BY <1>4, <2>9, <3>1, <3>2, <3>3
  <2> QED BY <1>3, <1>4, <2>5, <2>6, <2>10
<1>10. CASE ~o.exactInput
  <2>1. out = amount /\ in = Rounded(Read(out) * num, den)
    BY <1>5, <1>10 DEF IcoAmountOut, IcoAmountIn, QuoteExactOutputSingle
  <2>2. PICK b : b = BeyondNumber(out, num)
    OBVIOUS
  <2>3. gap = den * in - out * num
    BY <1>3, <1>4
  <2>4. OffBy(unit, gap, 1, b) /\ OffBy(unit, -gap, 1, b)
    <3>1. den <= unit /\ num \in Nat /\ gap \in Int /\ in = Rounded(Read(out) * num, den)
      BY <1>3, <1>6, <1>7, <2>1
    <3> QED BY ONLY <1>3, <1>4, <2>2, <2>3, <3>1, unit \in Nat, QuoteClose
  <2>5. AtPrice(price, gap, b)
    BY <1>8, <2>4
  <2>6. Inexact(o, in, num, den) = b
    BY <1>5, <1>10, <2>1, <2>2 DEF Inexact
  <2>7. LeastOf(o) = out
    BY <1>5, <1>10, <2>1 DEF LeastOf
  <2> QED BY <1>3, <1>4, <2>5, <2>6, <2>7
<1> QED BY <1>4, <1>9, <1>10

\* PurchaseSettles, of given balances
Settled(o, amountIn, b, s) ==
    LET in == TokenIn(o)
        pool == IcoPool(o)
        price == ICOs[pool].price
        most == IF ~HasPath(o) THEN amountIn
                ELSE IF o.exactInput THEN o.amount ELSE o.bound
    IN  /\ b[Sender][in] - s[Sender][in] >= -most
        /\ \A t \in Tokens \ {in, o.tokenOut} : b[Sender][t] - s[Sender][t] = 0
        /\ (o.payer # Sender => s[Sender][TokenIn(o)] >= o.amount) => b[pool][pool[1]] - s[pool][pool[1]] = 0
        /\ WithinRounding(price,
               price.den * (b[ICOs[pool].providerAddress][pool[1]] - s[ICOs[pool].providerAddress][pool[1]])
                   + price.num * (b[pool][pool[2]] - s[pool][pool[2]]), 1,
               IF o.exactInput THEN BeyondNumber(amountIn, price.den)
               ELSE BeyondNumber(o.amount, price.num))
        /\ amountIn <= MaxAmount =>
              b[o.recipient][o.tokenOut] - s[o.recipient][o.tokenOut]
                  >= IF ~o.exactInput THEN o.amount
                     ELSE QuoteExactInputSingle(price, IF HasPath(o) THEN o.bound ELSE o.amount)

\* A purchase that has settled on the balances of the next state
LEMMA SettledThen ==
    ASSUME Settled(bought'.order, bought'.amountIn, balance', before'.balance)
    PROVE  PurchaseSettles'
BY Zenon DEF Settled, PurchaseSettles, Order, Gain, BuysWithWhatWasSent

\* The turn of the ICO settles a purchase.
LEMMA IcoSettles ==
    ASSUME OrdersSuit, RouteIInv, IcoSwapInternal
    PROVE  PurchaseSettles'
<1>1. TypesInv /\ ResultInv /\ PurchaseInv /\ purchase # None /\ call = None /\ ~PathFailed /\ before \in States
  BY DEF RouteIInv, TypesInv, Started, IcoSwapInternal, IcoFits
<1>2. PICK o, in, out, from, pool, to, sold, token, provider :
        /\ o = purchase /\ in = IcoAmountIn(o) /\ out = IcoAmountOut(o) /\ from = o.payer
        /\ pool = IcoPool(o) /\ to = o.recipient /\ sold = o.tokenOut
        /\ token = IcoTokenIn(o) /\ provider = PaidBy(o)
  OBVIOUS
<1>3. PICK paid, b : /\ paid = Transferred(balance, from, provider, token, in)
                     /\ b = Transferred(paid, pool, to, sold, out)
  OBVIOUS
<1>4. /\ balance' = b /\ before' = before
      /\ bought' = [ok |-> TRUE, order |-> o, amountIn |-> in, amountOut |-> out]
  BY <1>2, <1>3 DEF IcoSwapInternal
<1>5. IsOrder(o) /\ Ordered(o) /\ IcoPathExists(o)
  BY <1>1, <1>2 DEF PurchaseInv, IsOrder
<1>6. /\ pool \in DOMAIN Holdings /\ provider \in DOMAIN Holdings /\ token \in Tokens /\ sold \in Tokens
      /\ token # sold /\ pool # Sender /\ pool = <<token, sold>>
      /\ provider # pool /\ provider # Sender /\ to # pool /\ TokenIn(o) # sold
  BY <1>2, <1>5, IcoParts, Suited
<1>7. from \in Accounts /\ to \in Accounts /\ Sender \in Accounts /\ pool \in Accounts /\ provider \in Accounts
  BY <1>1, <1>2, <1>6, IcoTurn, WhoIsWho
<1>8. PICK price, num, den, gap :
        price = ICOs[pool].price /\ num = price.num /\ den = price.den /\ gap = den * in - num * out
  OBVIOUS
<1>9. /\ in \in Nat /\ out \in Nat /\ num \in Nat \ {0} /\ den \in Nat \ {0}
      /\ AtPrice(price, gap, Inexact(o, in, num, den))
      /\ in <= MaxAmount => out >= LeastOf(o)
  BY <1>1, <1>2, <1>8, IcoPrice
<1>10. IsPaid(o, paid, before, in)
  <2>1. CASE HasPath(purchase)
    BY <1>1, <1>2, <1>3, <2>1, PaidAlongPath
  <2>2. CASE ~HasPath(purchase)
    BY <1>1, <1>2, <1>3, <2>2, PaidDirectly
  <2> QED BY <2>1, <2>2
<1>11. PICK s \in Balances : s = before.balance
  BY <1>1 DEF States
<1>12. balance \in Balances /\ in \in Int /\ out \in Int
  BY <1>1, <1>9 DEF TypesInv
<1>13. paid \in Balances
  BY <1>3, <1>6, <1>7, <1>12, TransferredIs
<1>14. IsMoved(b, paid, pool, to, sold, out)
  BY <1>3, <1>6, <1>7, <1>12, <1>13, TransferredIs
<1>15. /\ TokenIn(o) \in Tokens
       /\ (from # Sender => s[Sender][TokenIn(o)] >= o.amount) => paid[pool][token] = s[pool][token]
       /\ paid[pool][sold] = s[pool][sold] /\ paid[provider][token] = s[provider][token] + in
       /\ paid[to][sold] = s[to][sold]
  BY <1>2, <1>10, <1>11 DEF IsPaid
<1>16. PICK x \in Int, given \in Tokens :
         /\ given = TokenIn(o) /\ x <= MostOf(o, in)
         /\ \A t \in Tokens : paid[Sender][t] = s[Sender][t] - (IF t = given THEN x ELSE 0)
  BY <1>10, <1>11 DEF IsPaid
<1>17. ASSUME NEW t \in Tokens \ {given, sold} PROVE b[Sender][t] = s[Sender][t]
  BY <1>7, <1>11, <1>14, <1>13, <1>16 DEF IsMoved, Balances, Amounts
<1>18. b[Sender][given] = s[Sender][given] - x
  BY <1>6, <1>7, <1>11, <1>13, <1>14, <1>16 DEF IsMoved, Balances, Amounts
<1>19. b[pool][token] = paid[pool][token] /\ b[pool][sold] = s[pool][sold] - out
  BY <1>6, <1>7, <1>11, <1>12, <1>13, <1>14, <1>15 DEF IsMoved, Balances, Amounts
<1>20. b[provider][token] = s[provider][token] + in
  BY <1>6, <1>7, <1>11, <1>12, <1>13, <1>14, <1>15 DEF IsMoved, Balances, Amounts
<1>21. b[to][sold] = s[to][sold] + out
  BY <1>6, <1>7, <1>11, <1>12, <1>13, <1>14, <1>15 DEF IsMoved, Balances, Amounts
<1>22. b[Sender][given] - s[Sender][given] >= -MostOf(o, in)
  <2>1. PICK most \in Nat : most = MostOf(o, in)
    <3>1. o.amount \in Nat /\ o.bound \in Nat
      BY <1>5 DEF IsOrder
    <3> QED BY <1>9, <3>1 DEF MostOf
  <2>2. s[Sender][given] \in Int
    BY <1>7, <1>11 DEF Balances, Amounts
  <2> QED BY <1>16, <1>18, <2>1, <2>2
<1>23. \A t \in Tokens \ {given, sold} : b[Sender][t] - s[Sender][t] = 0
  <2> SUFFICES ASSUME NEW t \in Tokens \ {given, sold} PROVE b[Sender][t] - s[Sender][t] = 0
    OBVIOUS
  <2>1. s[Sender][t] \in Int /\ b[Sender][t] = s[Sender][t]
    BY <1>7, <1>11, <1>17 DEF Balances, Amounts
  <2> QED BY <2>1
<1>24. (from # Sender => s[Sender][given] >= o.amount) => b[pool][token] - s[pool][token] = 0
  <2>1. s[pool][token] \in Int
    BY <1>6, <1>7, <1>11 DEF Balances, Amounts
  <2> QED BY <1>15, <1>16, <1>19, <2>1
<1>25. AtPrice(price, den * (b[provider][token] - s[provider][token]) + num * (b[pool][sold] - s[pool][sold]),
               Inexact(o, in, num, den))
  <2>1. s[provider][token] \in Int /\ s[pool][sold] \in Int
    BY <1>6, <1>7, <1>11 DEF Balances, Amounts
  <2>2. b[provider][token] - s[provider][token] = in /\ b[pool][sold] - s[pool][sold] = -out
    BY <1>9, <1>19, <1>20, <2>1
  <2>3. num * (-out) = -(num * out) /\ num * out \in Int /\ den * in \in Int
    BY <1>9
  <2>4. den * in + num * (-out) = gap
    BY <1>8, <2>3
  <2> QED BY <1>9, <2>2, <2>4, Zenon
<1>26. in <= MaxAmount => b[to][sold] - s[to][sold] >= LeastOf(o)
  <2>1. s[to][sold] \in Int
    BY <1>6, <1>7, <1>11 DEF Balances, Amounts
  <2>2. b[to][sold] - s[to][sold] = out
    BY <1>9, <1>21, <2>1
  <2> QED BY <1>9, <2>2
<1>27. Settled(o, in, b, s)
  <2>1. pool[1] = token /\ pool[2] = sold /\ ICOs[pool].providerAddress = provider
    BY <1>2, <1>6 DEF PaidBy
  <2> QED BY <1>2, <1>8, <1>16, <1>22, <1>23, <1>24, <1>25, <1>26, <2>1, Zenon
       DEF Settled, MostOf, LeastOf, AtPrice, Inexact
<1> QED BY <1>4, <1>11, <1>27, SettledThen

\* Nothing else touches what a purchase has come to, but that it forgets it.
LEMMA BoughtKept ==
    ASSUME RouteIInv, [Next]_vars
    PROVE  IcoSwapInternal \/ IcoRevert \/ bought' = None \/ UNCHANGED <<bought, balance, before>>
<1>1. /\ bought # None => call = None
      /\ tx # None /\ tx.stage \in {"converting", "fee", "base", "command", "after"} => bought = None
  BY DEF RouteIInv, EndsInv, TxInv
<1>2. CASE UNCHANGED vars
  BY <1>2 DEF vars, icoVars, routerVars
<1>3. ASSUME NEW command \in Commands, NEW fee \in TxFees, Transaction(command, fee)
      PROVE  bought' = None \/ UNCHANGED <<bought, balance, before>>
  <2>1. PICK plan : Reject(plan) \/ Convert(plan) \/ NoConversion(plan)
    BY <1>3 DEF Transaction
  <2> QED BY <2>1 DEF Reject, Convert, NoConversion, icoVars, routerVars
<1>4. ASSUME Execution
      PROVE  IcoSwapInternal \/ IcoRevert \/ bought' = None \/ UNCHANGED <<bought, balance, before>>
  <2>1. CASE RouteStep /\ UNCHANGED <<icoVars, tx, events>>
    <3>1. call # None
      BY <2>1 DEF RouteStep, SwapIn, SwapOut, PayOut, ReturnOut, Finish, Revert
    <3> QED BY <1>1, <2>1, <3>1 DEF icoVars
  <2>2. CASE Converted \/ ExecuteBaseFee \/ EndCommand \/ NoSwap \/ EndHook
    BY <2>2 DEF Converted, ExecuteBaseFee, EndCommand, NoSwap, EndHook, icoVars, routerVars
  <2>3. CASE TakeFee \/ TransferCommand
    BY <1>1, <2>3 DEF TakeFee, TransferCommand, icoVars
  <2>4. CASE ExactInputCommand \/ ExactInputSingleCommand \/ ExactOutputCommand \/ ExactOutputSingleCommand
    BY <2>4 DEF ExactInputCommand, ExactInputSingleCommand, ExactOutputCommand, ExactOutputSingleCommand,
                SwapsInput, SwapsOutput
  <2>5. CASE IcoExactInputCommand \/ IcoExactInputSingleCommand \/ IcoExactOutputCommand
             \/ IcoExactOutputSingleCommand
    BY <2>5 DEF IcoExactInputCommand, IcoExactInputSingleCommand, IcoExactOutputCommand,
                IcoExactOutputSingleCommand, Purchase
  <2>6. CASE SwapAtIco \/ SwapAtPool \/ Invalid
    BY <2>6 DEF SwapAtIco, SwapAtPool, Invalid, Purchase
  <2>7. CASE IcoSwapInternal \/ IcoRevert
    BY <2>7
  <2> QED BY <1>4, <2>1, <2>2, <2>3, <2>4, <2>5, <2>6, <2>7 DEF Execution
<1>5. CASE Meanwhile
  BY <1>5 DEF Meanwhile
<1> QED BY <1>2, <1>3, <1>4, <1>5 DEF Next

\* Every swap of every path settles, also the one that pays a fee and the one by which a
\* transfer to a pool is exchanged: whatever the prices, fees and paths, the sender gives
\* no more than it allows and the recipient of a swap of its own gets what it asks for, the
\* router keeps nothing, no other pool is touched, and no token is made or lost.
THEOREM SwapsSettle == Spec => [](Completed => SwapSettles /\ AllIsThere)
<1>1. RouteIInv => (Completed => SwapSettles /\ AllIsThere)
  <2> SUFFICES ASSUME RouteIInv, Completed PROVE SwapSettles /\ AllIsThere
    OBVIOUS
  <2>1. TypesInv /\ KeptInv /\ Started /\ RouteDone(result.route, pools, balance, before)
    BY DEF RouteIInv, Started, Completed, ResultInv
  <2>2. before \in States /\ AllIsThere
    BY <2>1, KeptIsThere
  <2> QED BY <2>1, <2>2, DoneSettles
<1> QED BY <1>1, RoutesInductive, PTL

\* So do the two legs of a purchase together, where no ICO pays itself or the sender, and
\* no purchase is for an ICO or of a token on its own path; and one that fails in either
\* leg leaves no trace of the other.
THEOREM RoutesSettle == OrdersSuit => (Spec => []RouteSettles)
<1> SUFFICES ASSUME OrdersSuit PROVE Spec => []RouteSettles
  OBVIOUS
<1>1. Init => (Purchased => PurchaseSettles)
  BY DEF Init, Purchased
<1>2. RouteIInv /\ (Purchased => PurchaseSettles) /\ [Next]_vars => (Purchased => PurchaseSettles)'
  <2> SUFFICES ASSUME RouteIInv, Purchased => PurchaseSettles, [Next]_vars, Purchased'
               PROVE  PurchaseSettles'
    OBVIOUS
  <2>1. CASE IcoSwapInternal
    BY <2>1, IcoSettles
  <2>2. CASE IcoRevert
    BY <2>2 DEF IcoRevert, Purchased
  <2>3. CASE bought' = None
    BY <2>3 DEF Purchased
  <2>4. CASE UNCHANGED <<bought, balance, before>>
    BY <2>4 DEF Purchased, PurchaseSettles, Order, Gain, BuysWithWhatWasSent
  <2> QED BY <2>1, <2>2, <2>3, <2>4, BoughtKept
<1>3. RouteIInv /\ (Completed => SwapSettles /\ AllIsThere) /\ (Purchased => PurchaseSettles) => RouteSettles
  <2> SUFFICES ASSUME RouteIInv, Completed => SwapSettles /\ AllIsThere, Purchased => PurchaseSettles
               PROVE  RouteSettles
    OBVIOUS
  <2>1. TypesInv /\ KeptInv /\ BoughtInv
    BY DEF RouteIInv
  <2>2. ASSUME Purchased PROVE AllIsThere
    <3>1. Started
      BY <2>2 DEF Purchased, Started
    <3> QED BY <2>1, <3>1, KeptIsThere
  <2> QED BY <2>1, <2>2 DEF RouteSettles, BoughtInv
<1> QED BY <1>1, <1>2, <1>3, RoutesInductive, SwapsSettle, PTL DEF Spec

-----------------------------------------------------------------------------
(* What pools have to spare along a route *)

\* What a pool has beyond what it owes
Spare(k, i, b, pool) == b[k][k[i + 1]] - OwedBy(k, pool, i)
PoolBacked(k, p, b, o) == \A i \in {0, 1} : Spare(k, i, b, p[k]) >= Spare(k, i, o.balance, o.pools[k])

StackKeys(r) == {r.stack[i].key : i \in DOMAIN r.stack}

\* A pool that waits for its payment has, with what it demands, no less to spare than before.
Awaits(f, o) ==
    \E i \in {0, 1} :
        /\ i = Side(f.key, f.token) /\ f.token = f.key[i + 1]
        /\ f.balanceBefore + f.swap.amountIn - OwedBy(f.key, f.swap.pool, i)
               >= Spare(f.key, i, o.balance, o.pools[f.key])
HasGiven(f, b, o) ==
    \A i \in {0, 1} : i # Side(f.key, f.token) =>
        Spare(f.key, i, b, f.swap.pool) >= Spare(f.key, i, o.balance, o.pools[f.key])

\* A pool pays for the only swap of its route, and has what it pays with to spare.
PaysItself(r) == r.payer \in PoolKeys => r.payer = FirstPoolKey(r.path) /\ r.rest = r.path /\ ~HasMultiplePools(r.path)
HasBeenSent(r, p, b, o) ==
    r.payer \in PoolKeys /\ r.phase = "input" =>
        \A i \in {0, 1} : i = Side(r.payer, r.path[1]) =>
            Spare(r.payer, i, b, p[r.payer]) >= Spare(r.payer, i, o.balance, o.pools[r.payer]) + r.amount

RouteBacked(r, p, b, o) ==
    /\ \A k \in PoolKeys \ StackKeys(r) : PoolBacked(k, p, b, o)
    /\ \A i \in DOMAIN r.stack : Awaits(r.stack[i], o) /\ HasGiven(r.stack[i], b, o)
    /\ r.phase = "output" => ~Repeats(r.rest) /\ PoolsOf(r.rest) \cap StackKeys(r) = {}
    /\ r.phase \in {"input", "finish"} => r.stack = << >>
    /\ HasBeenSent(r, p, b, o)

\* The routes of which that is claimed
Covered(r, o) ==
    /\ r.exactInput \/ ~Repeats(r.path)
    /\ r.payer \in PoolKeys => o.balance[Sender][TokenIn(r)] >= r.specified

CoveredInv == call # None => PaysItself(call) /\ (Covered(call, before) => RouteBacked(call, pools, balance, before))
AllBacked(p, b, o) == \A k \in PoolKeys : PoolBacked(k, p, b, o)
EndedInv ==
    result # None /\ result.ok /\ Covered(result.route, before) => AllBacked(pools, balance, before)
BackInv == CoveredInv /\ EndedInv

\* The sides of the pool of a hop
IsSide(key, in, out, side) ==
    /\ side \in {0, 1} /\ Side(key, in) = side /\ in \in Tokens /\ out \in Tokens /\ in # out
    /\ key[side + 1] = in /\ key[(1 - side) + 1] = out

\* The tokens of a hop are the two sides of its pool.
LEMMA KeySides ==
    ASSUME NEW path, NEW key \in PoolKeys, key = FirstPoolKey(path), path[1] \in Nat, path[3] \in Nat,
           NEW in \in Nat, NEW out \in Nat, {in, out} = {path[1], path[3]},
           NEW side, side = IF in < out THEN 0 ELSE 1
    PROVE  IsSide(key, in, out, side)
<1>1. PICK a, b, f : a \in Nat /\ b \in Nat /\ a = path[1] /\ b = path[3] /\ f = path[2] /\ key = <<Min({a, b}), Max({a, b}), f>>
  BY Zenon DEF FirstPoolKey, PoolKey
<1>2. key[1] \in Tokens /\ key[2] \in Tokens /\ key[1] < key[2] /\ Tokens \subseteq Nat
  BY KeyParts, SwapRouterAssumption
<1>3. Min({a, b}) = (IF a <= b THEN a ELSE b) /\ Max({a, b}) = (IF a >= b THEN a ELSE b)
  BY <1>1, LeastOfTwo, GreatestOfTwo
<1>4. PICK i \in Nat, j \in Nat : i = key[1] /\ j = key[2] /\ i < j /\ i \in Tokens /\ j \in Tokens
  BY <1>2
<1>5. (a = i /\ b = j) \/ (a = j /\ b = i)
  BY <1>1, <1>3, <1>4
<1>6. (in = i /\ out = j) \/ (in = j /\ out = i)
  BY <1>1, <1>4, <1>5
<1>7. CASE in = i /\ out = j
  <2>1. side = 0 /\ (1 - side) + 1 = 2 /\ side + 1 = 1
    BY <1>4, <1>7
  <2>2. Side(key, in) = 0
    BY <1>4, <1>7 DEF Side
  <2> QED BY <1>4, <1>7, <2>1, <2>2 DEF IsSide
<1>8. CASE in = j /\ out = i
  <2>1. side = 1 /\ (1 - side) + 1 = 1 /\ side + 1 = 2
    BY <1>4, <1>8
  <2>2. Side(key, in) = 1
    BY <1>4, <1>8 DEF Side
  <2> QED BY <1>4, <1>8, <2>1, <2>2 DEF IsSide
<1> QED BY <1>6, <1>7, <1>8

\* What there is to spare is a difference of numbers.
LEMMA SpareIs ==
    ASSUME NEW b \in Balances, NEW k \in PoolKeys, NEW i \in {0, 1}, NEW pool \in PoolStates
    PROVE  /\ k[i + 1] \in Tokens /\ b[k][k[i + 1]] \in Int /\ OwedBy(k, pool, i) \in Nat
           /\ Spare(k, i, b, pool) \in Int /\ Spare(k, i, b, pool) = b[k][k[i + 1]] - OwedBy(k, pool, i)
<1>1. k[1] \in Tokens /\ k[2] \in Tokens
  BY KeyParts
<1>2. k[i + 1] \in Tokens
  BY <1>1
<1>3. b[k][k[i + 1]] \in Int
  BY <1>2, WhoIsWho DEF Balances, Amounts
<1>4. OwedBy(k, pool, i) \in Nat
  BY OwedNat
<1> QED BY <1>2, <1>3, <1>4 DEF Spare

\* A pool that only receives
NoLess(b, b2, k) == \A t \in Tokens : b2[k][t] >= b[k][t]

\* It has no less to spare then.
LEMMA SpareGrows ==
    ASSUME NEW b \in Balances, NEW b2 \in Balances, NEW k \in PoolKeys, NoLess(b, b2, k),
           NEW i \in {0, 1}, NEW pool \in PoolStates
    PROVE  Spare(k, i, b2, pool) >= Spare(k, i, b, pool)
<1>1. PICK t \in Tokens : t = k[i + 1]
  BY SpareIs
<1>2. b2[k][t] >= b[k][t] /\ b2[k][t] \in Int /\ b[k][t] \in Int
  BY <1>1, SpareIs DEF NoLess
<1>3. PICK owed \in Nat : owed = OwedBy(k, pool, i)
  BY SpareIs
<1>4. Spare(k, i, b2, pool) = b2[k][t] - owed /\ Spare(k, i, b, pool) = b[k][t] - owed
  BY <1>1, <1>3, SpareIs
<1> QED BY <1>2, <1>4

\* A pool that the step does not swap at and that only receives stays backed.
LEMMA PoolStaysBacked ==
    ASSUME NEW b \in Balances, NEW b2 \in Balances, NEW k \in PoolKeys, NoLess(b, b2, k),
           NEW p \in [PoolKeys -> PoolStates], NEW p2, p2[k] = p[k], NEW o \in States, PoolBacked(k, p, b, o)
    PROVE  PoolBacked(k, p2, b2, o)
<1> SUFFICES ASSUME NEW i \in {0, 1}
             PROVE  Spare(k, i, b2, p2[k]) >= Spare(k, i, o.balance, o.pools[k])
  BY DEF PoolBacked
<1>1. PICK pool \in PoolStates : pool = p[k] /\ pool = p2[k]
  OBVIOUS
<1>2. PICK ob \in Balances, opool \in PoolStates : ob = o.balance /\ opool = o.pools[k]
  BY DEF States
<1>3. PICK x \in Int, y \in Int, z \in Int : x = Spare(k, i, b2, pool) /\ y = Spare(k, i, b, pool) /\ z = Spare(k, i, ob, opool)
  BY SpareIs
<1>4. x >= y
  BY <1>3, SpareGrows
<1>5. y >= z
  BY <1>1, <1>2, <1>3 DEF PoolBacked
<1>6. x >= z
  BY <1>4, <1>5
<1> QED BY <1>1, <1>2, <1>3, <1>6

\* So does a pool that waits, on the side on which it gives.
LEMMA StillGiven ==
    ASSUME NEW b \in Balances, NEW b2 \in Balances, NEW f \in Frames, NoLess(b, b2, f.key),
           NEW o \in States, HasGiven(f, b, o)
    PROVE  HasGiven(f, b2, o)
<1>1. PICK k \in PoolKeys, pool \in PoolStates : k = f.key /\ pool = f.swap.pool
  BY DEF Frames, Swaps
<1> SUFFICES ASSUME NEW i \in {0, 1}, i # Side(f.key, f.token)
             PROVE  Spare(f.key, i, b2, f.swap.pool) >= Spare(f.key, i, o.balance, o.pools[f.key])
  BY DEF HasGiven
<1>2. PICK ob \in Balances, opool \in PoolStates : ob = o.balance /\ opool = o.pools[k]
  BY DEF States
<1>3. PICK x \in Int, y \in Int, z \in Int : x = Spare(k, i, b2, pool) /\ y = Spare(k, i, b, pool) /\ z = Spare(k, i, ob, opool)
  BY SpareIs
<1>4. x >= y
  BY <1>1, <1>3, SpareGrows
<1>5. y >= z
  BY <1>1, <1>2, <1>3 DEF HasGiven
<1>6. x >= z
  BY <1>4, <1>5
<1> QED BY <1>1, <1>2, <1>3, <1>6

\* What a pool itself pays out
LEMMA PaidOutOfPool ==
    ASSUME balance \in Balances, locked \in Balances, NEW key \in PoolKeys,
           NEW in \in Tokens, NEW out \in Tokens, in # out, NEW swap \in Swaps, NEW to \in Accounts,
           NEW b, b = PaidOut(key, in, out, swap, to)
    PROVE  /\ \A k \in PoolKeys \ {key} : NoLess(balance, b, k)
           /\ b[key][in] = balance[key][in] - swap.protocolFee
           /\ b[key][out] >= balance[key][out] - swap.amountOut
<1>1. PICK fee \in Nat, amount \in Nat : fee = swap.protocolFee /\ amount = swap.amountOut
  BY DEF Swaps
<1>2. PICK m, l : m = ToProtocol(balance, key, in, fee) /\ l = LockedBy(key, in, fee)
  OBVIOUS
<1>3. /\ m \in Balances
      /\ \A a \in Accounts \ {key, Treasury} : m[a] = balance[a]
      /\ \A a \in Accounts, t \in Tokens \ {in} : m[a][t] = balance[a][t]
  <2>1. fee \in Int
    OBVIOUS
  <2> QED BY <1>2, <2>1, ToProtocolIs
<1>4. /\ key \in Accounts /\ Treasury \in Accounts /\ key # Treasury
      /\ \A k \in PoolKeys : k \in Accounts /\ k # Treasury
  BY WhoIsWho
<1>5. balance[key][in] \in Int /\ m[key][in] \in Int /\ balance[key][out] \in Int /\ m[key][out] \in Int
  BY <1>3, <1>4 DEF Balances, Amounts
<1>6. m[key][in] = balance[key][in] - fee
  <2>1. CASE PaysTreasury
    <3>1. m = Transferred(balance, key, Treasury, in, fee)
      BY <1>2, <2>1 DEF ToProtocol
    <3>2. fee \in Int
      OBVIOUS
    <3>3. IsMoved(m, balance, key, Treasury, in, fee)
      BY <1>4, <3>1, <3>2, TransferredIs
    <3>4. m[key][in] = balance[key][in] - (IF key = key /\ in = in THEN fee ELSE 0)
                                        + (IF key = Treasury /\ in = in THEN fee ELSE 0)
      BY <1>4, <3>3 DEF IsMoved
    <3> QED BY <1>4, <1>5, <3>4
  <2>2. CASE ~PaysTreasury
    <3>1. m = [balance EXCEPT ![key] = [balance[key] EXCEPT ![in] = balance[key][in] - fee]]
      BY <1>2, <2>2 DEF ToProtocol
    <3>2. balance[key] \in Amounts
      BY <1>4 DEF Balances
    <3> QED BY <1>4, <3>1, <3>2 DEF Balances, Amounts
  <2> QED BY <2>1, <2>2
<1>7. b = Transferred(m, key, to, out, amount)
  BY <1>1, <1>2 DEF PaidOut
<1>8. b \in Balances /\ IsMoved(b, m, key, to, out, amount)
  <2>1. amount \in Int
    OBVIOUS
  <2> QED BY <1>3, <1>4, <1>7, <2>1, TransferredIs
<1>9. ASSUME NEW k \in PoolKeys \ {key} PROVE NoLess(balance, b, k)
  <2> SUFFICES ASSUME NEW t \in Tokens PROVE b[k][t] >= balance[k][t]
    BY DEF NoLess
  <2>1. m[k] = balance[k] /\ k \in Accounts
    BY <1>3, <1>4
  <2>2. balance[k][t] \in Int
    BY <2>1 DEF Balances, Amounts
  <2>3. b[k][t] = balance[k][t] + (IF k = to /\ t = out THEN amount ELSE 0)
    <3>1. b[k][t] = m[k][t] - (IF k = key /\ t = out THEN amount ELSE 0) + (IF k = to /\ t = out THEN amount ELSE 0)
      BY <1>8, <2>1 DEF IsMoved
    <3> QED BY <2>1, <2>2, <3>1
  <2> QED BY <2>2, <2>3
<1>10. b[key][in] = balance[key][in] - fee
  <2>1. b[key][in] = m[key][in] - (IF key = key /\ in = out THEN amount ELSE 0) + (IF key = to /\ in = out THEN amount ELSE 0)
    BY <1>4, <1>8 DEF IsMoved
  <2> QED BY <1>5, <1>6, <2>1
<1>11. b[key][out] >= balance[key][out] - amount
  <2>1. b[key][out] = m[key][out] - (IF key = key /\ out = out THEN amount ELSE 0)
                                   + (IF key = to /\ out = out THEN amount ELSE 0)
    BY <1>4, <1>8 DEF IsMoved
  <2>2. m[key][out] = balance[key][out]
    BY <1>3, <1>4
  <2> QED BY <1>5, <2>1, <2>2
<1> QED BY <1>1, <1>9, <1>10, <1>11

\* What the pool of the next hop owes after the swap
LEMMA HopOwed ==
    ASSUME pools \in [PoolKeys -> PoolStates], call \in RouteRecords, Along(call),
           NEW swap, swap = HopResult, swap # Error,
           NEW key, key = HopKey, NEW in, in = TokenTaken, NEW out, out = TokenGiven
    PROVE  /\ key \in PoolKeys /\ swap \in Swaps
           /\ call.exactInput => swap.amountIn <= call.amount
           /\ \E side \in {0, 1} :
                 /\ IsSide(key, in, out, side)
                 /\ Owes(key, pools[key], swap.pool, swap.amountIn, swap.amountOut, swap.protocolFee, side)
<1>1. PICK rest \in Seq(Nat), amount \in Nat, limit \in Nat \cup {None} :
        rest = call.rest /\ amount = call.amount /\ limit = call.limit
  BY DEF RouteRecords
<1>2. rest[1] \in Nat /\ rest[3] \in Nat
  BY <1>1, PathParts DEF Along
<1>3. in \in Nat /\ out \in Nat /\ {in, out} = {rest[1], rest[3]}
  <2>1. CASE call.exactInput
    BY <1>1, <1>2, <2>1 DEF TokenTaken, TokenGiven
  <2>2. CASE ~call.exactInput
    BY <1>1, <1>2, <2>2 DEF TokenTaken, TokenGiven
  <2> QED BY <2>1, <2>2
<1>4. PICK specified \in Int : specified = IF call.exactInput THEN amount ELSE -amount
  OBVIOUS
<1>5. swap = HopSwap(pools, key, in, out, specified, limit)
  BY <1>1, <1>4 DEF HopResult
<1>6. PICK side \in {0, 1} : side = IF in < out THEN 0 ELSE 1
  OBVIOUS
<1>7. in \in Int /\ out \in Int
  BY <1>3
<1>8. /\ key \in PoolKeys /\ specified # 0
      /\ \E i \in Nat \ {0}, o \in Nat, fee \in Nat, new \in PoolStates :
            IsHop(swap, specified, key, pools[key], side, i, o, fee, new)
  BY <1>5, <1>6, <1>7, HopOwes
<1>9. PICK i \in Nat \ {0}, o \in Nat, fee \in Nat, new \in PoolStates :
        IsHop(swap, specified, key, pools[key], side, i, o, fee, new)
  BY <1>8
<1>10. /\ swap = [amountIn |-> i, amountOut |-> o, protocolFee |-> fee, pool |-> new]
       /\ specified > 0 => i <= specified
       /\ Owes(key, pools[key], new, i, o, fee, side)
  BY <1>9, Zenon DEF IsHop
<1>11. /\ swap \in Swaps /\ swap.amountIn = i /\ swap.amountOut = o /\ swap.protocolFee = fee /\ swap.pool = new
  BY <1>10 DEF Swaps
<1>12. call.exactInput => swap.amountIn <= call.amount
  <2> SUFFICES ASSUME call.exactInput PROVE i <= amount
    BY <1>1, <1>11
  <2>1. specified = amount
    BY <1>4
  <2> QED BY <1>8, <1>10, <2>1
<1>13. IsSide(key, in, out, side)
  <2>1. key = FirstPoolKey(rest)
    BY <1>1 DEF HopKey
  <2> QED BY <1>2, <1>3, <1>6, <1>8, <2>1, KeySides
<1>14. Owes(key, pools[key], swap.pool, swap.amountIn, swap.amountOut, swap.protocolFee, side)
  BY <1>10, <1>11, Zenon
<1> QED BY <1>8, <1>11, <1>12, <1>13, <1>14

\* What is to spare after a balance has changed by d, and what is owed by no more than e more
LEMMA SpareMoves ==
    ASSUME NEW b \in Balances, NEW b2 \in Balances, NEW k \in PoolKeys, NEW i \in {0, 1},
           NEW pool \in PoolStates, NEW new \in PoolStates, NEW d \in Int, NEW e \in Int,
           b2[k][k[i + 1]] >= b[k][k[i + 1]] + d,
           OwedBy(k, new, i) <= OwedBy(k, pool, i) + d + e
    PROVE  Spare(k, i, b2, new) >= Spare(k, i, b, pool) - e
<1>1. PICK x \in Int, y \in Int : x = b2[k][k[i + 1]] /\ y = b[k][k[i + 1]]
  BY SpareIs
<1>2. PICK u \in Nat, v \in Nat : u = OwedBy(k, new, i) /\ v = OwedBy(k, pool, i)
  BY SpareIs
<1>3. x >= y + d /\ u <= v + d + e
  BY <1>1, <1>2
<1>4. Spare(k, i, b2, new) = x - u /\ Spare(k, i, b, pool) = y - v
  BY <1>1, <1>2, SpareIs
<1>5. x - u >= y - v - e
  BY <1>3
<1> QED BY <1>4, <1>5

\* What a hop of an exact input changes of the route
LEMMA AfterInputIs ==
    ASSUME NEW r \in RouteRecords, NEW amount \in Nat, NEW r2, r2 = AfterInput(r, amount)
    PROVE  /\ r2.path = r.path /\ r2.exactInput = r.exactInput /\ r2.specified = r.specified /\ r2.stack = r.stack
           /\ IF HasMultiplePools(r.rest) THEN r2.phase = r.phase /\ r2.payer = Router
                                          ELSE r2.phase = "finish" /\ r2.payer = r.payer /\ r2.rest = r.rest
<1>1. CASE HasMultiplePools(r.rest)
  <2>1. PICK rest : rest = SkipToken(r.rest)
    OBVIOUS
  <2>2. r2 = [r EXCEPT !.rest = rest, !.payer = Router, !.amount = amount]
    BY <1>1, <2>1 DEF AfterInput
  <2> QED BY <1>1, <2>2 DEF RouteRecords
<1>2. CASE ~HasMultiplePools(r.rest)
  <2>1. r2 = [r EXCEPT !.phase = "finish", !.amount = amount]
    BY <1>2 DEF AfterInput
  <2> QED BY <1>2, <2>1 DEF RouteRecords
<1> QED BY <1>1, <1>2

\* A route that is covered after a hop has been so before.
LEMMA CoveredAfterInput ==
    ASSUME NEW r \in RouteRecords, r.exactInput, PaysItself(r), NEW amount \in Nat, NEW r2,
           r2 = AfterInput(r, amount), NEW o
    PROVE  PaysItself(r2) /\ (Covered(r2, o) => Covered(r, o))
<1>1. /\ r2.path = r.path /\ r2.exactInput = r.exactInput /\ r2.specified = r.specified
      /\ IF HasMultiplePools(r.rest) THEN r2.payer = Router
                                     ELSE r2.payer = r.payer /\ r2.rest = r.rest
  BY ONLY AfterInputIs, r \in RouteRecords, amount \in Nat, r2 = AfterInput(r, amount)
<1>2. TokenIn(r2) = TokenIn(r)
  BY <1>1 DEF TokenIn
<1>3. Router \notin PoolKeys
  BY WhoIsWho
<1>4. CASE HasMultiplePools(r.rest)
  <2>1. r.payer \notin PoolKeys /\ r2.payer \notin PoolKeys
    BY <1>1, <1>3, <1>4 DEF PaysItself
  <2> QED BY <1>1, <2>1 DEF PaysItself, Covered
<1>5. CASE ~HasMultiplePools(r.rest)
  BY <1>1, <1>2, <1>5 DEF PaysItself, Covered
<1> QED BY <1>4, <1>5

\* A hop of an exact input leaves its pools backed.
LEMMA SwapInBacked ==
    ASSUME TypesInv, RouteInv, CoveredInv, SwapIn
    PROVE  PaysItself(call') /\ (Covered(call', before) => RouteBacked(call', pools', balance', before))
<1>1. PICK r \in RouteRecords : r = call
  BY DEF TypesInv, SwapIn
<1>2. /\ call # None /\ r.phase = "input" /\ Along(r) /\ InPhase(r) /\ r.exactInput
  <2>1. call # None /\ call.phase = "input"
    BY DEF SwapIn
  <2>2. RouteOK(call, pools, balance, before)
    BY <2>1 DEF RouteInv
  <2>3. Along(r) /\ InPhase(r)
    BY <1>1, <2>2 DEF RouteOK
  <2> QED BY <1>1, <2>1, <2>3 DEF InPhase
<1>3. PICK swap :
        /\ swap = HopResult /\ swap # Error
        /\ balance' = Transferred(PaidOut(HopKey, TokenTaken, TokenGiven, swap, HopRecipient),
                                  call.payer, HopKey, TokenTaken, swap.amountIn)
        /\ pools' = [pools EXCEPT ![HopKey] = swap.pool]
        /\ call' = IF HasMultiplePools(call.rest)
                   THEN [call EXCEPT !.rest = SkipToken(@), !.payer = Router, !.amount = swap.amountOut]
                   ELSE [call EXCEPT !.phase = "finish", !.amount = swap.amountOut]
  BY Zenon DEF SwapIn, InputFits, CanPayOut
<1>4. PICK key, in, out, to, from :
        key = HopKey /\ in = TokenTaken /\ out = TokenGiven /\ to = HopRecipient /\ from = call.payer
  OBVIOUS
<1>5. /\ key \in PoolKeys /\ swap \in Swaps /\ swap.amountIn <= r.amount
      /\ \E side \in {0, 1} :
            /\ IsSide(key, in, out, side)
            /\ Owes(key, pools[key], swap.pool, swap.amountIn, swap.amountOut, swap.protocolFee, side)
  <2>1. pools \in [PoolKeys -> PoolStates] /\ call \in RouteRecords /\ Along(call)
    BY <1>1, <1>2 DEF TypesInv
  <2> QED BY <1>1, <1>2, <1>3, <1>4, <2>1, HopOwed
<1>6. PICK side \in {0, 1} :
        /\ IsSide(key, in, out, side)
        /\ Owes(key, pools[key], swap.pool, swap.amountIn, swap.amountOut, swap.protocolFee, side)
  BY <1>5
<1>7. PICK given \in Nat, got \in Nat, fee \in Nat, new \in PoolStates :
        given = swap.amountIn /\ got = swap.amountOut /\ fee = swap.protocolFee /\ new = swap.pool
  BY <1>5 DEF Swaps
<1>8. /\ in \in Tokens /\ out \in Tokens /\ in # out /\ Side(key, in) = side
      /\ key[side + 1] = in /\ key[(1 - side) + 1] = out
  BY <1>6 DEF IsSide
<1>9. PICK r2 : r2 = call' /\ r2 = AfterInput(r, got)
  BY <1>1, <1>3, <1>7 DEF AfterInput
<1>10. PaysItself(r)
  BY <1>1, <1>2 DEF CoveredInv
<1>11. PaysItself(r2) /\ (Covered(r2, before) => Covered(r, before))
  BY <1>2, <1>9, <1>10, CoveredAfterInput
<1>12. ASSUME Covered(r, before) PROVE RouteBacked(r2, pools', balance', before)
  <2>1. RouteBacked(r, pools, balance, before)
    BY <1>1, <1>2, <1>12 DEF CoveredInv
  <2>2. before \in States /\ balance \in Balances /\ locked \in Balances /\ pools \in [PoolKeys -> PoolStates]
    BY <1>2 DEF TypesInv, Started
  <2>3. /\ r.stack = << >> /\ StackKeys(r) = {} /\ HasBeenSent(r, pools, balance, before)
        /\ \A k \in PoolKeys : PoolBacked(k, pools, balance, before)
    <3>1. r.stack = << >> /\ HasBeenSent(r, pools, balance, before)
      BY <1>2, <2>1 DEF RouteBacked
    <3>2. StackKeys(r) = {}
      BY <3>1 DEF StackKeys
    <3> QED BY <2>1, <3>1, <3>2 DEF RouteBacked
  <2>4. from \in Accounts /\ (from \in PoolKeys => from = key)
    <3>1. from = r.payer /\ r.payer \in Accounts
      BY <1>1, <1>4 DEF RouteRecords
    <3>2. from \in PoolKeys => from = FirstPoolKey(r.rest)
      BY <1>10, <3>1 DEF PaysItself
    <3> QED BY <1>1, <1>4, <3>1, <3>2 DEF HopKey
  <2>5. to \in Accounts
    <3>1. CASE HasMultiplePools(r.rest)
      BY <1>1, <1>4, <3>1, RouterItself, WhoIsWho DEF HopRecipient
    <3>2. CASE ~HasMultiplePools(r.rest)
      BY <1>1, <1>4, <3>2, RecipientIs DEF HopRecipient, RouteRecords
    <3> QED BY <3>1, <3>2
  <2>6. PICK b, l : b = PaidOut(key, in, out, swap, to) /\ l = LockedBy(key, in, swap.protocolFee)
    OBVIOUS
  <2>7. b \in Balances
    BY <1>5, <1>8, <2>2, <2>5, <2>6, PaidOutIs
  <2>8. /\ \A k \in PoolKeys \ {key} : NoLess(balance, b, k)
        /\ b[key][in] = balance[key][in] - fee
        /\ b[key][out] >= balance[key][out] - got
    BY <1>5, <1>7, <1>8, <2>2, <2>5, <2>6, PaidOutOfPool
  <2>9. PICK c : c = balance' /\ c = Transferred(b, from, key, in, given)
    BY <1>3, <1>4, <1>7, <2>6
  <2>10. key \in Accounts /\ \A k \in PoolKeys : k \in Accounts
    BY <1>5, WhoIsWho
  <2>11. c \in Balances /\ IsMoved(c, b, from, key, in, given)
    <3>1. given \in Int
      OBVIOUS
    <3> QED BY <1>8, <2>4, <2>7, <2>9, <2>10, <3>1, TransferredIs
  <2>12. PICK q : q = pools' /\ q = [pools EXCEPT ![key] = new]
    BY <1>3, <1>4, <1>7
  <2>13. q[key] = new /\ \A k \in PoolKeys \ {key} : q[k] = pools[k]
    BY <1>5, <2>2, <2>12
  <2>14. ASSUME NEW k \in PoolKeys \ {key} PROVE PoolBacked(k, q, c, before)
    <3>1. ASSUME NEW t \in Tokens PROVE c[k][t] >= balance[k][t]
      <4>1. k \in Accounts /\ k # from
        BY <2>4, <2>10
      <4>2. b[k][t] \in Int /\ balance[k][t] \in Int
        BY <2>2, <2>7, <4>1 DEF Balances, Amounts
      <4>3. c[k][t] = b[k][t] - (IF k = from /\ t = in THEN given ELSE 0) + (IF k = key /\ t = in THEN given ELSE 0)
        BY <2>11, <4>1 DEF IsMoved
      <4>4. c[k][t] = b[k][t]
        BY <4>1, <4>2, <4>3
      <4> QED BY <2>8, <4>4 DEF NoLess
    <3>2. NoLess(balance, c, k) /\ PoolBacked(k, pools, balance, before) /\ q[k] = pools[k]
      BY <2>3, <2>13, <3>1 DEF NoLess
    <3> QED BY <2>2, <2>11, <3>2, PoolStaysBacked
  <2>15. PoolBacked(key, q, c, before)
    <3>1. PICK pool \in PoolStates : pool = pools[key]
      BY <1>5, <2>2
    <3>2. PICK ob \in Balances, opool \in PoolStates : ob = before.balance /\ opool = before.pools[key]
      BY <1>5, <2>2 DEF States
    <3>3. /\ OwedBy(key, new, side) + fee <= OwedBy(key, pool, side) + given
          /\ OwedBy(key, new, 1 - side) + got <= OwedBy(key, pool, 1 - side)
      BY <1>6, <1>7, <3>1 DEF Owes
    <3>4. balance[key][in] \in Int /\ balance[key][out] \in Int /\ b[key][in] \in Int /\ b[key][out] \in Int
      BY <1>8, <2>2, <2>7, <2>10 DEF Balances, Amounts
    <3>5. Spare(key, side, c, new) >= Spare(key, side, ob, opool)
      <4>1. PICK have \in Int, had \in Int, old \in Int :
              have = Spare(key, side, c, new) /\ had = Spare(key, side, balance, pool) /\ old = Spare(key, side, ob, opool)
        BY <1>5, <2>2, <2>11, SpareIs
      <4>2. PICK u \in Nat, v \in Nat : u = OwedBy(key, new, side) /\ v = OwedBy(key, pool, side)
        BY <1>5, SpareIs
      <4>3. u + fee <= v + given
        BY <3>3, <4>2
      <4>4. CASE from = key
        <5>1. c[key][in] = b[key][in] - given + given
          BY <1>8, <2>10, <2>11, <4>4 DEF IsMoved
        <5>2. PICK d \in Int : d = -fee
          OBVIOUS
        <5>3. c[key][key[side + 1]] >= balance[key][key[side + 1]] + d
          BY <1>8, <2>8, <3>4, <5>1, <5>2
        <5>4. OwedBy(key, new, side) <= OwedBy(key, pool, side) + d + given
          BY <4>2, <4>3, <5>2
        <5>5. given \in Int
          OBVIOUS
        <5>6. have >= had - given
          BY <1>5, <2>2, <2>11, <4>1, <5>3, <5>4, <5>5, SpareMoves
        <5>7. had >= old + r.amount
          <6>1. r.payer = key /\ r.path[1] = in
            <7>1. r.payer \in PoolKeys /\ r.payer = key
              BY <1>1, <1>4, <1>5, <4>4
            <7>2. r.rest = r.path
              BY <1>10, <7>1 DEF PaysItself
            <7> QED BY <1>1, <1>2, <1>4, <7>1, <7>2 DEF TokenTaken
          <6>2. Spare(r.payer, side, balance, pools[r.payer])
                    >= Spare(r.payer, side, before.balance, before.pools[r.payer]) + r.amount
            BY <1>2, <1>5, <1>8, <2>3, <6>1 DEF HasBeenSent
          <6> QED BY <3>1, <3>2, <4>1, <6>1, <6>2
        <5>8. given <= r.amount /\ r.amount \in Nat
          BY <1>5, <1>7 DEF RouteRecords
        <5>9. have >= old
          BY <5>6, <5>7, <5>8
        <5> QED BY <4>1, <5>9
      <4>5. CASE from # key
        <5>1. c[key][in] = b[key][in] + given
          <6>1. c[key][in] = b[key][in] - (IF key = from /\ in = in THEN given ELSE 0)
                                        + (IF key = key /\ in = in THEN given ELSE 0)
            BY <1>8, <2>10, <2>11 DEF IsMoved
          <6> QED BY <3>4, <4>5, <6>1
        <5>2. PICK d \in Int, e \in Int : d = given - fee /\ e = 0
          OBVIOUS
        <5>3. c[key][key[side + 1]] >= balance[key][key[side + 1]] + d
          BY <1>8, <2>8, <3>4, <5>1, <5>2
        <5>4. OwedBy(key, new, side) <= OwedBy(key, pool, side) + d + e
          BY <4>2, <4>3, <5>2
        <5>5. have >= had - e
          BY <1>5, <2>2, <2>11, <4>1, <5>3, <5>4, SpareMoves
        <5>6. had >= old
          BY <1>5, <2>3, <3>1, <3>2, <4>1 DEF PoolBacked
        <5>7. have >= old
          BY <5>2, <5>5, <5>6
        <5> QED BY <4>1, <5>7
      <4> QED BY <4>4, <4>5
    <3>6. Spare(key, 1 - side, c, new) >= Spare(key, 1 - side, ob, opool)
      <4>1. PICK i \in {0, 1} : i = 1 - side
        OBVIOUS
      <4>2. PICK have \in Int, had \in Int, old \in Int :
              have = Spare(key, i, c, new) /\ had = Spare(key, i, balance, pool) /\ old = Spare(key, i, ob, opool)
        BY <1>5, <2>2, <2>11, SpareIs
      <4>3. PICK u \in Nat, v \in Nat : u = OwedBy(key, new, i) /\ v = OwedBy(key, pool, i)
        BY <1>5, SpareIs
      <4>4. u + got <= v
        BY <3>3, <4>1, <4>3
      <4>5. key[i + 1] = out
        BY <1>8, <4>1
      <4>6. c[key][out] = b[key][out]
        <5>1. c[key][out] = b[key][out] - (IF key = from /\ out = in THEN given ELSE 0)
                                        + (IF key = key /\ out = in THEN given ELSE 0)
          BY <1>8, <2>10, <2>11 DEF IsMoved
        <5> QED BY <1>8, <3>4, <5>1
      <4>7. PICK d \in Int, e \in Int : d = -got /\ e = 0
        OBVIOUS
      <4>8. c[key][key[i + 1]] >= balance[key][key[i + 1]] + d
        BY <2>8, <3>4, <4>5, <4>6, <4>7
      <4>9. OwedBy(key, new, i) <= OwedBy(key, pool, i) + d + e
        BY <4>3, <4>4, <4>7
      <4>10. have >= had - e
        BY <1>5, <2>2, <2>11, <4>2, <4>8, <4>9, SpareMoves
      <4>11. had >= old
        BY <1>5, <2>3, <3>1, <3>2, <4>2 DEF PoolBacked
      <4>12. have >= old
        BY <4>7, <4>10, <4>11
      <4> QED BY <4>1, <4>2, <4>12
    <3>7. ASSUME NEW i \in {0, 1} PROVE Spare(key, i, c, q[key]) >= Spare(key, i, before.balance, before.pools[key])
      <4>1. i = side \/ i = 1 - side
        OBVIOUS
      <4> QED BY <2>13, <3>2, <3>5, <3>6, <4>1
    <3> QED BY <3>7 DEF PoolBacked
  <2>16. /\ r2.stack = << >>
         /\ IF HasMultiplePools(r.rest) THEN r2.phase = "input" /\ r2.payer = Router ELSE r2.phase = "finish"
    BY <1>2, <1>9, <2>3, AfterInputIs
  <2>17. HasBeenSent(r2, q, c, before)
    BY <2>16, WhoIsWho DEF HasBeenSent
  <2>18. StackKeys(r2) = {}
    BY <2>16 DEF StackKeys
  <2>19. RouteBacked(r2, q, c, before)
    BY <2>14, <2>15, <2>16, <2>17, <2>18 DEF RouteBacked
  <2> QED BY <2>9, <2>12, <2>19
<1> QED BY <1>9, <1>11, <1>12

-----------------------------------------------------------------------------
(* The swaps of an exact output, which wait for each other *)

\* A path goes through no more pools than it has hops.
LEMMA PoolsCount ==
    ASSUME NEW path, OddPath(path)
    PROVE  IsFiniteSet(PoolsOf(path)) /\ Cardinality(PoolsOf(path)) \in Nat
           /\ Cardinality(PoolsOf(path)) <= NumPools(path)
<1>1. PICK n \in Nat \ {0} : Len(path) = 2 * n + 1 /\ NumPools(path) = n
  BY OddLength
<1>2. PICK S : S = 1 .. n
  OBVIOUS
<1>3. IsFiniteSet(S) /\ Cardinality(S) = n
  <2>1. 1 \in Int /\ n \in Int /\ ~(1 > n) /\ n - 1 + 1 = n
    OBVIOUS
  <2> QED BY <1>2, <2>1, FS_Interval
<1>4. PICK f : f = [i \in S |-> FirstPoolKey(Hop(path, i))]
  OBVIOUS
<1>5. PoolsOf(path) = {FirstPoolKey(Hop(path, i)) : i \in S}
  BY <1>1, <1>2 DEF PoolsOf
<1>6. f \in [S -> PoolsOf(path)] /\ \A k \in PoolsOf(path) : \E i \in S : f[i] = k
  BY <1>4, <1>5, Zenon
<1>7. f \in Surjection(S, PoolsOf(path))
  BY <1>6, Zenon DEF Surjection
<1>8. IsFiniteSet(PoolsOf(path)) /\ Cardinality(PoolsOf(path)) <= Cardinality(S)
  BY <1>3, <1>7, FS_Surjection
<1>9. Cardinality(PoolsOf(path)) \in Nat
  BY <1>8, FS_CardinalityType
<1> QED BY <1>1, <1>3, <1>8, <1>9

\* The rest of a path that goes through each of its pools once
LEMMA SkippedOnce ==
    ASSUME NEW path, OddPath(path), HasMultiplePools(path), ~Repeats(path), NEW rest, rest = SkipToken(path)
    PROVE  ~Repeats(rest) /\ FirstPoolKey(path) \notin PoolsOf(rest)
<1>1. PICK n \in Nat \ {0} : Len(path) = 2 * n + 1 /\ NumPools(path) = n
  BY OddLength
<1>2. n - 1 \in Nat \ {0}
  BY <1>1 DEF HasMultiplePools
<1>3. path \in Seq(Nat)
  BY DEF OddPath
<1>4. OddPath(rest) /\ PoolsOf(rest) \subseteq PoolsOf(path)
  BY Skipped
<1>5. Len(rest) = Len(path) - 2 /\ \A j \in 1 .. Len(path) - 2 : rest[j] = path[j + 2]
  <2>1. \A j \in 3 .. Len(path) : path[j] \in Nat
    BY <1>1, <1>3
  <2>2. /\ Len(rest) = IF 3 <= Len(path) THEN Len(path) - 3 + 1 ELSE 0
        /\ \A j \in 1 .. Len(path) - 3 + 1 : rest[j] = path[3 + j - 1]
    BY <1>1, <2>1, SubSeqProperties DEF SkipToken
  <2>3. \A j \in 1 .. Len(path) - 2 : rest[j] = path[j + 2]
    BY <1>1, <2>2
  <2> QED BY <1>1, <2>2, <2>3
<1>6. NumPools(rest) = n - 1
  <2>1. (2 * (n - 1)) \div 2 = n - 1
    BY <1>2, DivIs
  <2>2. Len(rest) - 1 = 2 * (n - 1)
    BY <1>1, <1>5
  <2> QED BY <2>1, <2>2 DEF NumPools
<1>7. PICK first, all, others : first = FirstPoolKey(path) /\ all = PoolsOf(path) /\ others = PoolsOf(rest)
  OBVIOUS
<1>8. all \subseteq others \cup {first}
  <2> SUFFICES ASSUME NEW i \in 1 .. n PROVE FirstPoolKey(Hop(path, i)) \in others \cup {first}
    BY <1>1, <1>7 DEF PoolsOf
  <2>1. CASE i = 1
    <3>1. 1 \in 1 .. NumPools(path)
      BY <1>1
    <3>2. FirstPoolKey(Hop(path, 1)) = PoolKey(path[2 * 1 - 1], path[2 * 1 + 1], path[2 * 1])
      BY <3>1, HopKeyIs
    <3>3. 2 * 1 - 1 = 1 /\ 2 * 1 + 1 = 3 /\ 2 * 1 = 2
      OBVIOUS
    <3>4. FirstPoolKey(Hop(path, 1)) = FirstPoolKey(path)
      BY <3>2, <3>3 DEF FirstPoolKey
    <3> QED BY <1>7, <2>1, <3>4
  <2>2. CASE i # 1
    <3>1. PICK j \in 1 .. n - 1 : i = j + 1
      BY <2>2
    <3>2. rest[2 * j - 1] = path[2 * i - 1] /\ rest[2 * j] = path[2 * i] /\ rest[2 * j + 1] = path[2 * i + 1]
      <4>1. PICK m \in Nat : m = 2 * j /\ m >= 2 /\ m + 1 <= Len(path) - 2 /\ 2 * i = m + 2
        BY <1>1, <3>1
      <4>2. rest[m - 1] = path[m - 1 + 2] /\ rest[m] = path[m + 2] /\ rest[m + 1] = path[m + 1 + 2]
        BY <1>1, <1>5, <4>1
      <4>3. 2 * i - 1 = m - 1 + 2 /\ 2 * i + 1 = m + 1 + 2
        BY <4>1
      <4> QED BY <4>1, <4>2, <4>3
    <3>3. FirstPoolKey(Hop(rest, j)) = FirstPoolKey(Hop(path, i))
      BY <1>1, <1>4, <1>6, <3>2, HopKeyIs
    <3>4. FirstPoolKey(Hop(rest, j)) \in others
      BY <1>6, <1>7 DEF PoolsOf
    <3> QED BY <3>3, <3>4
  <2> QED BY <2>1, <2>2
<1>9. first \in all /\ others \subseteq all
  BY <1>4, <1>7, PathParts
<1>10. all = others \cup {first}
  BY <1>8, <1>9
<1>11. /\ IsFiniteSet(others) /\ Cardinality(others) \in Nat /\ Cardinality(others) <= n - 1
       /\ Cardinality(all) \in Nat
  BY <1>4, <1>6, <1>7, PoolsCount
<1>12. Cardinality(all) = IF first \in others THEN Cardinality(others) ELSE Cardinality(others) + 1
  BY <1>10, <1>11, FS_AddElement
<1>13. ~(Cardinality(all) < n)
  BY <1>1, <1>7 DEF Repeats
<1>14. first \notin others /\ Cardinality(others) = n - 1
  BY <1>2, <1>11, <1>12, <1>13
<1>15. ~Repeats(rest)
  BY <1>2, <1>6, <1>7, <1>14 DEF Repeats
<1> QED BY <1>7, <1>14, <1>15

\* What is on a stack
FramesOf(stack) == {stack[i] : i \in DOMAIN stack}

\* A swap that begins waits on top of those that wait already.
LEMMA FramesAppended ==
    ASSUME NEW stack \in Seq(Frames), NEW frame \in Frames
    PROVE  Append(stack, frame) \in Seq(Frames) /\ FramesOf(Append(stack, frame)) = FramesOf(stack) \cup {frame}
<1>1. PICK n \in Nat : n = Len(stack) /\ stack \in [1 .. n -> Frames] /\ DOMAIN stack = 1 .. n
  BY LenProperties
<1>2. PICK s : s = Append(stack, frame)
  OBVIOUS
<1>3. /\ s \in Seq(Frames) /\ Len(s) = n + 1
      /\ \A i \in 1 .. n : s[i] = stack[i]
      /\ s[n + 1] = frame
  BY <1>1, <1>2, AppendProperties
<1>4. DOMAIN s = 1 .. n + 1
  BY <1>3, LenProperties
<1>5. \A i \in 1 .. n + 1 : i \in 1 .. n \/ i = n + 1
  BY <1>1
<1>6. n + 1 \in 1 .. n + 1 /\ \A i \in 1 .. n : i \in 1 .. n + 1
  BY <1>1
<1>7. FramesOf(s) = FramesOf(stack) \cup {frame}
  BY <1>1, <1>3, <1>4, <1>5, <1>6, Zenon DEF FramesOf
<1> QED BY <1>2, <1>3, <1>7

\* One that returns leaves the others.
LEMMA FramesLeft ==
    ASSUME NEW stack \in Seq(Frames), stack # << >>
    PROVE  /\ Last(stack) \in Frames /\ Front(stack) \in Seq(Frames)
           /\ FramesOf(stack) = FramesOf(Front(stack)) \cup {Last(stack)}
           /\ Len(stack) = 1 => Front(stack) = << >>
<1>1. PICK n \in Nat \ {0} : n = Len(stack) /\ stack \in [1 .. n -> Frames] /\ DOMAIN stack = 1 .. n
  <2>1. Len(stack) \in Nat \ {0}
    BY EmptySeq
  <2> QED BY <2>1, LenProperties
<1>2. PICK s : s = SubSeq(stack, 1, n - 1)
  OBVIOUS
<1>3. \A i \in 1 .. n - 1 : stack[i] \in Frames
  BY <1>1
<1>4. s \in Seq(Frames) /\ Len(s) = n - 1 /\ \A i \in 1 .. n - 1 : s[i] = stack[i]
  <2>1. /\ s \in Seq(Frames) /\ Len(s) = IF 1 <= n - 1 THEN n - 1 - 1 + 1 ELSE 0
        /\ \A i \in 1 .. n - 1 - 1 + 1 : s[i] = stack[1 + i - 1]
    <3>1. 1 \in Int /\ n - 1 \in Int
      OBVIOUS
    <3> QED BY <1>2, <1>3, <3>1, SubSeqProperties
  <2>2. ASSUME NEW i \in 1 .. n - 1 PROVE s[i] = stack[i]
    <3>1. i \in 1 .. n - 1 - 1 + 1 /\ 1 + i - 1 = i
      OBVIOUS
    <3> QED BY <2>1, <3>1
  <2> QED BY <2>1, <2>2
<1>5. Front(stack) = s /\ Last(stack) = stack[n] /\ DOMAIN s = 1 .. n - 1
  <2>1. DOMAIN s = 1 .. n - 1
    BY <1>4, LenProperties
  <2> QED BY <1>1, <1>2, <2>1 DEF Front, Last
<1>6. /\ \A i \in 1 .. n : i \in 1 .. n - 1 \/ i = n
      /\ n \in 1 .. n
      /\ \A i \in 1 .. n - 1 : i \in 1 .. n
  <2>1. n \in Nat /\ 1 <= n
    OBVIOUS
  <2>2. \A i \in 1 .. n : i \in 1 .. n - 1 \/ i = n
    BY <2>1
  <2>3. \A i \in 1 .. n - 1 : i \in 1 .. n
    BY <2>1
  <2> QED BY <2>1, <2>2, <2>3
<1>7. FramesOf(stack) = FramesOf(s) \cup {stack[n]}
  <2>1. FramesOf(stack) = {stack[i] : i \in 1 .. n} /\ FramesOf(s) = {s[i] : i \in 1 .. n - 1}
    BY <1>1, <1>5 DEF FramesOf
  <2>2. {s[i] : i \in 1 .. n - 1} = {stack[i] : i \in 1 .. n - 1}
    BY <1>4
  <2>3. {stack[i] : i \in 1 .. n} = {stack[i] : i \in 1 .. n - 1} \cup {stack[n]}
    BY <1>6, Zenon
  <2> QED BY <2>1, <2>2, <2>3
<1>8. Len(stack) = 1 => s = << >>
  <2>1. n = 1 => Len(s) = 0
    BY <1>4
  <2> QED BY <1>1, <1>4, <2>1, EmptySeq
<1> QED BY <1>1, <1>4, <1>5, <1>7, <1>8, LastFrame

\* What is on the stack of a route is about its pools.
LEMMA StackKeysIs ==
    ASSUME NEW r
    PROVE  StackKeys(r) = {f.key : f \in FramesOf(r.stack)}
BY DEF StackKeys, FramesOf

\* To speak of all that is on a stack is to speak of the frames on it.
LEMMA WaitsIs ==
    ASSUME NEW r, NEW b, NEW o
    PROVE  (\A i \in DOMAIN r.stack : Awaits(r.stack[i], o) /\ HasGiven(r.stack[i], b, o))
           <=> \A f \in FramesOf(r.stack) : Awaits(f, o) /\ HasGiven(f, b, o)
BY Zenon DEF FramesOf

\* A route that has not been paid yet
LEMMA NoPoolPays ==
    ASSUME NEW r, NEW r2, ~r.exactInput, r.payer = Sender, r2.payer = r.payer, r2.path = r.path,
           r2.exactInput = r.exactInput, r2.specified = r.specified, NEW p, NEW b, NEW o
    PROVE  PaysItself(r2) /\ HasBeenSent(r2, p, b, o) /\ (Covered(r2, o) => Covered(r, o))
<1>1. r2.payer \notin PoolKeys
  BY WhoIsWho
<1> QED BY <1>1 DEF PaysItself, HasBeenSent, Covered, TokenIn

\* What is left of the path of an exact output does not go through the pools that wait.
LEMMA NextPools ==
    ASSUME NEW r \in RouteRecords, OddPath(r.rest), NEW frame \in Frames, frame.key = FirstPoolKey(r.rest),
           ~Repeats(r.rest), PoolsOf(r.rest) \cap StackKeys(r) = {},
           NEW r2, r2 = AfterOutput(r, frame)
    PROVE  /\ r2.stack = Append(r.stack, frame) /\ r2.phase \in {"output", "pay"}
           /\ r2.payer = r.payer /\ r2.path = r.path /\ r2.exactInput = r.exactInput /\ r2.specified = r.specified
           /\ StackKeys(r2) = StackKeys(r) \cup {frame.key} /\ frame.key \notin StackKeys(r)
           /\ r2.phase = "output" => ~Repeats(r2.rest) /\ PoolsOf(r2.rest) \cap StackKeys(r2) = {}
<1>1. PICK rest, phase, stack, key :
        /\ rest = IF HasMultiplePools(r.rest) THEN SkipToken(r.rest) ELSE r.rest
        /\ phase = IF HasMultiplePools(r.rest) THEN "output" ELSE "pay"
        /\ stack = Append(r.stack, frame) /\ key = frame.key
  OBVIOUS
<1>2. r2 = [r EXCEPT !.stack = stack, !.amount = frame.swap.amountIn, !.recipient = key, !.rest = rest, !.phase = phase]
  BY <1>1 DEF AfterOutput
<1>3. /\ r2.stack = stack /\ r2.rest = rest /\ r2.phase = phase
      /\ r2.payer = r.payer /\ r2.path = r.path /\ r2.exactInput = r.exactInput /\ r2.specified = r.specified
  BY <1>2 DEF RouteRecords
<1>4. FramesOf(stack) = FramesOf(r.stack) \cup {frame}
  <2>1. r.stack \in Seq(Frames)
    BY DEF RouteRecords
  <2> QED BY <1>1, <2>1, FramesAppended
<1>5. StackKeys(r2) = StackKeys(r) \cup {key}
  <2>1. StackKeys(r2) = {f.key : f \in FramesOf(stack)} /\ StackKeys(r) = {f.key : f \in FramesOf(r.stack)}
    BY <1>3, StackKeysIs
  <2> QED BY <1>1, <1>4, <2>1
<1>6. key \in PoolsOf(r.rest)
  BY <1>1, PathParts
<1>7. ASSUME phase = "output" PROVE ~Repeats(rest) /\ PoolsOf(rest) \cap StackKeys(r2) = {}
  <2>1. HasMultiplePools(r.rest) /\ rest = SkipToken(r.rest)
    BY <1>1, <1>7
  <2>2. ~Repeats(rest) /\ FirstPoolKey(r.rest) \notin PoolsOf(rest)
    BY <2>1, SkippedOnce
  <2>3. PoolsOf(rest) \subseteq PoolsOf(r.rest)
    BY <2>1, Skipped
  <2> QED BY <1>1, <1>5, <2>2, <2>3
<1> QED BY <1>1, <1>3, <1>5, <1>6, <1>7

\* A swap of an exact output up to its callback leaves the other pools backed.
LEMMA SwapOutBacked ==
    ASSUME TypesInv, RouteInv, CoveredInv, SwapOut
    PROVE  PaysItself(call') /\ (Covered(call', before) => RouteBacked(call', pools', balance', before))
<1>1. PICK r \in RouteRecords : r = call
  BY DEF TypesInv, SwapOut
<1>2. /\ call # None /\ Along(r) /\ InPhase(r) /\ r.phase = "output" /\ ~r.exactInput /\ r.payer = Sender
  <2>1. call # None /\ call.phase = "output"
    BY DEF SwapOut
  <2>2. RouteOK(call, pools, balance, before)
    BY <2>1 DEF RouteInv
  <2>3. Along(r) /\ InPhase(r)
    BY <1>1, <2>2 DEF RouteOK
  <2>4. ~r.exactInput
    BY <1>1, <2>1, <2>3 DEF InPhase
  <2> QED BY <1>1, <2>1, <2>3, <2>4 DEF InPhase
<1>3. /\ before \in States /\ balance \in Balances /\ locked \in Balances /\ pools \in [PoolKeys -> PoolStates]
  BY <1>2 DEF TypesInv, Started
<1>a. PICK swap \in {HopResult}, more \in {HasMultiplePools(call.rest)} :
        /\ CanPayOut(swap)
        /\ balance' = PaidOut(HopKey, TokenTaken, TokenGiven, swap, RecipientOf(call.recipient))
        /\ locked' = LockedBy(HopKey, TokenTaken, swap.protocolFee)
        /\ call' = [call EXCEPT
              !.stack = Append(@, [key |-> HopKey, token |-> TokenTaken, wanted |-> call.amount,
                                   balanceBefore |-> balance'[HopKey][TokenTaken], swap |-> swap]),
              !.amount = swap.amountIn,
              !.recipient = HopKey,
              !.rest = IF more THEN SkipToken(@) ELSE @,
              !.phase = IF more THEN "output" ELSE "pay"]
        /\ UNCHANGED <<pools, hasTreasury, result, before>>
  BY Zenon DEF SwapOut
<1>4. /\ swap = HopResult /\ swap # Error /\ more = HasMultiplePools(call.rest) /\ pools' = pools
  BY <1>a, Zenon DEF CanPayOut
<1>5. PICK key, in, out, to :
        key = HopKey /\ in = TokenTaken /\ out = TokenGiven /\ to = RecipientOf(call.recipient)
  OBVIOUS
<1>6. /\ key \in PoolKeys /\ swap \in Swaps
      /\ \E side \in {0, 1} :
            /\ IsSide(key, in, out, side)
            /\ Owes(key, pools[key], swap.pool, swap.amountIn, swap.amountOut, swap.protocolFee, side)
  <2>1. pools \in [PoolKeys -> PoolStates] /\ call \in RouteRecords /\ Along(call)
    BY <1>1, <1>2, <1>3
  <2> QED BY <1>4, <1>5, <2>1, HopOwed
<1>7. PICK side \in {0, 1} :
        /\ IsSide(key, in, out, side)
        /\ Owes(key, pools[key], swap.pool, swap.amountIn, swap.amountOut, swap.protocolFee, side)
  BY <1>6
<1>8. /\ in \in Tokens /\ out \in Tokens /\ in # out /\ Side(key, in) = side
      /\ key[side + 1] = in /\ key[(1 - side) + 1] = out
  BY <1>7 DEF IsSide
<1>9. PICK given \in Nat, got \in Nat, fee \in Nat, new \in PoolStates :
        given = swap.amountIn /\ got = swap.amountOut /\ fee = swap.protocolFee /\ new = swap.pool
  BY <1>6 DEF Swaps
<1>10. to \in Accounts
  BY <1>1, <1>5, RecipientIs DEF RouteRecords
<1>11. PICK b, l : b = PaidOut(key, in, out, swap, to) /\ l = LockedBy(key, in, swap.protocolFee)
  OBVIOUS
<1>12. b \in Balances
  BY <1>3, <1>6, <1>8, <1>10, <1>11, PaidOutIs
<1>13. /\ \A k \in PoolKeys \ {key} : NoLess(balance, b, k)
       /\ b[key][in] = balance[key][in] - fee
       /\ b[key][out] >= balance[key][out] - got
  BY <1>3, <1>6, <1>8, <1>9, <1>10, <1>11, PaidOutOfPool
<1>14. balance' = b
  BY <1>a, <1>5, <1>11
<1>15. key \in Accounts
  BY <1>6, WhoIsWho
<1>16. b[key][in] \in Int /\ balance[key][in] \in Int /\ b[key][out] \in Int /\ balance[key][out] \in Int
  BY <1>3, <1>8, <1>12, <1>15 DEF Balances, Amounts
<1>17. PICK n \in Int : n = balance'[key][in] /\ n = b[key][in]
  BY <1>14, <1>16
<1>18. PICK frame : frame = [key |-> key, token |-> in, wanted |-> r.amount, balanceBefore |-> n, swap |-> swap]
  OBVIOUS
<1>19. /\ frame \in Frames /\ frame.key = key /\ frame.token = in /\ frame.balanceBefore = n /\ frame.swap = swap
  BY <1>6, <1>8, <1>18 DEF Frames, RouteRecords
<1>20. PICK r2 : r2 = call'
  OBVIOUS
<1>21. r2 = AfterOutput(r, frame)
  BY <1>1, <1>a, <1>4, <1>5, <1>17, <1>18, <1>19, <1>20 DEF AfterOutput
<1>22. r2.payer = r.payer /\ r2.path = r.path /\ r2.exactInput = r.exactInput /\ r2.specified = r.specified
  BY <1>21 DEF AfterOutput, RouteRecords
<1>23. PaysItself(r2) /\ HasBeenSent(r2, pools, b, before) /\ (Covered(r2, before) => Covered(r, before))
  BY <1>2, <1>22, NoPoolPays
<1>24. ASSUME Covered(r, before) PROVE RouteBacked(r2, pools, b, before)
  <2>1. RouteBacked(r, pools, balance, before)
    BY <1>1, <1>2, <1>24 DEF CoveredInv
  <2>2. /\ ~Repeats(r.rest) /\ PoolsOf(r.rest) \cap StackKeys(r) = {} /\ OddPath(r.rest)
        /\ key = FirstPoolKey(r.rest)
    BY <1>1, <1>2, <1>5, <2>1 DEF RouteBacked, Along, HopKey
  <2>3. /\ r2.stack = Append(r.stack, frame) /\ r2.phase \in {"output", "pay"}
        /\ StackKeys(r2) = StackKeys(r) \cup {key} /\ key \notin StackKeys(r)
        /\ r2.phase = "output" => ~Repeats(r2.rest) /\ PoolsOf(r2.rest) \cap StackKeys(r2) = {}
    BY <1>19, <1>21, <2>2, NextPools
  <2>4. ASSUME NEW k \in PoolKeys \ StackKeys(r2) PROVE PoolBacked(k, pools, b, before)
    <3>1. k \in PoolKeys /\ k # key /\ NoLess(balance, b, k) /\ PoolBacked(k, pools, balance, before)
      BY <1>13, <2>1, <2>3 DEF RouteBacked
    <3> QED BY <1>3, <1>12, <3>1, PoolStaysBacked
  <2>5. PICK pool \in PoolStates : pool = pools[key]
    BY <1>3, <1>6
  <2>6. PICK ob \in Balances, opool \in PoolStates : ob = before.balance /\ opool = before.pools[key]
    BY <1>3, <1>6 DEF States
  <2>7. PoolBacked(key, pools, balance, before)
    BY <1>6, <2>1, <2>3 DEF RouteBacked
  <2>8. /\ OwedBy(key, new, side) + fee <= OwedBy(key, pool, side) + given
        /\ OwedBy(key, new, 1 - side) + got <= OwedBy(key, pool, 1 - side)
    BY <1>7, <1>9, <2>5 DEF Owes
  <2>9. Awaits(frame, before)
    <3>1. PICK had \in Int, old \in Int :
            had = Spare(key, side, balance, pool) /\ old = Spare(key, side, ob, opool)
      BY <1>3, <1>6, SpareIs
    <3>2. PICK u \in Nat, v \in Nat : u = OwedBy(key, new, side) /\ v = OwedBy(key, pool, side)
      BY <1>6, SpareIs
    <3>3. PICK x \in Int : x = balance[key][in]
      BY <1>16
    <3>4. had = x - v
      BY <1>3, <1>6, <1>8, <3>1, <3>2, <3>3, SpareIs
    <3>5. had >= old
      BY <2>5, <2>6, <2>7, <3>1 DEF PoolBacked
    <3>6. u + fee <= v + given
      BY <2>8, <3>2
    <3>7. n = x - fee
      BY <1>13, <1>17, <3>3
    <3>8. n + given - u >= old
      BY <3>4, <3>5, <3>6, <3>7
    <3>9. frame.swap.amountIn = given /\ frame.swap.pool = new
      BY <1>9, <1>19
    <3>10. frame.balanceBefore + frame.swap.amountIn - OwedBy(frame.key, frame.swap.pool, side)
               >= Spare(frame.key, side, before.balance, before.pools[frame.key])
      BY <1>19, <2>6, <3>1, <3>2, <3>8, <3>9
    <3>11. side = Side(frame.key, frame.token) /\ frame.token = frame.key[side + 1]
      BY <1>8, <1>19
    <3> QED BY <3>10, <3>11, Zenon DEF Awaits
  <2>10. HasGiven(frame, b, before)
    <3>1. PICK i \in {0, 1} : i = 1 - side
      OBVIOUS
    <3>2. PICK have \in Int, had \in Int, old \in Int :
            have = Spare(key, i, b, new) /\ had = Spare(key, i, balance, pool) /\ old = Spare(key, i, ob, opool)
      BY <1>3, <1>6, <1>12, SpareIs
    <3>3. PICK u \in Nat, v \in Nat : u = OwedBy(key, new, i) /\ v = OwedBy(key, pool, i)
      BY <1>6, SpareIs
    <3>4. u + got <= v
      BY <2>8, <3>1, <3>3
    <3>5. key[i + 1] = out
      BY <1>8, <3>1
    <3>6. PICK d \in Int, e \in Int : d = -got /\ e = 0
      OBVIOUS
    <3>7. b[key][key[i + 1]] >= balance[key][key[i + 1]] + d
      BY <1>13, <1>16, <3>5, <3>6
    <3>8. OwedBy(key, new, i) <= OwedBy(key, pool, i) + d + e
      BY <3>3, <3>4, <3>6
    <3>9. have >= had - e
      BY <1>3, <1>6, <1>12, <3>2, <3>7, <3>8, SpareMoves
    <3>10. had >= old
      BY <2>5, <2>6, <2>7, <3>2 DEF PoolBacked
    <3>11. have >= old
      BY <3>6, <3>9, <3>10
    <3>12. ASSUME NEW j \in {0, 1}, j # Side(frame.key, frame.token)
           PROVE  Spare(frame.key, j, b, frame.swap.pool) >= Spare(frame.key, j, before.balance, before.pools[frame.key])
      <4>1. j = i /\ frame.key = key /\ frame.swap.pool = new
        BY <1>8, <1>9, <1>19, <3>1, <3>12
      <4> QED BY <2>6, <3>2, <3>11, <4>1
    <3> QED BY <3>12 DEF HasGiven
  <2>11. ASSUME NEW f \in FramesOf(r2.stack) PROVE Awaits(f, before) /\ HasGiven(f, b, before)
    <3>1. r.stack \in Seq(Frames)
      BY DEF RouteRecords
    <3>2. f \in FramesOf(r.stack) \/ f = frame
      BY <1>19, <2>3, <3>1, FramesAppended
    <3>3. CASE f = frame
      BY <2>9, <2>10, <3>3
    <3>4. CASE f \in FramesOf(r.stack)
      <4>1. Awaits(f, before) /\ HasGiven(f, balance, before)
        BY <2>1, <3>4, Zenon DEF RouteBacked, FramesOf
      <4>2. f \in Frames /\ f.key \in StackKeys(r)
        <5>1. PICK i \in DOMAIN r.stack : f = r.stack[i]
          BY <3>4 DEF FramesOf
        <5>2. r.stack[i] \in Frames
          <6>1. r.stack \in [1 .. Len(r.stack) -> Frames] /\ DOMAIN r.stack = 1 .. Len(r.stack)
            BY <3>1, LenProperties
          <6> QED BY <5>1, <6>1
        <5> QED BY <5>1, <5>2 DEF StackKeys
      <4>3. f.key \in PoolKeys /\ f.key # key
        BY <2>3, <4>2 DEF Frames
      <4>4. NoLess(balance, b, f.key)
        BY <1>13, <4>3
      <4>5. HasGiven(f, b, before)
        BY <1>3, <1>12, <4>1, <4>2, <4>4, StillGiven
      <4> QED BY <4>1, <4>5
    <3> QED BY <3>2, <3>3, <3>4
  <2>12. \A i \in DOMAIN r2.stack : Awaits(r2.stack[i], before) /\ HasGiven(r2.stack[i], b, before)
    BY <2>11, WaitsIs
  <2>13. r2.phase \notin {"input", "finish"}
    BY <2>3
  <2> QED BY <1>23, <2>3, <2>4, <2>12, <2>13 DEF RouteBacked
<1>25. Covered(r2, before) => RouteBacked(r2, pools', balance', before)
  BY <1>4, <1>14, <1>23, <1>24
<1> QED BY <1>20, <1>23, <1>25

\* What is on a stack that only grows in what its pools have
LEMMA WaitsStill ==
    ASSUME NEW r \in RouteRecords, NEW stack \in Seq(Frames), FramesOf(stack) \subseteq FramesOf(r.stack),
           NEW b \in Balances, NEW b2 \in Balances, \A k \in PoolKeys : NoLess(b, b2, k), NEW o \in States,
           \A i \in DOMAIN r.stack : Awaits(r.stack[i], o) /\ HasGiven(r.stack[i], b, o)
    PROVE  \A i \in DOMAIN stack : Awaits(stack[i], o) /\ HasGiven(stack[i], b2, o)
<1> SUFFICES ASSUME NEW i \in DOMAIN stack PROVE Awaits(stack[i], o) /\ HasGiven(stack[i], b2, o)
  OBVIOUS
<1>1. PICK f : f = stack[i] /\ f \in FramesOf(stack)
  BY DEF FramesOf
<1>2. f \in Frames
  <2>1. stack \in [1 .. Len(stack) -> Frames] /\ DOMAIN stack = 1 .. Len(stack)
    BY LenProperties
  <2> QED BY <1>1, <2>1
<1>3. Awaits(f, o) /\ HasGiven(f, b, o)
  <2>1. f \in FramesOf(r.stack)
    BY <1>1
  <2> QED BY <2>1, Zenon DEF FramesOf
<1>4. NoLess(b, b2, f.key)
  BY <1>2 DEF Frames
<1>5. HasGiven(f, b2, o)
  BY <1>2, <1>3, <1>4, StillGiven
<1> QED BY <1>1, <1>3, <1>5

\* What is the same is no less.
LEMMA SameNoLess ==
    ASSUME NEW b \in Balances, NEW k \in PoolKeys
    PROVE  NoLess(b, b, k)
<1> SUFFICES ASSUME NEW t \in Tokens PROVE b[k][t] >= b[k][t]
  BY DEF NoLess
<1>1. b[k][t] \in Int
  BY WhoIsWho DEF Balances, Amounts
<1> QED BY <1>1

\* The sender pays the innermost pool.
LEMMA PayOutBacked ==
    ASSUME TypesInv, RouteInv, CoveredInv, PayOut
    PROVE  PaysItself(call') /\ (Covered(call', before) => RouteBacked(call', pools', balance', before))
<1>1. PICK r \in RouteRecords : r = call
  BY DEF TypesInv, PayOut
<1>2. /\ call # None /\ Along(r) /\ InPhase(r) /\ r.phase = "pay" /\ ~r.exactInput /\ r.payer = Sender
      /\ r.stack # << >> /\ r.recipient \in PoolKeys
  <2>1. call # None /\ call.phase = "pay"
    BY DEF PayOut
  <2>2. RouteOK(call, pools, balance, before)
    BY <2>1 DEF RouteInv
  <2>3. Along(r) /\ InPhase(r)
    BY <1>1, <2>2 DEF RouteOK
  <2>4. ~r.exactInput
    BY <1>1, <2>1, <2>3 DEF InPhase
  <2> QED BY <1>1, <2>1, <2>3, <2>4 DEF InPhase, Along
<1>3. /\ before \in States /\ balance \in Balances /\ locked \in Balances /\ pools \in [PoolKeys -> PoolStates]
  BY <1>2 DEF TypesInv, Started
<1>4. PICK in \in Nat, key \in PoolKeys, given \in Nat : in = LastToken(r.path) /\ key = r.recipient /\ given = r.amount
  <2>1. LastToken(r.path) \in Nat
    BY <1>2, PathParts DEF Along
  <2> QED BY <1>2, <2>1 DEF RouteRecords
<1>5. /\ balance' = Transferred(balance, Sender, key, in, given)
      /\ call' = [r EXCEPT !.phase = "return"]
      /\ pools' = pools
  BY <1>1, <1>2, <1>4 DEF PayOut
<1>6. in \in Tokens
  <2>1. OddPath(r.path) /\ TokensOf(r.path) \subseteq Tokens
    BY <1>2 DEF Along
  <2> QED BY <1>4, <2>1, PathParts
<1>7. PICK b : b = balance' /\ b = Transferred(balance, Sender, key, in, given)
  BY <1>5
<1>8. key \in Accounts /\ Sender \in Accounts /\ \A k \in PoolKeys : k \in Accounts /\ k # Sender
  BY WhoIsWho
<1>9. b \in Balances /\ IsMoved(b, balance, Sender, key, in, given)
  <2>1. given \in Int
    OBVIOUS
  <2> QED BY <1>3, <1>6, <1>7, <1>8, <2>1, TransferredIs
<1>10. ASSUME NEW k \in PoolKeys PROVE NoLess(balance, b, k)
  <2> SUFFICES ASSUME NEW t \in Tokens PROVE b[k][t] >= balance[k][t]
    BY DEF NoLess
  <2>1. balance[k][t] \in Int
    BY <1>3, <1>8 DEF Balances, Amounts
  <2>2. b[k][t] = balance[k][t] - (IF k = Sender /\ t = in THEN given ELSE 0) + (IF k = key /\ t = in THEN given ELSE 0)
    BY <1>8, <1>9 DEF IsMoved
  <2>3. b[k][t] = balance[k][t] + (IF k = key /\ t = in THEN given ELSE 0)
    BY <1>8, <2>1, <2>2
  <2> QED BY <2>1, <2>3
<1>11. PICK r2 : r2 = call'
  OBVIOUS
<1>12. /\ r2.path = r.path /\ r2.specified = r.specified /\ r2.exactInput = r.exactInput
       /\ r2.stack = r.stack /\ r2.phase = "return" /\ r2.payer = r.payer
  BY <1>5, <1>11 DEF RouteRecords
<1>13. PaysItself(r2) /\ HasBeenSent(r2, pools, b, before) /\ (Covered(r2, before) => Covered(r, before))
  BY <1>2, <1>12, NoPoolPays
<1>14. ASSUME Covered(r, before) PROVE RouteBacked(r2, pools, b, before)
  <2>1. RouteBacked(r, pools, balance, before)
    BY <1>1, <1>2, <1>14 DEF CoveredInv
  <2>2. StackKeys(r2) = StackKeys(r)
    BY <1>12 DEF StackKeys
  <2>3. ASSUME NEW k \in PoolKeys \ StackKeys(r2) PROVE PoolBacked(k, pools, b, before)
    <3>1. k \in PoolKeys /\ NoLess(balance, b, k) /\ PoolBacked(k, pools, balance, before)
      BY <1>10, <2>1, <2>2 DEF RouteBacked
    <3> QED BY <1>3, <1>9, <3>1, PoolStaysBacked
  <2>4. \A i \in DOMAIN r2.stack : Awaits(r2.stack[i], before) /\ HasGiven(r2.stack[i], b, before)
    <3>1. r2.stack \in Seq(Frames) /\ FramesOf(r2.stack) \subseteq FramesOf(r.stack)
      BY <1>12 DEF RouteRecords
    <3>2. \A i \in DOMAIN r.stack : Awaits(r.stack[i], before) /\ HasGiven(r.stack[i], balance, before)
      BY <2>1 DEF RouteBacked
    <3> QED BY <1>3, <1>9, <1>10, <3>1, <3>2, WaitsStill
  <2> QED BY <1>12, <1>13, <2>3, <2>4 DEF RouteBacked
<1>15. Covered(r2, before) => RouteBacked(r2, pools', balance', before)
  BY <1>5, <1>7, <1>13, <1>14
<1> QED BY <1>11, <1>13, <1>15

\* The return of a swap stores its pool, which has been paid.
LEMMA ReturnOutBacked ==
    ASSUME TypesInv, RouteInv, CoveredInv, ReturnOut
    PROVE  PaysItself(call') /\ (Covered(call', before) => RouteBacked(call', pools', balance', before))
<1>1. PICK r \in RouteRecords : r = call
  BY DEF TypesInv, ReturnOut
<1>2. /\ call # None /\ Along(r) /\ InPhase(r) /\ r.phase = "return" /\ ~r.exactInput /\ r.payer = Sender /\ r.stack # << >>
  <2>1. call # None /\ call.phase = "return"
    BY DEF ReturnOut
  <2>2. RouteOK(call, pools, balance, before)
    BY <2>1 DEF RouteInv
  <2>3. Along(r) /\ InPhase(r)
    BY <1>1, <2>2 DEF RouteOK
  <2>4. ~r.exactInput
    BY <1>1, <2>1, <2>3 DEF InPhase
  <2> QED BY <1>1, <2>1, <2>3, <2>4 DEF InPhase
<1>3. /\ before \in States /\ balance \in Balances /\ pools \in [PoolKeys -> PoolStates]
  BY <1>2 DEF TypesInv, Started
<1>4. PICK stack \in Seq(Frames) : stack = r.stack
  BY DEF RouteRecords
<1>5. /\ Last(stack) \in Frames /\ Front(stack) \in Seq(Frames)
      /\ FramesOf(stack) = FramesOf(Front(stack)) \cup {Last(stack)}
      /\ Len(stack) = 1 => Front(stack) = << >>
  BY <1>2, <1>4, FramesLeft
<1>6. PICK frame \in Frames, front \in Seq(Frames) : frame = Last(stack) /\ front = Front(stack)
  BY <1>5
<1>7. /\ Returns(frame)
      /\ pools' = [pools EXCEPT ![frame.key] = frame.swap.pool]
      /\ call' = [r EXCEPT !.stack = front, !.phase = IF Len(stack) = 1 THEN "finish" ELSE "return"]
      /\ balance' = balance
  BY <1>1, <1>4, <1>6 DEF ReturnOut
<1>8. PICK key \in PoolKeys, in \in Tokens, n \in Int, given \in Nat, new \in PoolStates :
        key = frame.key /\ in = frame.token /\ n = frame.balanceBefore /\ given = frame.swap.amountIn /\ new = frame.swap.pool
  BY DEF Frames, Swaps
<1>9. PICK r2 : r2 = call'
  OBVIOUS
<1>10. /\ r2.path = r.path /\ r2.specified = r.specified /\ r2.exactInput = r.exactInput
       /\ r2.stack = front /\ r2.payer = r.payer
       /\ r2.phase = IF Len(stack) = 1 THEN "finish" ELSE "return"
  BY <1>7, <1>9 DEF RouteRecords
<1>11. PICK q : q = pools' /\ q = [pools EXCEPT ![key] = new]
  BY <1>7, <1>8
<1>12. q[key] = new /\ \A k \in PoolKeys \ {key} : q[k] = pools[k]
  BY <1>3, <1>11
<1>13. PaysItself(r2) /\ HasBeenSent(r2, q, balance, before) /\ (Covered(r2, before) => Covered(r, before))
  BY <1>2, <1>10, NoPoolPays
<1>14. ASSUME Covered(r, before) PROVE RouteBacked(r2, q, balance, before)
  <2>1. RouteBacked(r, pools, balance, before)
    BY <1>1, <1>2, <1>14 DEF CoveredInv
  <2>2. Awaits(frame, before) /\ HasGiven(frame, balance, before)
    <3>1. frame \in FramesOf(r.stack)
      BY <1>4, <1>5, <1>6
    <3> QED BY <2>1, <3>1, Zenon DEF RouteBacked, FramesOf
  <2>3. PoolBacked(key, q, balance, before)
    <3>1. PICK side \in {0, 1} :
            /\ side = Side(key, in) /\ in = key[side + 1]
            /\ n + given - OwedBy(key, new, side) >= Spare(key, side, before.balance, before.pools[key])
      BY <1>8, <2>2 DEF Awaits
    <3>2. PICK ob \in Balances, opool \in PoolStates : ob = before.balance /\ opool = before.pools[key]
      BY <1>3 DEF States
    <3>3. Spare(key, side, balance, new) >= Spare(key, side, ob, opool)
      <4>1. PICK x \in Int, u \in Nat, old \in Int :
              x = balance[key][in] /\ u = OwedBy(key, new, side) /\ old = Spare(key, side, ob, opool)
        BY <1>3, <3>1, <3>2, SpareIs
      <4>2. Spare(key, side, balance, new) = x - u
        BY <3>1, <4>1, Zenon DEF Spare
      <4>3. n + given <= x
        BY <1>7, <1>8, <4>1 DEF Returns
      <4>4. n + given - u >= old
        BY <3>1, <3>2, <4>1
      <4>5. x - u >= old
        BY <4>3, <4>4
      <4> QED BY <4>1, <4>2, <4>5
    <3>4. ASSUME NEW i \in {0, 1} PROVE Spare(key, i, balance, q[key]) >= Spare(key, i, before.balance, before.pools[key])
      <4>1. CASE i = side
        BY <1>12, <3>2, <3>3, <4>1
      <4>2. CASE i # side
        <5>1. i # Side(frame.key, frame.token)
          BY <1>8, <3>1, <4>2
        <5> QED BY <1>8, <1>12, <2>2, <5>1 DEF HasGiven
      <4> QED BY <4>1, <4>2
    <3> QED BY <3>4 DEF PoolBacked
  <2>4. StackKeys(r) = StackKeys(r2) \cup {key}
    <3>1. StackKeys(r) = {f.key : f \in FramesOf(stack)} /\ StackKeys(r2) = {f.key : f \in FramesOf(front)}
      BY <1>4, <1>10, StackKeysIs
    <3> QED BY <1>5, <1>6, <1>8, <3>1
  <2>5. ASSUME NEW k \in PoolKeys \ StackKeys(r2) PROVE PoolBacked(k, q, balance, before)
    <3>1. CASE k = key
      BY <2>3, <3>1
    <3>2. CASE k # key
      <4>1. k \in PoolKeys /\ q[k] = pools[k] /\ PoolBacked(k, pools, balance, before) /\ NoLess(balance, balance, k)
        BY <1>3, <1>12, <2>1, <2>4, <3>2, SameNoLess DEF RouteBacked
      <4> QED BY <1>3, <4>1, PoolStaysBacked
    <3> QED BY <3>1, <3>2
  <2>6. \A i \in DOMAIN r2.stack : Awaits(r2.stack[i], before) /\ HasGiven(r2.stack[i], balance, before)
    <3>1. r2.stack \in Seq(Frames) /\ FramesOf(r2.stack) \subseteq FramesOf(r.stack)
      BY <1>4, <1>5, <1>6, <1>10
    <3>2. \A i \in DOMAIN r.stack : Awaits(r.stack[i], before) /\ HasGiven(r.stack[i], balance, before)
      BY <2>1 DEF RouteBacked
    <3>3. \A k \in PoolKeys : NoLess(balance, balance, k)
      BY <1>3, SameNoLess
    <3> QED BY <1>3, <3>1, <3>2, <3>3, WaitsStill
  <2>7. /\ r2.phase # "output" /\ r2.phase # "input"
        /\ r2.phase = "finish" => r2.stack = << >>
    BY <1>5, <1>6, <1>10
  <2> QED BY <1>13, <2>5, <2>6, <2>7 DEF RouteBacked
<1>15. Covered(r2, before) => RouteBacked(r2, pools', balance', before)
  BY <1>7, <1>11, <1>13, <1>14
<1> QED BY <1>9, <1>13, <1>15

\* The end of a route moves nothing at a pool.
LEMMA FinishBacked ==
    ASSUME TypesInv, RouteInv, CoveredInv, Finish
    PROVE  Covered(call, before) => AllBacked(pools', balance', before)
<1>1. PICK r \in RouteRecords : r = call
  BY DEF TypesInv, Finish
<1>2. call # None /\ r.phase = "finish"
  BY <1>1 DEF Finish
<1>3. /\ before \in States /\ balance \in Balances /\ pools \in [PoolKeys -> PoolStates]
  BY <1>2 DEF TypesInv, Started
<1>4. PICK x, y, b :
        /\ b = [balance EXCEPT ![Router] = x, ![Treasury] = y]
        /\ balance' = b /\ pools' = pools
  <2>1. PICK x, y : /\ x = [t \in Tokens |-> balance[Router][t] - LeftOver(t)]
                    /\ y = [t \in Tokens |-> balance[Treasury][t] + IF PaysTreasury THEN LeftOver(t) ELSE 0]
    OBVIOUS
  <2>2. Router # Treasury
    BY WhoIsWho
  <2>3. balance' = [balance EXCEPT ![Router] = x, ![Treasury] = y] /\ pools' = pools
    BY <2>1, <2>2 DEF Finish
  <2> QED BY <2>3
<1>5. b \in Balances
  BY <1>4, FinishKeeps DEF StepKeeps
<1>6. \A k \in PoolKeys : b[k] = balance[k]
  BY <1>3, <1>4, WhoIsWho DEF Balances
<1>7. ASSUME Covered(r, before) PROVE AllBacked(pools, b, before)
  <2>1. RouteBacked(r, pools, balance, before)
    BY <1>1, <1>2, <1>7 DEF CoveredInv
  <2>2. StackKeys(r) = {}
    <3>1. r.stack = << >>
      BY <1>2, <2>1 DEF RouteBacked
    <3> QED BY <3>1 DEF StackKeys
  <2>3. ASSUME NEW k \in PoolKeys PROVE PoolBacked(k, pools, b, before)
    <3>1. PoolBacked(k, pools, balance, before)
      BY <2>1, <2>2 DEF RouteBacked
    <3> QED BY <1>6, <3>1 DEF PoolBacked, Spare
  <2> QED BY <2>3 DEF AllBacked
<1> QED BY <1>1, <1>4, <1>7

\* The route goes on with its pools backed, or has ended with all of them backed.
Goes ==
    \/ call' # None /\ PaysItself(call') /\ (Covered(call', before') => RouteBacked(call', pools', balance', before'))
    \/ call' = None
Ends ==
    result' # None /\ result'.ok /\ Covered(result'.route, before') => AllBacked(pools', balance', before')

\* Every step of a route leaves the pools backed that are not waiting.
LEMMA RouteStepBacked ==
    ASSUME TypesInv, RouteInv, EndsInv, CoveredInv, RouteStep
    PROVE  Goes /\ Ends
<1>1. ASSUME SwapIn \/ SwapOut \/ PayOut \/ ReturnOut PROVE Goes /\ Ends
  <2>1. result' = result /\ before' = before /\ call # None
    BY <1>1, Zenon DEF SwapIn, SwapOut, PayOut, ReturnOut
  <2>2. PaysItself(call') /\ (Covered(call', before) => RouteBacked(call', pools', balance', before))
    BY <1>1, SwapInBacked, SwapOutBacked, PayOutBacked, ReturnOutBacked
  <2>3. result' = None
    BY <2>1 DEF EndsInv
  <2> QED BY <2>1, <2>2, <2>3 DEF Goes, Ends
<1>2. ASSUME Finish PROVE Goes /\ Ends
  <2>1. Covered(call, before) => AllBacked(pools', balance', before)
    BY <1>2, FinishBacked
  <2>2. call' = None /\ before' = before /\ result' = [ok |-> TRUE, route |-> call]
    BY <1>2 DEF Finish
  <2> QED BY <2>1, <2>2 DEF Goes, Ends
<1>3. ASSUME Revert PROVE Goes /\ Ends
  <2>1. call' = None /\ result' = [ok |-> FALSE, route |-> call]
    BY <1>3 DEF Revert
  <2> QED BY <2>1 DEF Goes, Ends
<1> QED BY <1>1, <1>2, <1>3 DEF RouteStep

-----------------------------------------------------------------------------
(* Where the pools of a route stand at its beginning, and between its steps *)

\* The sender begins a route, and nothing else happens.
SenderStarts ==
    /\ call'.payer = Sender /\ call'.rest = call'.path /\ call'.stack = << >>
    /\ call'.phase = IF call'.exactInput THEN "input" ELSE "output"
    /\ before' = Now /\ result' = None /\ pools' = pools /\ balance' = balance

\* Nothing happens to a route, and one that has ended is forgotten or left alone.
Quiet ==
    /\ call' = call
    /\ call # None => UNCHANGED <<pools, balance, before>>
    /\ result' # None => UNCHANGED <<result, pools, balance, before>>

\* A command for an exact input begins a route of the sender.
LEMMA InputStarts ==
    ASSUME NEW path, NEW amount, NEW recipient, NEW bound, NEW limit,
           ExactInput(path, amount, recipient, bound, limit)
    PROVE  SenderStarts
<1>1. /\ call' = InputRoute(Sender, path, amount, recipient, bound, limit)
      /\ before' = Now /\ result' = None /\ pools' = pools /\ balance' = balance
  BY DEF ExactInput, ExactInputOf, Begin, InputRoute
<1>2. /\ call'.payer = Sender /\ call'.rest = path /\ call'.path = path /\ call'.stack = << >>
      /\ call'.phase = "input" /\ call'.exactInput = TRUE
  BY <1>1 DEF InputRoute
<1> QED BY <1>1, <1>2 DEF SenderStarts

\* So does a command for an exact output, which a conversion is too.
LEMMA OutputStarts ==
    ASSUME NEW path, NEW amount, NEW recipient, NEW bound, NEW limit,
           ExactOutput(path, amount, recipient, bound, limit)
    PROVE  SenderStarts
<1>1. /\ call' = OutputRoute(path, amount, recipient, bound, limit)
      /\ before' = Now /\ result' = None /\ pools' = pools /\ balance' = balance
  BY DEF ExactOutput, Begin, OutputRoute
<1>2. /\ call'.payer = Sender /\ call'.rest = path /\ call'.path = path /\ call'.stack = << >>
      /\ call'.phase = "output" /\ call'.exactInput = FALSE
  BY <1>1 DEF OutputRoute
<1> QED BY <1>1, <1>2 DEF SenderStarts

\* A purchase begins one along its path, or swaps at the ICO directly.
LEMMA PurchaseStarts ==
    ASSUME NEW o, NEW origin, Purchase(o, origin)
    PROVE  SenderStarts \/ Quiet
<1>1. call = None /\ (BuyAlongPath(o) \/ BuyDirectly(o, origin))
  BY DEF Purchase
<1>2. CASE BuyAlongPath(o)
  BY <1>2, InputStarts, OutputStarts DEF BuyAlongPath
<1>3. CASE BuyDirectly(o, origin)
  BY <1>1, <1>3 DEF BuyDirectly, Quiet
<1> QED BY <1>1, <1>2, <1>3

\* Whatever happens, it is a step of a route, the beginning of one or nothing to any.
LEMMA RouteKept ==
    ASSUME RouteIInv, [Next]_vars
    PROVE  RouteStep \/ SwapAtPool \/ SenderStarts \/ Quiet
<1>1. /\ tx # None /\ tx.stage \in {"fee", "base", "command", "after"} => call = None
      /\ tx # None /\ tx.stage \in {"base", "command", "after"} => result = None
  BY DEF RouteIInv, TxInv
<1>2. ASSUME UNCHANGED routerVars PROVE Quiet
  BY <1>2 DEF routerVars, Quiet
<1>3. CASE UNCHANGED vars
  BY <1>2, <1>3 DEF vars
<1>4. ASSUME NEW command \in Commands, NEW fee \in TxFees, Transaction(command, fee)
      PROVE  SenderStarts \/ Quiet
  <2>1. PICK plan : call = None /\ (Reject(plan) \/ Convert(plan) \/ NoConversion(plan))
    BY <1>4 DEF Transaction, Idle
  <2>2. CASE Reject(plan)
    BY <1>2, <2>2 DEF Reject
  <2>3. CASE Convert(plan)
    <3>1. PICK path, n, bound : ExactOutput(path, n, Sender, bound, None)
      BY <2>3 DEF Convert
    <3> QED BY <3>1, OutputStarts
  <2>4. CASE NoConversion(plan)
    BY <2>1, <2>4 DEF NoConversion, Quiet
  <2> QED BY <2>1, <2>2, <2>3, <2>4
<1>5. ASSUME Execution
      PROVE  RouteStep \/ SwapAtPool \/ SenderStarts \/ Quiet
  <2>1. CASE RouteStep /\ UNCHANGED <<icoVars, tx, events>>
    BY <2>1
  <2>2. CASE Converted \/ ExecuteBaseFee \/ EndCommand \/ NoSwap \/ EndHook
    BY <1>2, <2>2 DEF Converted, ExecuteBaseFee, EndCommand, NoSwap, EndHook
  <2>3. CASE TakeFee \/ TransferCommand
    BY <1>1, <2>3 DEF TakeFee, TransferCommand, Quiet
  <2>4. CASE ExactInputCommand \/ ExactInputSingleCommand
    <3>1. PICK c \in Commands : SwapsInput(c)
      BY <2>4 DEF ExactInputCommand, ExactInputSingleCommand
    <3>2. ExactInput(c.path, c.amount, c.recipient, c.bound, c.limit)
      BY <3>1 DEF SwapsInput
    <3> QED BY <3>2, InputStarts
  <2>5. CASE ExactOutputCommand \/ ExactOutputSingleCommand
    <3>1. PICK c \in Commands : SwapsOutput(c)
      BY <2>5 DEF ExactOutputCommand, ExactOutputSingleCommand
    <3>2. ExactOutput(c.path, c.amount, c.recipient, c.bound, c.limit)
      BY <3>1 DEF SwapsOutput
    <3> QED BY <3>2, OutputStarts
  <2>6. CASE IcoExactInputCommand \/ IcoExactInputSingleCommand \/ IcoExactOutputCommand
             \/ IcoExactOutputSingleCommand
    <3>1. PICK c \in Commands : Purchase(c, Now)
      BY <2>6 DEF IcoExactInputCommand, IcoExactInputSingleCommand, IcoExactOutputCommand,
                  IcoExactOutputSingleCommand
    <3> QED BY <3>1, PurchaseStarts
  <2>7. CASE SwapAtIco
    <3>1. PICK o : Purchase(o, before)
      BY <2>7 DEF SwapAtIco
    <3> QED BY <3>1, PurchaseStarts
  <2>8. CASE SwapAtPool
    BY <2>8
  <2>9. CASE Invalid
    BY <1>1, <2>9 DEF Invalid, HookEnds, Quiet
  <2>10. CASE IcoSwapInternal \/ IcoRevert
    BY <2>10 DEF IcoSwapInternal, IcoRevert, Quiet
  <2> QED BY <1>5, <2>1, <2>2, <2>3, <2>4, <2>5, <2>6, <2>7, <2>8, <2>9, <2>10 DEF Execution
<1>6. CASE Meanwhile
  BY <1>6 DEF Meanwhile, Idle, Donate, Treasurify, SetFeeProtocolPool, Quiet
<1> QED BY <1>3, <1>4, <1>5, <1>6 DEF Next

\* What is as it was
LEMMA NothingMoved ==
    ASSUME NEW p \in [PoolKeys -> PoolStates], NEW b \in Balances, NEW l \in Balances,
           NEW o, o = [pools |-> p, balance |-> b, locked |-> l],
           NEW k \in PoolKeys
    PROVE  PoolBacked(k, p, b, o)
<1>1. ASSUME NEW i \in {0, 1} PROVE Spare(k, i, b, p[k]) >= Spare(k, i, o.balance, o.pools[k])
  <2>1. PICK pool \in PoolStates : pool = p[k]
    OBVIOUS
  <2>2. PICK x \in Int : x = Spare(k, i, b, pool)
    BY SpareIs
  <2>3. o.balance = b /\ o.pools = p
    OBVIOUS
  <2>4. x >= x
    BY <2>2
  <2> QED BY <2>1, <2>2, <2>3, <2>4
<1> QED BY <1>1 DEF PoolBacked

\* A route of the sender begins with nothing moved.
LEMMA SenderStartsBacked ==
    ASSUME TypesInv, SenderStarts
    PROVE  Goes /\ Ends
<1>1. PICK r, o : r = call' /\ o = before'
  OBVIOUS
<1>2. /\ r.payer = Sender /\ r.rest = r.path /\ r.stack = << >>
      /\ r.phase = IF r.exactInput THEN "input" ELSE "output"
      /\ o = [pools |-> pools, balance |-> balance, locked |-> locked]
      /\ result' = None /\ pools' = pools /\ balance' = balance
  BY <1>1 DEF SenderStarts, Now
<1>3. Sender \notin PoolKeys
  BY WhoIsWho
<1>4. \A k \in PoolKeys : PoolBacked(k, pools, balance, o)
  BY <1>2, NothingMoved DEF TypesInv
<1>5. StackKeys(r) = {}
  BY <1>2 DEF StackKeys
<1>6. PaysItself(r) /\ HasBeenSent(r, pools, balance, o)
  BY <1>2, <1>3 DEF PaysItself, HasBeenSent
<1>7. ASSUME Covered(r, o) PROVE RouteBacked(r, pools, balance, o)
  <2>1. r.phase = "output" => ~Repeats(r.rest)
    <3>1. CASE r.exactInput
      BY <1>2, <3>1
    <3>2. CASE ~r.exactInput
      BY <1>2, <1>7, <3>2 DEF Covered
    <3> QED BY <3>1, <3>2
  <2>2. r.phase # "finish" /\ DOMAIN r.stack = {}
    BY <1>2
  <2> QED BY <1>2, <1>4, <1>5, <1>6, <2>1, <2>2 DEF RouteBacked
<1>8. Ends
  BY <1>2 DEF Ends
<1>9. CASE call' # None
  BY <1>1, <1>2, <1>6, <1>7, <1>8, <1>9 DEF Goes
<1>10. CASE call' = None
  BY <1>8, <1>10 DEF Goes
<1> QED BY <1>9, <1>10

\* What a pool has been sent it has to spare.
LEMMA SentToPool ==
    ASSUME NEW o \in States, NEW key \in PoolKeys, NEW token \in Tokens, NEW n \in Nat,
           NEW side \in {0, 1}, key[side + 1] = token,
           NEW b, b = Transferred(o.balance, Sender, key, token, n)
    PROVE  /\ \A k \in PoolKeys : PoolBacked(k, o.pools, b, o)
           /\ Spare(key, side, b, o.pools[key]) >= Spare(key, side, o.balance, o.pools[key]) + n
<1>1. PICK a, p : a = o.balance /\ p = o.pools /\ a \in Balances /\ p \in [PoolKeys -> PoolStates]
  BY DEF States
<1>2. /\ Sender \in Accounts /\ Sender \notin PoolKeys /\ key \in Accounts /\ key # Sender
      /\ \A k \in PoolKeys : k \in Accounts /\ k # Sender
  BY WhoIsWho
<1>3. b \in Balances /\ IsMoved(b, a, Sender, key, token, n)
  <2>1. n \in Int
    OBVIOUS
  <2> QED BY <1>1, <1>2, <2>1, TransferredIs
<1>4. ASSUME NEW k \in PoolKeys, NEW t \in Tokens
      PROVE  b[k][t] = a[k][t] + (IF k = key /\ t = token THEN n ELSE 0)
  <2>1. a[k][t] \in Int
    BY <1>1, <1>2 DEF Balances, Amounts
  <2>2. b[k][t] = a[k][t] - (IF k = Sender /\ t = token THEN n ELSE 0) + (IF k = key /\ t = token THEN n ELSE 0)
    BY <1>2, <1>3 DEF IsMoved
  <2> QED BY <1>2, <2>1, <2>2
<1>5. ASSUME NEW k \in PoolKeys PROVE PoolBacked(k, p, b, o)
  <2>1. ASSUME NEW i \in {0, 1} PROVE Spare(k, i, b, p[k]) >= Spare(k, i, o.balance, o.pools[k])
    <3>1. NoLess(a, b, k)
      <4> SUFFICES ASSUME NEW t \in Tokens PROVE b[k][t] >= a[k][t]
        BY DEF NoLess
      <4>1. a[k][t] \in Int
        BY <1>1, <1>2 DEF Balances, Amounts
      <4> QED BY <1>4, <4>1
    <3>2. PICK pool \in PoolStates : pool = p[k]
      BY <1>1
    <3>3. Spare(k, i, b, pool) >= Spare(k, i, a, pool)
      BY <1>1, <1>3, <3>1, SpareGrows
    <3> QED BY <1>1, <3>2, <3>3
  <2> QED BY <2>1 DEF PoolBacked
<1>6. Spare(key, side, b, p[key]) >= Spare(key, side, a, p[key]) + n
  <2>1. PICK pool \in PoolStates : pool = p[key]
    BY <1>1
  <2>2. PICK x \in Int, y \in Int, e \in Int : x = b[key][key[side + 1]] /\ y = a[key][key[side + 1]] /\ e = -n
    BY <1>1, <1>3, SpareIs
  <2>3. x = y + n
    BY <1>4, <2>2
  <2>4. PICK u \in Nat : u = OwedBy(key, pool, side)
    BY OwedNat
  <2>5. Spare(key, side, b, pool) = x - u /\ Spare(key, side, a, pool) = y - u
    BY <1>1, <1>3, <2>2, <2>4, SpareIs
  <2> QED BY <2>1, <2>3, <2>5
<1> QED BY <1>1, <1>5, <1>6

\* The swap of what a pool was sent begins.
LEMMA SwapAtPoolBacked ==
    ASSUME RouteIInv, SwapAtPool
    PROVE  Goes /\ Ends
<1>1. PICK c : c = tx.plan.command
  OBVIOUS
<1>2. PICK other \in {c.recipient[1], c.recipient[2]} \ {c.path[1]} :
        /\ tx # None /\ tx.stage = "after" /\ IsSwapAtPool(c)
        /\ ExactInputOf(c.recipient, before, <<c.path[1], c.recipient[3], other>>, c.amount, Sender, 0, None)
  BY <1>1 DEF SwapAtPool, Hooks, Swapping
<1>3. TypesInv /\ TxInv /\ AfterInv
  BY DEF RouteIInv
<1>4. /\ IsTx(tx) /\ IsTransfer(c)
      /\ pools = before.pools /\ Sent1(c, balance, before)
  BY <1>1, <1>2, <1>3 DEF TxInv, AfterInv
<1>5. before \in States
  BY <1>2, <1>3 DEF TypesInv, Started
<1>6. c \in Commands /\ IsCommand(c) /\ Suits(c)
  BY <1>1, <1>4, TxParts, CommandIs
<1>7. PICK key \in PoolKeys : key = c.recipient
  BY <1>2 DEF IsSwapAtPool
<1>8. PICK token \in Tokens, n \in Nat : token = c.path[1] /\ n = c.amount /\ token \in {key[1], key[2]}
  BY <1>2, <1>4, <1>6, <1>7 DEF IsCommand, IsTransfer, Suits, SuitsPool
<1>9. /\ key[1] \in Tokens /\ key[2] \in Tokens /\ key[1] < key[2]
      /\ key = <<key[1], key[2], key[3]>> /\ key[3] \in Nat /\ Tokens \subseteq Nat
  BY KeyParts, SwapRouterAssumption
<1>10. PICK out \in Tokens : out = other /\ out \in {key[1], key[2]} /\ out # token
  BY <1>7, <1>8, <1>9
<1>11. PICK path : path = <<token, key[3], out>>
  OBVIOUS
<1>12. /\ path[1] = token /\ path[2] = key[3] /\ path[3] = out /\ Len(path) = 3
       /\ ~HasMultiplePools(path)
  BY <1>11 DEF HasMultiplePools
<1>13. key = FirstPoolKey(path)
  <2>1. PICK i \in Int, j \in Int : i = key[1] /\ j = key[2] /\ i < j
    BY <1>9
  <2>2. Min({token, out}) = i /\ Max({token, out}) = j
    <3>1. token \in Int /\ out \in Int
      BY <1>9
    <3>2. /\ Min({token, out}) = (IF token <= out THEN token ELSE out)
          /\ Max({token, out}) = (IF token >= out THEN token ELSE out)
      BY <3>1, LeastOfTwo, GreatestOfTwo
    <3> QED BY <1>8, <1>10, <2>1, <3>1, <3>2
  <2>3. FirstPoolKey(path) = <<i, j, key[3]>>
    BY <1>12, <2>2, Zenon DEF FirstPoolKey, PoolKey
  <2> QED BY <1>9, <2>1, <2>3
<1>14. PICK r : r = InputRoute(key, path, n, Sender, 0, None)
  OBVIOUS
<1>15. call' = r /\ before' = before /\ result' = None /\ UNCHANGED <<pools, balance>>
  BY <1>2, <1>7, <1>8, <1>10, <1>11, <1>14 DEF ExactInputOf, Begin, InputRoute
<1>16. /\ r.payer = key /\ r.path = path /\ r.rest = path /\ r.stack = << >> /\ r.phase = "input"
       /\ r.exactInput = TRUE /\ r.specified = n /\ r.amount = n
  BY <1>14 DEF InputRoute
<1>17. PaysItself(r)
  BY <1>12, <1>13, <1>16 DEF PaysItself
<1>18. ASSUME Covered(r, before) PROVE RouteBacked(r, pools, balance, before)
  <2>1. TokenIn(r) = token
    BY <1>12, <1>16 DEF TokenIn
  <2>2. before.balance[Sender][token] >= n
    BY <1>16, <1>18, <2>1 DEF Covered
  <2>3. balance = Transferred(before.balance, Sender, key, token, n)
    BY <1>4, <1>7, <1>8, <2>2 DEF Sent1
  <2>4. PICK side \in {0, 1} : side = Side(key, token) /\ key[side + 1] = token
    BY <1>8 DEF Side
  <2>5. /\ \A k \in PoolKeys : PoolBacked(k, pools, balance, before)
        /\ Spare(key, side, balance, pools[key]) >= Spare(key, side, before.balance, before.pools[key]) + n
    BY <1>4, <1>5, <2>3, <2>4, SentToPool
  <2>6. HasBeenSent(r, pools, balance, before)
    BY <1>12, <1>16, <2>4, <2>5 DEF HasBeenSent
  <2>7. StackKeys(r) = {} /\ DOMAIN r.stack = {}
    BY <1>16 DEF StackKeys
  <2> QED BY <1>16, <2>5, <2>6, <2>7 DEF RouteBacked
<1>19. Ends
  BY <1>15 DEF Ends
<1>20. CASE call' = None
  BY <1>19, <1>20 DEF Goes
<1>21. CASE call' # None
  BY <1>15, <1>17, <1>18, <1>19, <1>21 DEF Goes
<1> QED BY <1>20, <1>21

\* What has ended stays as it is, or is forgotten.
LEMMA EndedBacked ==
    ASSUME BackInv, Quiet
    PROVE  Ends
<1>1. CASE result' = None
  BY <1>1 DEF Ends
<1>2. CASE result' # None
  <2>1. result' = result /\ pools' = pools /\ balance' = balance /\ before' = before
    BY <1>2 DEF Quiet
  <2>2. result # None /\ result.ok /\ Covered(result.route, before) => AllBacked(pools, balance, before)
    BY DEF BackInv, EndedInv
  <2> QED BY <2>1, <2>2 DEF Ends
<1> QED BY <1>1, <1>2

\* What nothing happens to stays backed.
LEMMA QuietBacked ==
    ASSUME BackInv, Quiet
    PROVE  Goes /\ Ends
<1>1. CASE call = None
  <2>1. call' = None
    BY <1>1 DEF Quiet
  <2> QED BY <2>1, EndedBacked DEF Goes
<1>2. CASE call # None
  <2>1. call' = call /\ pools' = pools /\ balance' = balance /\ before' = before
    BY <1>2 DEF Quiet
  <2>2. PaysItself(call) /\ (Covered(call, before) => RouteBacked(call, pools, balance, before))
    BY <1>2 DEF BackInv, CoveredInv
  <2> QED BY <1>2, <2>1, <2>2, EndedBacked DEF Goes
<1> QED BY <1>1, <1>2

\* Each step leaves the pools backed.
LEMMA BackedStep ==
    ASSUME RouteIInv, BackInv, [Next]_vars
    PROVE  BackInv'
<1>1. TypesInv /\ RouteInv /\ EndsInv /\ CoveredInv
  BY DEF RouteIInv, BackInv
<1>2. Goes /\ Ends
  BY <1>1, RouteKept, RouteStepBacked, SwapAtPoolBacked, SenderStartsBacked, QuietBacked
<1>3. CoveredInv'
  BY <1>2 DEF Goes, CoveredInv
<1>4. EndedInv'
  BY <1>2 DEF Ends, EndedInv
<1> QED BY <1>3, <1>4 DEF BackInv

\* No swap along a path costs those who provide liquidity anything: whatever the prices,
\* fees and paths, each pool has as much beyond what it owes to its liquidity after the
\* route as before it, though SwapPool.swap rounds, stores its fee growth modulo 2^256 and
\* is paid by a callback that swaps at the pools further on. The invariant says what a pool
\* that waits has been promised, what one has that pays for itself, and that the rest of an
\* exact output goes through none of those that wait.
THEOREM RoutesBacked == Spec => []RoutesKeepPoolsBacked
<1>1. Init => BackInv
  BY DEF Init, RouterInit, BackInv, CoveredInv, EndedInv
<1>2. RouteIInv /\ BackInv /\ [Next]_vars => BackInv'
  BY BackedStep
<1>3. BackInv => RoutesKeepPoolsBacked
  <2> SUFFICES ASSUME BackInv, Completed, Route.exactInput \/ ~Repeats(Route.path), SwapsWhatWasSent,
                      NEW k \in PoolKeys, NEW side \in {0, 1}
               PROVE  balance[k][k[side + 1]] - Owed(pools, k, side)
                          >= before.balance[k][k[side + 1]] - Owed(before.pools, k, side)
    BY DEF RoutesKeepPoolsBacked
  <2>1. result # None /\ result.ok /\ Covered(result.route, before)
    BY DEF Completed, Covered, Route, SwapsWhatWasSent
  <2>2. PoolBacked(k, pools, balance, before)
    BY <2>1 DEF BackInv, EndedInv, AllBacked
  <2>3. Spare(k, side, balance, pools[k]) >= Spare(k, side, before.balance, before.pools[k])
    BY <2>2 DEF PoolBacked
  <2>4. \A p : Owed(p, k, side) = OwedBy(k, p[k], side)
    BY OwedIs
  <2> QED BY <2>3, <2>4 DEF Spare
<1> QED BY <1>1, <1>2, <1>3, RoutesInductive, PTL DEF Spec
===============================================================================
