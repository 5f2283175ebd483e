-------------------------- MODULE VaultMathLemmas ---------------------------
(***************************************************************************)
(* Facts about integer division and about the conversions of VaultMath,    *)
(* for every size of the integer type and every rate.                      *)
(***************************************************************************)
EXTENDS VaultMath, TLAPS

\* Division with remainder: what \div and % mean.
LEMMA DivRem ==
    ASSUME NEW n \in Nat, NEW d \in Nat \ {0}
    PROVE  /\ n \div d \in Nat
           /\ n % d \in 0 .. d - 1
           /\ n = (n \div d) * d + (n % d)
OBVIOUS

\* Multiplication by a natural number is monotone.
LEMMA MulMono ==
    ASSUME NEW a \in Int, NEW b \in Int, NEW c \in Nat, a <= b
    PROVE  a * c <= b * c
OBVIOUS

\* Multiplication by a positive number can be cancelled in an inequality.
LEMMA MulCancel ==
    ASSUME NEW a \in Int, NEW b \in Int, NEW c \in Nat \ {0}, a * c <= b * c
    PROVE  a <= b
<1>1. CASE b < a
    <2>1. b + 1 <= a
        BY <1>1
    <2>2. (b + 1) * c <= a * c
        BY <2>1, MulMono
    <2>3. (b + 1) * c = b * c + c
        OBVIOUS
    <2> QED
        BY <2>2, <2>3
<1> QED
    BY <1>1

LEMMA MulNat ==
    ASSUME NEW a \in Nat, NEW b \in Nat
    PROVE  a * b \in Nat
OBVIOUS

\* A quotient and a remainder below the denominator are the only ones.
LEMMA DivRemUnique ==
    ASSUME NEW n \in Nat, NEW d \in Nat \ {0},
           NEW q \in Int, NEW r \in 0 .. d - 1, n = q * d + r
    PROVE  q = n \div d /\ r = n % d
<1>1. PICK p \in Nat, s \in 0 .. d - 1 :
          p = n \div d /\ s = n % d /\ n = p * d + s
    BY DivRem
<1>2. ~(q < p)
    <2> SUFFICES ASSUME q + 1 <= p PROVE FALSE
        OBVIOUS
    <2>1. (q + 1) * d <= p * d
        BY MulMono
    <2>2. (q + 1) * d = q * d + d
        OBVIOUS
    <2> QED
        BY <1>1, <2>1, <2>2
<1>3. ~(p < q)
    <2> SUFFICES ASSUME p + 1 <= q PROVE FALSE
        OBVIOUS
    <2>1. (p + 1) * d <= q * d
        BY MulMono
    <2>2. (p + 1) * d = p * d + d
        OBVIOUS
    <2> QED
        BY <1>1, <2>1, <2>2
<1>4. p = q
    BY <1>2, <1>3
<1> QED
    BY <1>1, <1>4

\* The floor is the largest integer whose multiple fits below n ...
LEMMA DivFloor ==
    ASSUME NEW n \in Nat, NEW d \in Nat \ {0}
    PROVE  /\ (n \div d) * d <= n
           /\ n < (n \div d) * d + d
BY DivRem

\* ... so anything whose multiple fits is at most the floor.
LEMMA DivLargest ==
    ASSUME NEW n \in Nat, NEW d \in Nat \ {0}, NEW q \in Int, q * d <= n
    PROVE  q <= n \div d
<1>1. PICK p \in Nat : p = n \div d /\ n < p * d + d
    BY DivRem
<1>2. CASE p + 1 <= q
    <2>1. (p + 1) * d <= q * d
        BY <1>2, MulMono
    <2>2. (p + 1) * d = p * d + d
        OBVIOUS
    <2> QED
        BY <1>1, <2>1, <2>2
<1> QED
    BY <1>1, <1>2

-----------------------------------------------------------------------------
(***************************************************************************)
(* Conversions                                                             *)
(***************************************************************************)

\* Floor and ceiling of left * right / denominator, as inequalities.
LEMMA FloorCeil ==
    ASSUME NEW l \in Nat, NEW r \in Nat, NEW d \in Nat \ {0}
    PROVE  /\ MulDivFloor(l, r, d) \in Nat
           /\ MulDivFloor(l, r, d) * d <= l * r
           /\ l * r < MulDivFloor(l, r, d) * d + d
           /\ MulDivCeil(l, r, d) \in Nat
           /\ l * r <= MulDivCeil(l, r, d) * d
           /\ MulDivCeil(l, r, d) * d < l * r + d
<1>1. l * r \in Nat
    BY MulNat
<1>2. PICK q \in Nat, s \in 0 .. d - 1 :
          q = (l * r) \div d /\ s = (l * r) % d /\ l * r = q * d + s
    BY <1>1, DivRem
<1>3. MulDivFloor(l, r, d) = q
    BY <1>2 DEF MulDivFloor
<1>4. MulDivCeil(l, r, d) = IF s = 0 THEN q ELSE q + 1
    BY <1>2 DEF MulDivCeil, MulDivFloor, MulDivRem
<1>5. q * d \in Nat /\ (q + 1) * d = q * d + d
    BY MulNat
<1> QED
    BY <1>2, <1>3, <1>4, <1>5

\* simulated_yield_parts is exact: the whole units and the fraction it returns
\* are together the fraction it was given plus principal * rate * time.
LEMMA YieldPartsExact ==
    ASSUME NEW p \in Nat, NEW e \in Nat, NEW r \in 0 .. YieldDenom - 1
    PROVE  LET y == SimulatedYieldParts(p, e, r)
           IN  /\ y.amount \in Nat
               /\ y.rem \in 0 .. YieldDenom - 1
               /\ y.amount * YieldDenom + y.rem = p * (SimApyBps * e) + r
<1> DEFINE w == (p * (SimApyBps * e)) \div YieldDenom
           b == (p * (SimApyBps * e)) % YieldDenom
<1>1. p * (SimApyBps * e) \in Nat
    BY RateAssumption, MulNat
<1>2. /\ w \in Nat /\ b \in 0 .. YieldDenom - 1
      /\ p * (SimApyBps * e) = w * YieldDenom + b
    BY <1>1, RateAssumption, DivRem
<1>3. SimulatedYieldParts(p, e, r) =
          IF b >= YieldDenom - r
          THEN [amount |-> w + 1, rem |-> b - (YieldDenom - r)]
          ELSE [amount |-> w, rem |-> b + r]
    BY DEF SimulatedYieldParts, MulDivFloor, MulDivRem
<1>4. w * YieldDenom \in Nat /\ (w + 1) * YieldDenom = w * YieldDenom + YieldDenom
    BY <1>2, RateAssumption, MulNat
<1> HIDE DEF w, b
<1> QED
    BY <1>2, <1>3, <1>4, RateAssumption

\* The yield of a longer time is no less.
LEMMA YieldMonotone ==
    ASSUME NEW p \in Nat, NEW r \in 0 .. YieldDenom - 1,
           NEW e \in Nat, NEW f \in Nat, e <= f
    PROVE  SimulatedYieldParts(p, e, r).amount <= SimulatedYieldParts(p, f, r).amount
<1> DEFINE y == SimulatedYieldParts(p, e, r)
           z == SimulatedYieldParts(p, f, r)
<1>1. /\ y.amount \in Nat /\ y.rem \in 0 .. YieldDenom - 1
      /\ y.amount * YieldDenom + y.rem = p * (SimApyBps * e) + r
    BY YieldPartsExact
<1>2. /\ z.amount \in Nat /\ z.rem \in 0 .. YieldDenom - 1
      /\ z.amount * YieldDenom + z.rem = p * (SimApyBps * f) + r
    BY YieldPartsExact
<1> HIDE DEF y, z
<1>3. SimApyBps * e <= SimApyBps * f /\ SimApyBps * e \in Nat /\ SimApyBps * f \in Nat
    BY RateAssumption
<1>4. p * (SimApyBps * e) <= p * (SimApyBps * f)
    BY <1>3
<1>5. y.amount <= z.amount
    <2> SUFFICES ASSUME z.amount + 1 <= y.amount PROVE FALSE
        BY <1>1, <1>2
    <2>1. (z.amount + 1) * YieldDenom <= y.amount * YieldDenom
        BY <1>1, <1>2, RateAssumption, MulMono
    <2>2. (z.amount + 1) * YieldDenom = z.amount * YieldDenom + YieldDenom
        BY <1>2, RateAssumption
    <2>3. /\ z.amount * YieldDenom \in Int /\ y.amount * YieldDenom \in Int
          /\ p * (SimApyBps * e) \in Int /\ p * (SimApyBps * f) \in Int
        BY <1>1, <1>2, <1>3, RateAssumption
    <2> QED
        BY <1>1, <1>2, <1>4, <2>1, <2>2, <2>3, RateAssumption
<1> QED
    BY <1>5 DEF y, z

\* Two accruals in a row are one.
LEMMA YieldPartsCompose ==
    ASSUME NEW p \in Nat, NEW r \in 0 .. YieldDenom - 1, NEW e \in Nat, NEW f \in Nat
    PROVE  LET first  == SimulatedYieldParts(p, e, r)
               second == SimulatedYieldParts(p, f, first.rem)
               whole  == SimulatedYieldParts(p, e + f, r)
           IN  /\ first.amount + second.amount = whole.amount
               /\ second.rem = whole.rem
<1> DEFINE first  == SimulatedYieldParts(p, e, r)
           second == SimulatedYieldParts(p, f, first.rem)
           whole  == SimulatedYieldParts(p, e + f, r)
           m == SimApyBps * e
           n == SimApyBps * f
           t == SimApyBps * (e + f)
           total == p * t + r
<1>1. first.amount \in Nat /\ first.rem \in 0 .. YieldDenom - 1
      /\ first.amount * YieldDenom + first.rem = p * m + r
    BY YieldPartsExact
<1>2. second.amount \in Nat /\ second.rem \in 0 .. YieldDenom - 1
      /\ second.amount * YieldDenom + second.rem = p * n + first.rem
    <2> HIDE DEF first
    <2> QED
        BY <1>1, YieldPartsExact
<1>3. whole.amount \in Nat /\ whole.rem \in 0 .. YieldDenom - 1
      /\ whole.amount * YieldDenom + whole.rem = total
    <2>1. e + f \in Nat
        OBVIOUS
    <2> QED
        BY <2>1, YieldPartsExact
<1>4. m \in Nat /\ n \in Nat /\ t = m + n
    BY RateAssumption
<1> HIDE DEF first, second, whole, m, n, t
<1>5. p * t = p * m + p * n /\ p * m \in Nat /\ p * n \in Nat
    BY <1>4
<1>6. total \in Nat
    BY <1>5, RateAssumption
<1>7. (first.amount + second.amount) * YieldDenom
          = first.amount * YieldDenom + second.amount * YieldDenom
      /\ first.amount * YieldDenom \in Nat /\ second.amount * YieldDenom \in Nat
    BY <1>1, <1>2, RateAssumption
<1>8. total = (first.amount + second.amount) * YieldDenom + second.rem
    BY <1>1, <1>2, <1>5, <1>7, RateAssumption
<1> HIDE DEF total
<1>9. first.amount + second.amount = total \div YieldDenom
      /\ second.rem = total % YieldDenom
    <2> DEFINE q == first.amount + second.amount
    <2>1. q \in Int /\ total = q * YieldDenom + second.rem
        BY <1>1, <1>2, <1>8
    <2> HIDE DEF q
    <2>2. q = total \div YieldDenom /\ second.rem = total % YieldDenom
        BY <1>2, <1>6, <2>1, RateAssumption, DivRemUnique, Zenon
    <2> QED
        BY <2>2 DEF q
<1>10. whole.amount = total \div YieldDenom /\ whole.rem = total % YieldDenom
    <2>1. whole.amount \in Int /\ total = whole.amount * YieldDenom + whole.rem
        BY <1>3
    <2> QED
        BY <1>3, <1>6, <2>1, RateAssumption, DivRemUnique, Zenon
<1> QED
    BY <1>9, <1>10 DEF first, second, whole

-----------------------------------------------------------------------------
(***************************************************************************)
(* Conversions at a price of T assets for S shares                         *)
(***************************************************************************)

\* The largest number of shares whose worth the liquid tokens cover: the ceiling of
\* the smallest number they do not cover, less one.
LEMMA LargestPayable ==
    ASSUME NEW T \in Nat, NEW S \in Nat \ {0}, NEW L \in Nat \ {0}, S <= T, L < T
    PROVE  LET m == MulDivCeil(L + 1, S, T) - 1
           IN  /\ m \in 0 .. S - 1
               /\ MulDivFloor(m, T, S) <= L
               /\ MulDivFloor(m + 1, T, S) > L
<1> DEFINE c == MulDivCeil(L + 1, S, T)
<1>1. c \in Nat /\ (L + 1) * S <= c * T /\ c * T < (L + 1) * S + T
    <2>1. L + 1 \in Nat /\ T \in Nat \ {0}
        OBVIOUS
    <2> QED
        BY <2>1, FloorCeil
<1> HIDE DEF c
<1>2. c > 0
    <2>1. 1 * S <= (L + 1) * S
        BY MulMono
    <2>2. c = 0 => c * T = 0
        BY <1>1
    <2>3. (L + 1) * S \in Int
        OBVIOUS
    <2> QED
        BY <1>1, <2>1, <2>2, <2>3
<1>3. c <= S
    <2> SUFFICES ASSUME S + 1 <= c PROVE FALSE
        BY <1>1
    <2>1. (S + 1) * T <= c * T
        BY <1>1, MulMono
    <2>2. (L + 1) * S <= T * S
        BY MulMono
    <2>3. (S + 1) * T = T * S + T /\ T * S \in Int /\ (L + 1) * S \in Int /\ c * T \in Int
        BY <1>1
    <2> QED
        BY <1>1, <2>1, <2>2, <2>3
<1> DEFINE m == c - 1
           q == MulDivFloor(m, T, S)
           k == MulDivFloor(c, T, S)
<1>4. m \in 0 .. S - 1 /\ m \in Nat /\ m + 1 = c
    BY <1>1, <1>2, <1>3
<1>5. q \in Nat /\ q * S <= m * T /\ k \in Nat /\ c * T < k * S + S
    <2> HIDE DEF m
    <2> QED
        BY <1>1, <1>4, FloorCeil
<1>6. m * T = c * T - T /\ c * T \in Int /\ (L + 1) * S \in Int
    BY <1>1
<1> HIDE DEF m, q, k
<1>7. q <= L
    <2> SUFFICES ASSUME L + 1 <= q PROVE FALSE
        BY <1>5
    <2>1. (L + 1) * S <= q * S
        BY <1>5, MulMono
    <2>2. q * S \in Int
        BY <1>5
    <2> QED
        BY <1>1, <1>5, <1>6, <2>1, <2>2
<1>8. k > L
    <2> SUFFICES ASSUME k <= L PROVE FALSE
        BY <1>5
    <2>1. k * S <= L * S
        BY <1>5, MulMono
    <2>2. (L + 1) * S = L * S + S /\ k * S \in Int /\ L * S \in Int
        BY <1>5
    <2> QED
        BY <1>1, <1>5, <1>6, <2>1, <2>2
<1> QED
    BY <1>4, <1>7, <1>8 DEF c, m, q, k

\* Depositing at the price T / S and redeeming what is minted.
LEMMA DepositThenRedeem ==
    ASSUME NEW x \in Nat \ {0}, NEW s \in Nat \ {0}, NEW T \in Nat, NEW S \in Nat,
           s * T <= x * S
    PROVE  MulDivFloor(s, T + x, S + s) <= x
<1> DEFINE y == MulDivFloor(s, T + x, S + s)
<1>1. y \in Nat /\ y * (S + s) <= s * (T + x)
    <2>1. T + x \in Nat /\ S + s \in Nat \ {0}
        OBVIOUS
    <2> QED
        BY <2>1, FloorCeil
<1>2. s * (T + x) = s * T + s * x /\ x * (S + s) = x * S + x * s /\ x * s = s * x
    OBVIOUS
<1>3. /\ s * T \in Int /\ x * S \in Int /\ s * x \in Int
      /\ y * (S + s) \in Int /\ S + s \in Nat \ {0}
    BY <1>1
<1> HIDE DEF y
<1>4. y * (S + s) <= x * (S + s)
    BY <1>1, <1>2, <1>3
<1>5. y <= x
    BY <1>1, <1>3, <1>4, MulCancel
<1> QED
    BY <1>5 DEF y

\* Redeeming part of the supply and depositing what it pays.
LEMMA RedeemThenDeposit ==
    ASSUME NEW x \in Nat \ {0}, NEW S \in Nat, NEW s \in 1 .. S - 1, NEW T \in Nat,
           x * S <= s * T
    PROVE  /\ T - x > 0
           /\ MulDivFloor(x, S - s, T - x) <= s
<1>1. s \in Nat \ {0} /\ S - s \in Nat \ {0} /\ S \in Nat \ {0} /\ s < S
    OBVIOUS
<1>2. x < T
    <2> SUFFICES ASSUME T <= x PROVE FALSE
        OBVIOUS
    <2>1. T * S <= x * S
        BY MulMono
    <2>2. (s + 1) * T <= S * T
        BY <1>1, MulMono
    <2>3. (s + 1) * T = s * T + T /\ S * T = T * S /\ s * T \in Int /\ T * S \in Int
          /\ x * S \in Int
        BY <1>1
    <2>4. T <= 0
        BY <2>1, <2>2, <2>3
    <2>5. 1 * S <= x * S
        BY MulMono
    <2>6. T = 0 => s * T = 0
        BY <1>1
    <2> QED
        BY <1>1, <2>3, <2>4, <2>5, <2>6
<1> DEFINE y == MulDivFloor(x, S - s, T - x)
<1>3. T - x \in Nat \ {0}
    BY <1>2
<1>4. y \in Nat /\ y * (T - x) <= x * (S - s)
    BY <1>1, <1>3, FloorCeil
<1>5. x * (S - s) = x * S - x * s /\ s * (T - x) = s * T - s * x /\ s * x = x * s
    BY <1>1
<1>6. /\ s * T \in Int /\ x * S \in Int /\ s * x \in Int /\ y * (T - x) \in Int
    BY <1>1, <1>3, <1>4
<1> HIDE DEF y
<1>7. y * (T - x) <= s * (T - x)
    BY <1>4, <1>5, <1>6
<1>8. y <= s
    BY <1>1, <1>3, <1>4, <1>7, MulCancel
<1> QED
    BY <1>3, <1>8 DEF y
=============================================================================
