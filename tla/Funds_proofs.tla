--------------------------- MODULE Funds_proofs ---------------------------
(***************************************************************************)
(* Facts about the arithmetic of Funds, for every amount, percentage and   *)
(* precision of a double, and about sums of units over finite sets of      *)
(* rows, calls and orders.                                                 *)
(***************************************************************************)
EXTENDS Funds, Functions, FiniteSetTheorems, TLAPS

(* Multiplying by a natural keeps the order ...                            *)
LEMMA TimesMonotone ==
  ASSUME NEW d \in Nat, NEW x \in Int, NEW y \in Int, x <= y
  PROVE  d * x <= d * y
OBVIOUS

(* ... and a positive factor can be taken away.                            *)
LEMMA TimesCancels ==
  ASSUME NEW d \in Nat \ {0}, NEW x \in Int, NEW y \in Int, d * x < d * y
  PROVE  x < y
<1>1. ASSUME y <= x PROVE FALSE
  <2>1. d * y <= d * x
    BY <1>1, TimesMonotone
  <2>2. d * x \in Int /\ d * y \in Int
    OBVIOUS
  <2>. QED  BY <2>1, <2>2
<1>. QED  BY <1>1

(* A rounded quotient, by the inequalities that define it.                 *)
LEMMA RoundBounds ==
  ASSUME NEW k \in Int, NEW d \in Nat \ {0}
  PROVE  /\ Round(k, d) \in Int
         /\ 2 * (d * Round(k, d)) <= 2 * k + d
         /\ 2 * k + d < 2 * (d * Round(k, d)) + 2 * d
<1>1. ASSUME NEW a \in Int, NEW e \in Nat \ {0}
      PROVE  /\ a \div e \in Int
             /\ e * (a \div e) <= a
             /\ a < e * (a \div e) + e
  OBVIOUS
<1>2. 2 * d \in Nat \ {0} /\ 2 * k + d \in Int
  OBVIOUS
<1>3. /\ Round(k, d) \in Int
      /\ (2 * d) * Round(k, d) <= 2 * k + d
      /\ 2 * k + d < (2 * d) * Round(k, d) + 2 * d
  BY <1>1, <1>2 DEF Round
<1>. QED  BY <1>3

(* Rounding keeps the order.                                               *)
LEMMA RoundMonotone ==
  ASSUME NEW k \in Int, NEW l \in Int, k <= l, NEW d \in Nat \ {0}
  PROVE  Round(k, d) <= Round(l, d)
<1>. DEFINE q == Round(k, d)
            r == Round(l, d)
<1>1. /\ q \in Int /\ r \in Int
      /\ 2 * (d * q) <= 2 * k + d
      /\ 2 * l + d < 2 * (d * r) + 2 * d
  BY RoundBounds
<1>. HIDE DEF q, r
<1>2. d * (r + 1) = d * r + d /\ d * q \in Int /\ d * r \in Int /\ r + 1 \in Int
  BY <1>1
<1>3. d * q < d * (r + 1)
  BY <1>1, <1>2
<1>. QED  BY <1>1, <1>2, <1>3, TimesCancels DEF q, r

(* A multiple of the divisor needs no rounding, and moves through it.      *)
LEMMA RoundPlus ==
  ASSUME NEW m \in Int, NEW k \in Int, NEW d \in Nat \ {0}
  PROVE  Round(m * d + k, d) = m + Round(k, d)
<1>. DEFINE q == Round(m * d + k, d)
            r == Round(k, d)
<1>1. m * d + k \in Int
  OBVIOUS
<1>2. /\ q \in Int /\ r \in Int
      /\ 2 * (d * q) <= 2 * (m * d + k) + d
      /\ 2 * (m * d + k) + d < 2 * (d * q) + 2 * d
      /\ 2 * (d * r) <= 2 * k + d
      /\ 2 * k + d < 2 * (d * r) + 2 * d
  BY <1>1, RoundBounds
<1>. HIDE DEF q, r
<1>3. /\ d * (m + r + 1) = m * d + d * r + d
      /\ d * (q + 1) = d * q + d
      /\ d * (m + r) = m * d + d * r
      /\ m * d \in Int /\ d * q \in Int /\ d * r \in Int
  BY <1>2
<1>4. d * q < d * (m + r + 1) /\ d * (m + r) < d * (q + 1)
  BY <1>2, <1>3
<1>5. q < m + r + 1 /\ m + r < q + 1
  <2>1. m + r + 1 \in Int /\ m + r \in Int /\ q + 1 \in Int
    BY <1>2
  <2>. QED  BY <1>2, <1>4, <2>1, TimesCancels
<1>. QED  BY <1>2, <1>5 DEF q, r

LEMMA RoundWhole ==
  ASSUME NEW m \in Int, NEW d \in Nat \ {0}
  PROVE  Round(m * d, d) = m
<1>1. Round(0, d) = 0
  <2>. DEFINE r == Round(0, d)
  <2>1. r \in Int /\ 2 * (d * r) <= d /\ d < 2 * (d * r) + 2 * d
    BY RoundBounds
  <2>. HIDE DEF r
  <2>2. d * 1 = d /\ d * (r + 1) = d * r + d /\ d * r \in Int /\ d * 0 = 0
    BY <2>1
  <2>3. d * r < d * 1 /\ d * 0 < d * (r + 1)
    BY <2>1, <2>2
  <2>4. r < 1 /\ 0 < r + 1
    BY <2>1, <2>3, TimesCancels
  <2>. QED  BY <2>1, <2>4 DEF r
<1>2. m * d + 0 = m * d
  OBVIOUS
<1>. QED  BY <1>1, <1>2, RoundPlus

----------------------------------------------------------------------------
(* toNumber().                                                             *)

LEMMA ToNumberFine ==
  ASSUME FundsAssumption, NEW k \in Int, k <= Exact * Whole
  PROVE  ToNumber(k) = Round(k, Whole) /\ ToNumber(k) \in Int
<1>1. Whole \in Nat \ {0}
  BY DEF FundsAssumption
<1>. QED  BY <1>1, RoundBounds DEF ToNumber, Grain

LEMMA ToNumberCoarse ==
  ASSUME FundsAssumption, NEW k \in Int, ~(k <= Exact * Whole)
  PROVE  /\ ToNumber(k) = Spacing * Round(k, Spacing * Whole)
         /\ Spacing * Whole \in Nat \ {0}
         /\ ToNumber(k) \in Int
<1>1. Spacing * Whole \in Nat \ {0} /\ Spacing \in Nat
  BY DEF FundsAssumption
<1>2. ToNumber(k) = Spacing * Round(k, Spacing * Whole)
  BY DEF ToNumber, Grain
<1>. DEFINE d == Spacing * Whole
<1>. HIDE DEF d
<1>3. Round(k, d) \in Int
  BY <1>1, RoundBounds DEF d
<1>4. Spacing * Round(k, d) \in Int
  BY <1>1, <1>3
<1>. QED  BY <1>1, <1>2, <1>4 DEF d

(* The amounts on one side of Exact stay there.                            *)
LEMMA ToNumberSides ==
  ASSUME FundsAssumption, NEW k \in Int
  PROVE  IF k <= Exact * Whole THEN ToNumber(k) <= Exact ELSE Exact <= ToNumber(k)
<1>1. Whole \in Nat \ {0} /\ Spacing \in Nat \ {0} /\ Exact \in Nat
  BY DEF FundsAssumption
<1>2. Exact * Whole \in Int
  BY <1>1
<1>3. CASE k <= Exact * Whole
  <2>1. Round(k, Whole) <= Exact
    BY <1>1, <1>2, <1>3, RoundMonotone, RoundWhole
  <2>. QED  BY <1>3, <2>1, ToNumberFine
<1>4. CASE ~(k <= Exact * Whole)
  <2>1. PICK n \in Nat : Exact = Spacing * n
    BY DEF FundsAssumption
  <2>. DEFINE d == Spacing * Whole
              r == Round(k, d)
  <2>2. d \in Nat \ {0} /\ ToNumber(k) = Spacing * r
    BY <1>4, ToNumberCoarse
  <2>3. n * d = Exact * Whole
    BY <1>1, <2>1
  <2>. HIDE DEF d
  <2>4. r \in Int /\ Round(n * d, d) <= r
    <3>1. n * d \in Int /\ n * d <= k
      BY <1>2, <1>4, <2>3
    <3>. QED  BY <2>2, <3>1, RoundMonotone, RoundBounds
  <2>5. n <= r
    BY <2>2, <2>4, RoundWhole
  <2>. HIDE DEF r
  <2>6. Spacing * n <= Spacing * r
    BY <1>1, <2>4, <2>5, TimesMonotone
  <2>. QED  BY <1>4, <2>1, <2>2, <2>6
<1>. QED  BY <1>3, <1>4

(* toNumber keeps the order of amounts ...                                 *)
LEMMA ToNumberMonotone ==
  ASSUME FundsAssumption, NEW k \in Int, NEW l \in Int, k <= l
  PROVE  ToNumber(k) <= ToNumber(l)
<1>1. Whole \in Nat \ {0} /\ Spacing \in Nat \ {0} /\ Exact * Whole \in Int /\ Exact \in Nat
  BY DEF FundsAssumption
<1>2. CASE l <= Exact * Whole
  BY <1>1, <1>2, ToNumberFine, RoundMonotone
<1>3. CASE ~(k <= Exact * Whole)
  <2>. DEFINE d == Spacing * Whole
              q == Round(k, d)
              r == Round(l, d)
  <2>1. ~(l <= Exact * Whole)
    BY <1>1, <1>3
  <2>2. d \in Nat \ {0} /\ ToNumber(k) = Spacing * q /\ ToNumber(l) = Spacing * r
    BY <1>3, <2>1, ToNumberCoarse
  <2>. HIDE DEF d
  <2>3. q \in Int /\ r \in Int /\ q <= r
    BY <2>2, RoundMonotone, RoundBounds
  <2>. HIDE DEF q, r
  <2>. QED  BY <1>1, <2>2, <2>3, TimesMonotone
<1>4. CASE k <= Exact * Whole /\ ~(l <= Exact * Whole)
  <2>1. ToNumber(k) <= Exact /\ Exact <= ToNumber(l)
    BY <1>4, ToNumberSides
  <2>2. ToNumber(k) \in Int /\ ToNumber(l) \in Int
    BY <1>4, ToNumberFine, ToNumberCoarse
  <2>. QED  BY <1>1, <2>1, <2>2
<1>. QED  BY <1>2, <1>3, <1>4

(* ... and what it returns survives it again.                              *)
LEMMA ToNumberIsStored ==
  ASSUME FundsAssumption, NEW k \in Int
  PROVE  ToNumber(k) \in Int /\ Stored(ToNumber(k))
<1>1. Whole \in Nat \ {0} /\ Spacing \in Nat \ {0} /\ Exact \in Nat
  BY DEF FundsAssumption
<1>. DEFINE n == ToNumber(k)
<1>2. n \in Int
  BY ToNumberFine, ToNumberCoarse
<1>3. ASSUME n <= Exact PROVE Stored(n)
  <2>. HIDE DEF n
  <2>1. n * Whole \in Int /\ n * Whole <= Exact * Whole
    <3>1. Whole * n <= Whole * Exact
      BY <1>1, <1>2, <1>3, TimesMonotone
    <3>. QED  BY <1>1, <1>2, <3>1
  <2>. QED  BY <1>1, <1>2, <2>1, ToNumberFine, RoundWhole DEF Stored
<1>4. ASSUME ~(n <= Exact) PROVE Stored(n)
  <2>. DEFINE d == Spacing * Whole
              m == Round(k, d)
  <2>1. ~(k <= Exact * Whole)
    BY <1>4, ToNumberSides
  <2>2. d \in Nat \ {0} /\ n = Spacing * m
    BY <2>1, ToNumberCoarse
  <2>3. m \in Int
    BY <2>2, RoundBounds
  <2>. HIDE DEF m, n
  <2>4. n * Whole = m * d
    BY <1>1, <2>2, <2>3
  <2>5. n * Whole \in Int /\ ~(n * Whole <= Exact * Whole)
    <3>1. ASSUME Whole * n <= Whole * Exact PROVE FALSE
      <4>1. Whole * n < Whole * (Exact + 1)
        BY <1>1, <1>2, <3>1
      <4>2. n < Exact + 1
        BY <1>1, <1>2, <4>1, TimesCancels
      <4>. QED  BY <1>1, <1>2, <1>4, <4>2
    <3>. QED  BY <1>1, <1>2, <3>1
  <2>6. ToNumber(n * Whole) = Spacing * Round(n * Whole, d)
    BY <2>5, ToNumberCoarse
  <2>. HIDE DEF d
  <2>7. Round(n * Whole, d) = m
    BY <2>2, <2>3, <2>4, RoundWhole
  <2>. QED  BY <2>2, <2>6, <2>7 DEF Stored
<1>. QED  BY <1>2, <1>3, <1>4

(* Zero is stored, so no amount turns negative.                            *)
LEMMA ToNumberNat ==
  ASSUME FundsAssumption
  PROVE  Stored(0) /\ \A k \in Nat : ToNumber(k) \in Nat
<1>1. Whole \in Nat \ {0} /\ 0 <= Exact * Whole /\ 0 * Whole = 0
  BY DEF FundsAssumption
<1>2. ToNumber(0) = 0
  <2>1. ToNumber(0) = Round(0, Whole)
    BY <1>1, ToNumberFine
  <2>2. Round(0 * Whole, Whole) = 0
    BY <1>1, RoundWhole
  <2>. QED  BY <1>1, <2>1, <2>2
<1>. QED  BY <1>1, <1>2, ToNumberMonotone, ToNumberIsStored DEF Stored

(* How far it can be from the exact amount: half a spacing.                *)
LEMMA ToNumberNear ==
  ASSUME FundsAssumption, NEW k \in Int
  PROVE  /\ 2 * (Whole * ToNumber(k)) <= 2 * k + Whole * Spacing
         /\ 2 * k <= 2 * (Whole * ToNumber(k)) + Whole * Spacing
<1>1. Whole \in Nat \ {0} /\ Spacing \in Nat \ {0}
  BY DEF FundsAssumption
<1>2. CASE k <= Exact * Whole
  <2>. DEFINE r == Round(k, Whole)
  <2>1. /\ r \in Int /\ ToNumber(k) = r
        /\ 2 * (Whole * r) <= 2 * k + Whole
        /\ 2 * k + Whole < 2 * (Whole * r) + 2 * Whole
    BY <1>1, <1>2, ToNumberFine, RoundBounds
  <2>2. Whole * 1 <= Whole * Spacing
    BY <1>1, TimesMonotone
  <2>. HIDE DEF r
  <2>3. Whole * r \in Int /\ Whole * Spacing \in Int /\ Whole * 1 = Whole
    BY <1>1, <2>1
  <2>. QED  BY <1>1, <2>1, <2>2, <2>3
<1>3. CASE ~(k <= Exact * Whole)
  <2>. DEFINE d == Spacing * Whole
              r == Round(k, d)
  <2>1. d \in Nat \ {0} /\ ToNumber(k) = Spacing * r
    BY <1>3, ToNumberCoarse
  <2>2. r \in Int /\ 2 * (d * r) <= 2 * k + d /\ 2 * k + d < 2 * (d * r) + 2 * d
    BY <2>1, RoundBounds
  <2>. HIDE DEF r
  <2>3. d * r = Whole * (Spacing * r) /\ d = Whole * Spacing /\ d * r \in Int
    BY <1>1, <2>2
  <2>. QED  BY <2>1, <2>2, <2>3
<1>. QED  BY <1>2, <1>3

(* A column that grows by x parts grows by what x is as a double, give or  *)
(* take a spacing, and by just that as long as it stays below Exact.       *)
LEMMA GrowthIsAsked ==
  ASSUME FundsAssumption, NEW l \in Nat, NEW x \in Nat
  PROVE  LET n == ToNumber(l * Whole + x)
             t == ToNumber(x)
         IN  /\ n - l <= t + Spacing
             /\ t <= n - l + Spacing
             /\ n < Exact => n = l + t
<1>. DEFINE k == l * Whole + x
            n == ToNumber(k)
            t == ToNumber(x)
<1>1. /\ Whole \in Nat \ {0} /\ Spacing \in Nat \ {0} /\ Exact \in Nat
      /\ Exact * Whole \in Int /\ Whole * Spacing \in Int
  BY DEF FundsAssumption
<1>2. k \in Int /\ x <= k
  BY <1>1
<1>3. /\ n \in Int /\ t \in Int
      /\ 2 * (Whole * n) <= 2 * k + Whole * Spacing
      /\ 2 * k <= 2 * (Whole * n) + Whole * Spacing
      /\ 2 * (Whole * t) <= 2 * x + Whole * Spacing
      /\ 2 * x <= 2 * (Whole * t) + Whole * Spacing
  <2>. HIDE DEF k
  <2>1. x \in Int
    OBVIOUS
  <2>. QED  BY <1>2, <2>1, ToNumberNear, ToNumberIsStored
<1>4. n < Exact => n = l + t
  <2>. SUFFICES ASSUME n < Exact PROVE n = l + t
    OBVIOUS
  <2>1. k <= Exact * Whole /\ x <= Exact * Whole
    <3>1. k <= Exact * Whole
      <4>1. ~(k <= Exact * Whole) => Exact <= n
        BY <1>2, ToNumberSides
      <4>. HIDE DEF k, n
      <4>. QED  BY <1>1, <1>3, <4>1
    <3>. HIDE DEF k
    <3>. QED  BY <1>1, <1>2, <3>1
  <2>2. n = Round(k, Whole) /\ t = Round(x, Whole)
    <3>. HIDE DEF k
    <3>. QED  BY <1>1, <1>2, <2>1, ToNumberFine
  <2>. QED  BY <1>1, <2>2, RoundPlus
<1>. HIDE DEF n, t
<1>5. /\ Whole * (n - l) = Whole * n - l * Whole
      /\ Whole * (t + Spacing + 1) = Whole * t + Whole * Spacing + Whole
      /\ Whole * (n - l + Spacing + 1) = Whole * n - l * Whole + Whole * Spacing + Whole
      /\ Whole * n \in Int /\ Whole * t \in Int /\ l * Whole \in Int
  BY <1>1, <1>3
<1>6. /\ Whole * (n - l) < Whole * (t + Spacing + 1)
      /\ Whole * t < Whole * (n - l + Spacing + 1)
  BY <1>1, <1>3, <1>5 DEF k
<1>7. n - l < t + Spacing + 1 /\ t < n - l + Spacing + 1
  BY <1>1, <1>3, <1>6, TimesCancels
<1>. QED  BY <1>1, <1>3, <1>4, <1>7 DEF n, t

(* So does a balance that grows by a whole number of units.                *)
LEMMA ChargeIsAsked ==
  ASSUME FundsAssumption, NEW l \in Nat, NEW a \in Nat
  PROVE  LET n == ToNumber((l + a) * Whole)
         IN  /\ n - l <= a + Spacing
             /\ a <= n - l + Spacing
             /\ n < Exact => n = l + a
<1>. DEFINE k == (l + a) * Whole
            n == ToNumber(k)
<1>1. /\ Whole \in Nat \ {0} /\ Spacing \in Nat \ {0} /\ Exact \in Nat
      /\ Whole * Spacing \in Nat
  BY DEF FundsAssumption
<1>2. k \in Int
  BY <1>1
<1>3. /\ n \in Int
      /\ 2 * (Whole * n) <= 2 * k + Whole * Spacing
      /\ 2 * k <= 2 * (Whole * n) + Whole * Spacing
  <2>. HIDE DEF k
  <2>. QED  BY <1>2, ToNumberNear, ToNumberIsStored
<1>4. n < Exact => n = l + a
  <2>. SUFFICES ASSUME n < Exact PROVE n = l + a
    OBVIOUS
  <2>1. k <= Exact * Whole
    <3>1. ~(k <= Exact * Whole) => Exact <= n
      BY <1>2, ToNumberSides
    <3>. HIDE DEF k, n
    <3>. QED  BY <1>1, <1>3, <3>1
  <2>2. n = Round(k, Whole)
    <3>. HIDE DEF k
    <3>. QED  BY <1>1, <1>2, <2>1, ToNumberFine
  <2>3. l + a \in Int
    OBVIOUS
  <2>. QED  BY <1>1, <2>2, <2>3, RoundWhole
<1>. HIDE DEF n
<1>5. /\ Whole * n \in Int /\ k = Whole * (l + a) /\ Whole * (l + a) \in Int
      /\ Whole * (l + a + Spacing + 1) = Whole * (l + a) + Whole * Spacing + Whole
      /\ Whole * (n + Spacing + 1) = Whole * n + Whole * Spacing + Whole
  BY <1>1, <1>3
<1>. HIDE DEF k
<1>6. /\ Whole * n < Whole * (l + a + Spacing + 1)
      /\ Whole * (l + a) < Whole * (n + Spacing + 1)
  BY <1>1, <1>3, <1>5
<1>7. n < l + a + Spacing + 1 /\ l + a < n + Spacing + 1
  BY <1>1, <1>3, <1>6, TimesCancels
<1>. QED  BY <1>1, <1>3, <1>4, <1>7 DEF n, k

(* A valid percentage of what is available is no more than all of it.      *)
LEMMA ShareBounds ==
  ASSUME FundsAssumption, NEW a \in Nat, NEW p \in Int, ValidPercent(p)
  PROVE  ShareOf(a, p) \in 0 .. a * Whole
<1>1. Whole \in Nat \ {0} /\ p \in Nat /\ p <= Whole
  BY DEF FundsAssumption, ValidPercent
<1>2. a * p \in Nat /\ a * p <= a * Whole /\ a * Whole \in Nat
  BY <1>1, TimesMonotone
<1>. QED  BY <1>2 DEF ShareOf

(* What is added to a column that is stored only adds to it ...            *)
LEMMA GainOnlyAdds ==
  ASSUME FundsAssumption, NEW b \in Int, Stored(b), NEW x \in Nat
  PROVE  LET n == ToNumber(b * Whole + x)
         IN  n \in Int /\ Stored(n) /\ b <= n
<1>. DEFINE k == b * Whole + x
<1>1. b * Whole \in Int /\ k \in Int /\ b * Whole <= k
  BY DEF FundsAssumption
<1>. HIDE DEF k
<1>2. ToNumber(b * Whole) <= ToNumber(k)
  BY <1>1, ToNumberMonotone
<1>. QED  BY <1>1, <1>2, ToNumberIsStored DEF Stored, k

(* ... and a reservation, however it rounds, never takes the locked        *)
(* balance beyond a balance that is stored.                                *)
LEMMA ReserveStaysBelow ==
  ASSUME FundsAssumption, NEW b \in Int, Stored(b), NEW l \in Int, Stored(l), l <= b,
         NEW x \in 0 .. (b - l) * Whole
  PROVE  LET n == ToNumber(l * Whole + x)
         IN  n \in Int /\ Stored(n) /\ l <= n /\ n <= b
<1>. DEFINE k == l * Whole + x
            n == ToNumber(k)
<1>1. Whole \in Nat \ {0}
  BY DEF FundsAssumption
<1>2. (b - l) * Whole = b * Whole - l * Whole /\ b * Whole \in Int /\ l * Whole \in Int
  BY <1>1
<1>3. x \in Nat /\ x <= (b - l) * Whole
  BY <1>2
<1>4. k \in Int /\ k <= b * Whole
  BY <1>2, <1>3
<1>5. n \in Int /\ Stored(n) /\ l <= n
  BY <1>3, GainOnlyAdds
<1>. HIDE DEF k
<1>6. n <= ToNumber(b * Whole)
  BY <1>2, <1>4, ToNumberMonotone
<1>7. n <= b
  BY <1>6 DEF Stored
<1>. HIDE DEF n
<1>. QED  BY <1>5, <1>7 DEF n, k

(* The rows of the wallet service hold natural numbers of units.           *)
LEMMA ReserveStaysWithin ==
  ASSUME FundsAssumption, NEW b \in Nat, Stored(b), NEW l \in Nat, Stored(l), l <= b,
         NEW x \in 0 .. (b - l) * Whole
  PROVE  LET n == ToNumber(l * Whole + x)
         IN  n \in Nat /\ Stored(n) /\ l <= n /\ n <= b
<1>. DEFINE n == ToNumber(l * Whole + x)
<1>1. b \in Int /\ l \in Int
  OBVIOUS
<1>2. n \in Int /\ Stored(n) /\ l <= n /\ n <= b
  BY <1>1, ReserveStaysBelow
<1>. HIDE DEF n
<1>. QED  BY <1>2 DEF n

(* A charge only adds to a balance.                                        *)
LEMMA ChargeOnlyAdds ==
  ASSUME FundsAssumption, NEW b \in Int, Stored(b), NEW a \in Nat
  PROVE  LET n == ToNumber((b + a) * Whole)
         IN  n \in Int /\ Stored(n) /\ b <= n
<1>. DEFINE n == ToNumber((b + a) * Whole)
<1>1. (b + a) * Whole = b * Whole + a * Whole /\ a * Whole \in Nat
  BY DEF FundsAssumption
<1>. DEFINE x == a * Whole
<1>. HIDE DEF x
<1>2. LET m == ToNumber(b * Whole + x) IN m \in Int /\ Stored(m) /\ b <= m
  BY <1>1, GainOnlyAdds DEF x
<1>3. n \in Int /\ Stored(n) /\ b <= n
  BY <1>1, <1>2 DEF x
<1>. HIDE DEF n
<1>. QED  BY <1>3 DEF n

(* What a column has grown by is what a call asked for, give or take one   *)
(* spacing of the doubles, and just that below Exact.                      *)
Grows(old, new, n) ==
  /\ old <= new
  /\ new - old <= n + Spacing /\ n <= new - old + Spacing
  /\ new < Exact => new = old + n

LEMMA ChargeGrows ==
  ASSUME FundsAssumption, NEW b \in Nat, Stored(b), NEW n \in Nat
  PROVE  LET m == ToNumber((b + n) * Whole)
         IN  m \in Nat /\ Stored(m) /\ Grows(b, m, n)
<1>. DEFINE m == ToNumber((b + n) * Whole)
<1>1. m \in Nat /\ Stored(m) /\ b <= m
  <2>1. b \in Int
    OBVIOUS
  <2>2. m \in Int /\ Stored(m) /\ b <= m
    BY <2>1, ChargeOnlyAdds
  <2>. HIDE DEF m
  <2>. QED  BY <2>2
<1>2. /\ m - b <= n + Spacing /\ n <= m - b + Spacing
      /\ m < Exact => m = b + n
  BY ChargeIsAsked
<1>. HIDE DEF m
<1>3. Grows(b, m, n)
  BY <1>1, <1>2 DEF Grows
<1>. QED  BY <1>1, <1>3 DEF m

LEMMA ReserveGrows ==
  ASSUME FundsAssumption, NEW b \in Nat, Stored(b), NEW l \in Nat, Stored(l), l <= b,
         NEW x \in 0 .. (b - l) * Whole
  PROVE  LET m == ToNumber(l * Whole + x)
         IN  /\ m \in Nat /\ Stored(m) /\ m <= b
             /\ ToNumber(x) \in Nat /\ Grows(l, m, ToNumber(x))
<1>. DEFINE m == ToNumber(l * Whole + x)
<1>1. x \in Nat /\ ToNumber(x) \in Nat
  <2>1. Whole \in Nat \ {0}
    BY DEF FundsAssumption
  <2>2. (b - l) * Whole \in Int
    BY <2>1
  <2>3. x \in Nat
    BY <2>2
  <2>. QED  BY <2>3, ToNumberNat
<1>2. m \in Nat /\ Stored(m) /\ l <= m /\ m <= b
  BY ReserveStaysWithin
<1>3. /\ m - l <= ToNumber(x) + Spacing /\ ToNumber(x) <= m - l + Spacing
      /\ m < Exact => m = l + ToNumber(x)
  BY <1>1, GrowthIsAsked
<1>. HIDE DEF m
<1>4. Grows(l, m, ToNumber(x))
  BY <1>2, <1>3 DEF Grows
<1>. QED  BY <1>1, <1>2, <1>4 DEF m

(* What is held drifts from what is due by one spacing for each call, and  *)
(* more calls may drift further.                                           *)
InDrift(held, due, n) ==
  held <= due + Spacing * n /\ due <= held + Spacing * n

LEMMA DriftGrows ==
  ASSUME FundsAssumption,
         NEW held \in Int, NEW due \in Int, NEW n \in Nat, InDrift(held, due, n),
         NEW x \in Int, NEW y \in Int, NEW z \in {0, 1},
         IF z = 1 THEN x <= y + Spacing /\ y <= x + Spacing ELSE x = y
  PROVE  InDrift(held + x, due + y, n + z)
<1>1. Spacing \in Nat \ {0}
  BY DEF FundsAssumption
<1>2. Spacing * (n + 0) = Spacing * n /\ Spacing * (n + 1) = Spacing * n + Spacing
      /\ Spacing * n \in Nat
  BY <1>1
<1>. QED  BY <1>1, <1>2 DEF InDrift

----------------------------------------------------------------------------
(* Sums.  SumFunctionOnSet takes some element of the set, and goes on with *)
(* the rest.  What it computes is the same whatever element is taken: the  *)
(* proofs look at a smallest set for which that fails.                     *)
\* The element the sum takes first, and the equation its CHOOSE solves.
Pick(s) == CHOOSE x \in s : TRUE

SumsOf(g, f, S) ==
  g = [s \in SUBSET S |-> IF s = {} THEN 0 ELSE f[Pick(s)] + g[s \ {Pick(s)}]]

(* A sum is read off a function on the subsets of its set.                 *)
LEMMA SumIs ==
  ASSUME NEW f, NEW S
  PROVE  SumFunctionOnSet(f, S) = (CHOOSE g : SumsOf(g, f, S))[S]
BY DEF SumFunctionOnSet, FoldFunctionOnSet, MapThenFoldSet, SumsOf, Pick

(* The element that is taken is one of the set.                            *)
LEMMA PickIs == ASSUME NEW s, s # {} PROVE Pick(s) \in s
BY DEF Pick

(* A property of the subsets of a finite set that fails for one of them    *)
(* has a smallest failure.                                                 *)
LEMMA SmallestSet ==
  ASSUME NEW S, IsFiniteSet(S), NEW W \in SUBSET SUBSET S, W # {}
  PROVE  \E T \in W : \A U \in SUBSET T : U # T => U \notin W
<1>1. IsWellFoundedOn(StrictSubsetOrdering(S), SUBSET S)
  BY FS_StrictSubsetOrderingWellFounded, FS_FiniteSubsetsOfFinite
<1>2. PICK T \in W : \A U \in W : <<U, T>> \notin StrictSubsetOrdering(S)
  BY <1>1, WFMin
<1>3. ASSUME NEW U \in SUBSET T, U # T, U \in W PROVE FALSE
  BY <1>2, <1>3 DEF StrictSubsetOrdering
<1>. QED  BY <1>3

(* One step of the recursion.                                              *)
LEMMA SumsOfEquation ==
  ASSUME NEW f, NEW S, NEW g, SumsOf(g, f, S), NEW s \in SUBSET S
  PROVE  g[s] = IF s = {} THEN 0 ELSE f[Pick(s)] + g[s \ {Pick(s)}]
BY DEF SumsOf

(* There is at most one function that solves the equation ...              *)
LEMMA SumsAgree ==
  ASSUME NEW f, NEW S, IsFiniteSet(S), NEW T, IsFiniteSet(T),
         NEW g, SumsOf(g, f, S), NEW h, SumsOf(h, f, T)
  PROVE  \A s \in SUBSET (S \cap T) : g[s] = h[s]
<1>. DEFINE W == {s \in SUBSET (S \cap T) : g[s] # h[s]}
<1>. SUFFICES ASSUME W # {} PROVE FALSE
  OBVIOUS
<1>1. IsFiniteSet(S \cap T)
  BY FS_Subset
<1>2. PICK s \in W : \A U \in SUBSET s : U # s => U \notin W
  <2>1. W \in SUBSET SUBSET (S \cap T)
    OBVIOUS
  <2>. HIDE DEF W
  <2>. QED  BY <1>1, <2>1, SmallestSet
<1>3. s # {}
  BY SumsOfEquation
<1>4. Pick(s) \in s
  BY <1>3, PickIs
<1>. DEFINE r == s \ {Pick(s)}
<1>5. g[r] = h[r]
  BY <1>2, <1>4
<1>6. g[s] = f[Pick(s)] + g[r] /\ h[s] = f[Pick(s)] + h[r]
  BY <1>3, SumsOfEquation
<1>. QED  BY <1>2, <1>5, <1>6

(* ... and there is one.                                                   *)
LEMMA SumsExist ==
  ASSUME NEW f, NEW S, IsFiniteSet(S)
  PROVE  \E g : SumsOf(g, f, S)
<1>. DEFINE W == {T \in SUBSET S : ~ \E g : SumsOf(g, f, T)}
<1>. SUFFICES ASSUME W # {} PROVE FALSE
  BY DEF W
<1>1. PICK T \in W : \A U \in SUBSET T : U # T => U \notin W
  <2>1. W \in SUBSET SUBSET S
    OBVIOUS
  <2>. HIDE DEF W
  <2>. QED  BY <2>1, SmallestSet
<1>. DEFINE G(U) == CHOOSE g : SumsOf(g, f, U)
            h == [U \in SUBSET T |->
                    IF U = {} THEN 0
                    ELSE f[Pick(U)] + G(U \ {Pick(U)})[U \ {Pick(U)}]]
<1>2. \A U \in SUBSET T : U # T => SumsOf(G(U), f, U)
  BY <1>1
<1>. HIDE DEF G
<1>3. \A U \in SUBSET T : IsFiniteSet(U)
  BY FS_Subset
<1>4. ASSUME NEW U \in SUBSET T, U # T PROVE h[U] = G(U)[U]
  <2>1. CASE U = {}
    BY <1>2, <1>4, <2>1, SumsOfEquation
  <2>2. CASE U # {}
    <3>. DEFINE p == Pick(U)
                V == U \ {p}
    <3>1. p \in U
      BY <2>2, PickIs
    <3>2. G(U)[U] = f[p] + G(U)[V]
      BY <1>2, <1>4, <2>2, SumsOfEquation
    <3>3. V \in SUBSET U /\ V # T /\ V \in SUBSET T
      BY <3>1
    <3>4. G(U)[V] = G(V)[V]
      <4>1. SumsOf(G(U), f, U) /\ SumsOf(G(V), f, V)
        BY <1>2, <1>4, <3>3
      <4>2. V \in SUBSET (U \cap V)
        BY <3>3
      <4>. HIDE DEF V
      <4>. QED  BY <1>3, <3>3, <4>1, <4>2, SumsAgree
    <3>. QED  BY <2>2, <3>2, <3>4
  <2>. QED  BY <2>1, <2>2
<1>5. SumsOf(h, f, T)
  <2>. SUFFICES ASSUME NEW U \in SUBSET T
                PROVE  h[U] = IF U = {} THEN 0 ELSE f[Pick(U)] + h[U \ {Pick(U)}]
    BY DEF SumsOf
  <2>1. CASE U = {}
    BY <2>1
  <2>2. CASE U # {}
    <3>1. Pick(U) \in U
      BY <2>2, PickIs
    <3>2. h[U \ {Pick(U)}] = G(U \ {Pick(U)})[U \ {Pick(U)}]
      BY <1>4, <3>1
    <3>. QED  BY <2>2, <3>2
  <2>. QED  BY <2>1, <2>2
<1>. QED  BY <1>1, <1>5

(* The sum over a finite set is the one taken element by element.          *)
LEMMA SumTakesPick ==
  ASSUME NEW f, NEW S, IsFiniteSet(S)
  PROVE  SumFunctionOnSet(f, S) =
           IF S = {} THEN 0
           ELSE f[Pick(S)] + SumFunctionOnSet(f, S \ {Pick(S)})
<1>. DEFINE G(U) == CHOOSE g : SumsOf(g, f, U)
<1>1. \A U \in SUBSET S : IsFiniteSet(U) /\ SumsOf(G(U), f, U)
  BY FS_Subset, SumsExist
<1>2. \A U : SumFunctionOnSet(f, U) = G(U)[U]
  BY SumIs
<1>. HIDE DEF G
<1>. DEFINE r == S \ {Pick(S)}
<1>3. G(S)[r] = G(r)[r]
  <2>1. r \in SUBSET S /\ r \in SUBSET (S \cap r)
    OBVIOUS
  <2>. HIDE DEF r
  <2>. QED  BY <1>1, <2>1, SumsAgree
<1>4. G(S)[S] = IF S = {} THEN 0 ELSE f[Pick(S)] + G(S)[r]
  BY <1>1, SumsOfEquation
<1>. QED  BY <1>2, <1>3, <1>4

(* The sum of nothing.                                                     *)
LEMMA SumEmpty == ASSUME NEW f PROVE SumFunctionOnSet(f, {}) = 0
BY SumTakesPick, FS_EmptySet

(* A sum of naturals is a natural, a sum of integers an integer.           *)
LEMMA SumType ==
  ASSUME NEW S, IsFiniteSet(S), NEW f, NEW N, N = Nat \/ N = Int,
         \A x \in S : f[x] \in N
  PROVE  SumFunctionOnSet(f, S) \in N
<1>. DEFINE W == {T \in SUBSET S : SumFunctionOnSet(f, T) \notin N}
<1>. SUFFICES ASSUME W # {} PROVE FALSE
  OBVIOUS
<1>1. PICK T \in W : \A U \in SUBSET T : U # T => U \notin W
  <2>1. W \in SUBSET SUBSET S
    OBVIOUS
  <2>. HIDE DEF W
  <2>. QED  BY <2>1, SmallestSet
<1>2. T # {}
  BY SumEmpty
<1>. DEFINE r == T \ {Pick(T)}
<1>3. Pick(T) \in T /\ IsFiniteSet(T)
  BY <1>2, PickIs, FS_Subset
<1>4. SumFunctionOnSet(f, T) = f[Pick(T)] + SumFunctionOnSet(f, r)
  BY <1>2, <1>3, SumTakesPick
<1>5. SumFunctionOnSet(f, r) \in N
  BY <1>1, <1>3
<1>6. f[Pick(T)] \in N
  BY <1>3
<1>. QED  BY <1>1, <1>4, <1>5, <1>6

(* Any element can be taken out of a sum.                                  *)
LEMMA SumTakes ==
  ASSUME NEW S, IsFiniteSet(S), NEW f, \A x \in S : f[x] \in Int, NEW a \in S
  PROVE  SumFunctionOnSet(f, S) = f[a] + SumFunctionOnSet(f, S \ {a})
<1>. DEFINE Sum(T) == SumFunctionOnSet(f, T)
            Fails(T) == \E x \in T : Sum(T) # f[x] + Sum(T \ {x})
            W == {T \in SUBSET S : Fails(T)}
<1>1. \A T \in SUBSET S : IsFiniteSet(T) /\ Sum(T) \in Int
  <2>1. \A T \in SUBSET S : IsFiniteSet(T)
    BY FS_Subset
  <2>. QED  BY <2>1, SumType
<1>2. \A T \in SUBSET S : T # {} => Sum(T) = f[Pick(T)] + Sum(T \ {Pick(T)})
  BY <1>1, SumTakesPick
<1>. SUFFICES ASSUME W # {} PROVE FALSE
  OBVIOUS
<1>3. PICK T \in W : \A U \in SUBSET T : U # T => U \notin W
  <2>1. W \in SUBSET SUBSET S
    OBVIOUS
  <2>. HIDE DEF W
  <2>. QED  BY <2>1, SmallestSet
<1>. HIDE DEF Sum
<1>4. PICK x \in T : Sum(T) # f[x] + Sum(T \ {x})
  BY <1>3
<1>. DEFINE p == Pick(T)
<1>5. p \in T
  BY <1>4, PickIs
<1>. HIDE DEF p
<1>6. Sum(T) = f[p] + Sum(T \ {p})
  BY <1>2, <1>4 DEF p
<1>7. x # p
  BY <1>4, <1>6
<1>8. Sum(T \ {p}) = f[x] + Sum((T \ {p}) \ {x})
  <2>1. T \ {p} \in SUBSET T /\ T \ {p} # T /\ x \in T \ {p}
    BY <1>5, <1>7
  <2>. QED  BY <1>3, <2>1
<1>9. Sum(T \ {x}) = f[p] + Sum((T \ {x}) \ {p})
  <2>1. T \ {x} \in SUBSET T /\ T \ {x} # T /\ p \in T \ {x}
    BY <1>5, <1>7
  <2>. QED  BY <1>3, <2>1
<1>10. (T \ {p}) \ {x} = (T \ {x}) \ {p}
  OBVIOUS
<1>11. f[x] \in Int /\ f[p] \in Int /\ Sum((T \ {p}) \ {x}) \in Int
  BY <1>1, <1>5
<1>. QED  BY <1>4, <1>6, <1>8, <1>9, <1>10, <1>11

(* Functions that agree on a set have the same sum over it.                *)
LEMMA SumSame ==
  ASSUME NEW S, IsFiniteSet(S), NEW f, NEW g, \A x \in S : f[x] = g[x]
  PROVE  SumFunctionOnSet(f, S) = SumFunctionOnSet(g, S)
<1>. DEFINE W == {T \in SUBSET S : SumFunctionOnSet(f, T) # SumFunctionOnSet(g, T)}
<1>. SUFFICES ASSUME W # {} PROVE FALSE
  OBVIOUS
<1>1. PICK T \in W : \A U \in SUBSET T : U # T => U \notin W
  <2>1. W \in SUBSET SUBSET S
    OBVIOUS
  <2>. HIDE DEF W
  <2>. QED  BY <2>1, SmallestSet
<1>2. T # {}
  BY SumEmpty
<1>. DEFINE r == T \ {Pick(T)}
<1>3. Pick(T) \in T /\ IsFiniteSet(T)
  BY <1>2, PickIs, FS_Subset
<1>4. /\ SumFunctionOnSet(f, T) = f[Pick(T)] + SumFunctionOnSet(f, r)
      /\ SumFunctionOnSet(g, T) = g[Pick(T)] + SumFunctionOnSet(g, r)
  BY <1>2, <1>3, SumTakesPick
<1>5. SumFunctionOnSet(f, r) = SumFunctionOnSet(g, r)
  BY <1>1, <1>3
<1>. QED  BY <1>1, <1>3, <1>4, <1>5

(* A sum of naturals is at least the sum of any part of it.                *)
LEMMA SumOfPart ==
  ASSUME NEW S, IsFiniteSet(S), NEW f, \A x \in S : f[x] \in Nat,
         NEW T \in SUBSET S
  PROVE  IsFiniteSet(T) /\ SumFunctionOnSet(f, T) <= SumFunctionOnSet(f, S)
<1>. DEFINE Sum(U) == SumFunctionOnSet(f, U)
            W == {U \in SUBSET S : \E V \in SUBSET U : ~(Sum(V) <= Sum(U))}
<1>1. \A U \in SUBSET S : IsFiniteSet(U) /\ Sum(U) \in Nat
  <2>1. \A U \in SUBSET S : IsFiniteSet(U)
    BY FS_Subset
  <2>. QED  BY <2>1, SumType
<1>. SUFFICES ASSUME W # {} PROVE FALSE
  BY <1>1
<1>2. PICK U \in W : \A R \in SUBSET U : R # U => R \notin W
  <2>1. W \in SUBSET SUBSET S
    OBVIOUS
  <2>. HIDE DEF W
  <2>. QED  BY <2>1, SmallestSet
<1>3. \A x \in U : Sum(U) = f[x] + Sum(U \ {x})
  BY <1>1, SumTakes
<1>. HIDE DEF Sum
<1>4. PICK V \in SUBSET U : ~(Sum(V) <= Sum(U))
  OBVIOUS
<1>5. PICK x \in U : x \notin V
  BY <1>1, <1>4
<1>6. Sum(V) <= Sum(U \ {x})
  <2>1. U \ {x} \in SUBSET U /\ U \ {x} # U /\ V \in SUBSET (U \ {x})
    BY <1>5
  <2>. QED  BY <1>2, <2>1
<1>7. f[x] \in Nat /\ Sum(V) \in Nat /\ Sum(U \ {x}) \in Nat
  BY <1>1, <1>5
<1>. QED  BY <1>3, <1>4, <1>5, <1>6, <1>7

(* When all that changes is one element's value, or whether the element is *)
(* in the set, the sum changes by the difference.                          *)
LEMMA SumChanges ==
  ASSUME NEW S, IsFiniteSet(S), NEW T, NEW a, T \ {a} = S \ {a},
         NEW f, \A x \in S : f[x] \in Int, NEW g, \A x \in T : g[x] \in Int,
         \A x \in S \ {a} : g[x] = f[x]
  PROVE  /\ IsFiniteSet(T)
         /\ SumFunctionOnSet(g, T) = SumFunctionOnSet(f, S)
                                      - (IF a \in S THEN f[a] ELSE 0)
                                      + (IF a \in T THEN g[a] ELSE 0)
<1>. DEFINE R == S \ {a}
<1>1. IsFiniteSet(R)
  BY FS_RemoveElement
<1>2. IsFiniteSet(T)
  <2>1. IsFiniteSet(R \cup {a})
    BY <1>1, FS_AddElement
  <2>2. T \in SUBSET (R \cup {a})
    OBVIOUS
  <2>. QED  BY <2>1, <2>2, FS_Subset
<1>3. SumFunctionOnSet(f, S) = (IF a \in S THEN f[a] ELSE 0) + SumFunctionOnSet(f, R)
  <2>1. CASE a \in S
    BY <2>1, SumTakes
  <2>2. CASE a \notin S
    <3>1. R = S
      BY <2>2
    <3>2. SumFunctionOnSet(f, S) \in Int
      BY SumType
    <3>3. SumFunctionOnSet(f, R) = SumFunctionOnSet(f, S)
      BY <3>1
    <3>. HIDE DEF R
    <3>. QED  BY <2>2, <3>2, <3>3
  <2>. QED  BY <2>1, <2>2
<1>4. SumFunctionOnSet(g, T) = (IF a \in T THEN g[a] ELSE 0) + SumFunctionOnSet(g, R)
  <2>1. CASE a \in T
    BY <2>1, <1>2, SumTakes
  <2>2. CASE a \notin T
    <3>1. R = T
      BY <2>2
    <3>2. SumFunctionOnSet(g, T) \in Int
      BY <1>2, SumType
    <3>3. SumFunctionOnSet(g, R) = SumFunctionOnSet(g, T)
      BY <3>1
    <3>. HIDE DEF R
    <3>. QED  BY <2>2, <3>2, <3>3
  <2>. QED  BY <2>1, <2>2
<1>5. SumFunctionOnSet(f, R) = SumFunctionOnSet(g, R)
  BY <1>1, SumSame
<1>6. SumFunctionOnSet(f, R) \in Int
  BY <1>1, SumType
<1>. QED  BY <1>2, <1>3, <1>4, <1>5, <1>6
===========================================================================
