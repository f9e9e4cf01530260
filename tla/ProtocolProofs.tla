-------------------------- MODULE ProtocolProofs --------------------------
(***************************************************************************)
(* Proofs about what MCProtocol checks on a small instance, for all        *)
(* constants.                                                              *)
(*                                                                         *)
(* The protocol core keeps its books: the shares are held, the exposure is *)
(* that of the certificates in force and within the ceiling, and the pool  *)
(* implements SharePool, although its shares are priced in doubles: an     *)
(* error of 1 / Exact per rounding is less than a unit of what is          *)
(* countable.  The fees of a position that are recomputed from one read    *)
(* are what it is owed, and those that are read over several calls are     *)
(* what it earned.                                                         *)
(***************************************************************************)
EXTENDS ProtocolCore, FeeReads, PrefixSumsProofs

LOCAL INSTANCE SequencesExt

-----------------------------------------------------------------------------
(* The protocol core: records *)

LEMMA PoolIsNotNone ==
  ASSUME NEW p \in Pool
  PROVE  p # NoPool
<1>1. "none" \notin DOMAIN p /\ "none" \in DOMAIN NoPool
  BY DEF Pool, NoPool
<1>2. QED
  BY <1>1

LEMMA PositionIsNotNone ==
  ASSUME NEW p \in Position
  PROVE  p # NoPosition
<1>1. "none" \notin DOMAIN p /\ "none" \in DOMAIN NoPosition
  BY DEF Position, NoPosition
<1>2. QED
  BY <1>1

-----------------------------------------------------------------------------
(* Rounding *)

\* A quotient rounded down is a natural number, and its multiple at most the
\* dividend.
LEMMA RoundedDown ==
  ASSUME NEW x \in Nat, NEW y \in Nat \ {0}
  PROVE  x \div y \in Nat /\ (x \div y) * y <= x /\ x < (x \div y) * y + y
<1>1. x = y * (x \div y) + (x % y) /\ x % y \in 0..(y-1) /\ x \div y \in Int
  OBVIOUS
<1>2. QED
  BY <1>1

\* Multiplying by a natural number keeps the order, by a positive one both ways.
LEMMA Scaled ==
  ASSUME NEW v \in Nat, NEW a \in Int, NEW b \in Int, a <= b
  PROVE  v * a \in Int /\ v * b \in Int /\ v * a <= v * b
<1>1. v * (b - a) >= 0 /\ v * (b - a) = v * b - v * a /\ v * a \in Int /\ v * b \in Int
  OBVIOUS
<1>2. QED
  BY <1>1

LEMMA Unscaled ==
  ASSUME NEW v \in Nat \ {0}, NEW a \in Int, NEW b \in Int, v * a <= v * b
  PROVE  a <= b
<1> SUFFICES ASSUME b + 1 <= a PROVE FALSE
  OBVIOUS
<1>1. v * (b + 1) <= v * a /\ v * (b + 1) = v * b + v /\ v * a \in Int /\ v * b \in Int
  BY Scaled
<1>2. QED
  BY <1>1

\* The nearest integer is half a unit away at most.
LEMMA NearestIs ==
  ASSUME NEW x \in Nat, NEW c \in Nat \ {0}
  PROVE  /\ Nearest(x, c) \in Nat
         /\ 2 * (Nearest(x, c) * c) <= 2 * x + c
         /\ 2 * x - c <= 2 * (Nearest(x, c) * c)
<1> DEFINE d == x \div c
           r == x % c
<1>1. x = c * d + r /\ r \in 0..(c - 1) /\ d \in Int /\ d \in Nat
  BY RoundedDown
<1>2. \/ Nearest(x, c) = d /\ 2 * r <= c
      \/ Nearest(x, c) = d + 1 /\ 2 * r >= c
  BY <1>1 DEF Nearest
<1> HIDE DEF d, r
<1>3. (d + 1) * c = c * d + c /\ d * c = c * d /\ c * d \in Int
  BY <1>1
<1>4. CASE Nearest(x, c) = d /\ 2 * r <= c
  BY <1>1, <1>3, <1>4
<1>5. CASE Nearest(x, c) = d + 1 /\ 2 * r >= c
  BY <1>1, <1>3, <1>5
<1>6. QED
  BY <1>2, <1>4, <1>5

\* Where the mantissa is full, a double is within the Exact-th part of what it
\* rounds.
LEMMA NearestWithin ==
  ASSUME NEW x \in Nat, NEW c \in Nat \ {0}, c * Exact <= 2 * x
  PROVE  /\ Nearest(x, c) \in Nat
         /\ Exact * (Nearest(x, c) * c) <= (Exact + 1) * x
         /\ (Exact - 1) * x <= Exact * (Nearest(x, c) * c)
<1> DEFINE n == Nearest(x, c) * c
<1>1. Exact \in Nat
  BY DoublesAssumption
<1>2. Nearest(x, c) \in Nat /\ 2 * n <= 2 * x + c /\ 2 * x - c <= 2 * n
  BY NearestIs
<1>3. n \in Nat
  BY <1>2
<1> HIDE DEF n
<1>4. Exact * (2 * n) <= Exact * (2 * x + c) /\ Exact * (2 * x - c) <= Exact * (2 * n)
  BY <1>1, <1>2, <1>3, Scaled
<1>5. /\ Exact * (2 * n) = 2 * (Exact * n)
      /\ Exact * (2 * x + c) = 2 * (Exact * x) + c * Exact
      /\ Exact * (2 * x - c) = 2 * (Exact * x) - c * Exact
      /\ (Exact + 1) * x = Exact * x + x /\ (Exact - 1) * x = Exact * x - x
      /\ Exact * n \in Int /\ Exact * x \in Int /\ c * Exact \in Int
  BY <1>1, <1>3
<1>6. Exact * n <= (Exact + 1) * x /\ (Exact - 1) * x <= Exact * n
  BY <1>4, <1>5
<1>7. QED
  BY <1>2, <1>6 DEF n

LEMMA RoundedWithin ==
  ASSUME NEW x \in Nat
  PROVE  /\ Rounded(x) \in Nat
         /\ Exact * Rounded(x) <= (Exact + 1) * x
         /\ (Exact - 1) * x <= Exact * Rounded(x)
<1>1. Exact \in Nat
  BY DoublesAssumption
<1>2. CASE \E u \in Spacings : Fills(x, u)
  <2>1. Spacing(x) \in Spacings /\ Fills(x, Spacing(x))
    BY <1>2 DEF Spacing
  <2>2. Spacing(x) \in Nat \ {0} /\ Spacing(x) * Exact <= 2 * x
    BY <2>1, DoublesAssumption DEF Fills
  <2>3. /\ Nearest(x, Spacing(x)) \in Nat
        /\ Exact * (Nearest(x, Spacing(x)) * Spacing(x)) <= (Exact + 1) * x
        /\ (Exact - 1) * x <= Exact * (Nearest(x, Spacing(x)) * Spacing(x))
    BY <2>2, NearestWithin
  <2>4. Nearest(x, Spacing(x)) * Spacing(x) \in Nat
    BY <2>2, <2>3
  <2>5. QED
    BY <2>3, <2>4 DEF Rounded
<1>3. CASE ~\E u \in Spacings : Fills(x, u)
  <2>1. Spacing(x) = 1
    BY <1>3 DEF Spacing
  <2>2. Nearest(x, 1) \in Nat /\ 2 * (Nearest(x, 1) * 1) <= 2 * x + 1 /\ 2 * x - 1 <= 2 * (Nearest(x, 1) * 1)
    BY NearestIs
  <2>3. Rounded(x) = x
    BY <2>1, <2>2 DEF Rounded
  <2>4. (Exact + 1) * x = Exact * x + x /\ (Exact - 1) * x = Exact * x - x /\ Exact * x \in Int
    BY <1>1
  <2>5. QED
    BY <2>3, <2>4
<1>4. QED
  BY <1>2, <1>3

LEMMA FloorQuotientWithin ==
  ASSUME NEW x \in Nat, NEW c \in Nat \ {0}
  PROVE  LET q == FloorQuotient(x, c)
         IN  /\ q \in Nat
             /\ Exact * (q * c) <= (Exact + 1) * x
             /\ (Exact - 1) * x < Exact * ((q + 1) * c)
<1> DEFINE q == FloorQuotient(x, c)
<1>1. Exact \in Nat \ {0}
  BY DoublesAssumption
<1>2. CASE \E v \in Spacings : Fills(v * x, c)
  <2> DEFINE v == CHOOSE u \in Spacings : Fills(u * x, c)
             n == Nearest(v * x, c)
  <2>1. v \in Spacings /\ Fills(v * x, c)
    BY <1>2
  <2>2. q = n \div v
    BY <1>2 DEF FloorQuotient
  <2> HIDE DEF v
  <2>3. v \in Nat \ {0} /\ v * x \in Nat /\ c * Exact <= 2 * (v * x)
    <3>1. v \in Nat \ {0}
      BY <2>1, DoublesAssumption
    <3>2. QED
      BY <2>1, <3>1 DEF Fills
  <2> HIDE DEF q
  <2>4. /\ n \in Nat /\ Exact * (n * c) <= (Exact + 1) * (v * x)
        /\ (Exact - 1) * (v * x) <= Exact * (n * c)
    BY <2>3, NearestWithin
  <2> HIDE DEF n
  <2>5. q \in Nat /\ q * v <= n /\ n + 1 <= (q + 1) * v
    <3>1. n \div v \in Nat /\ (n \div v) * v <= n /\ n < (n \div v) * v + v
      BY <2>3, <2>4, RoundedDown
    <3>2. q \in Nat /\ q * v <= n /\ n < q * v + v
      BY <2>2, <3>1
    <3>3. (q + 1) * v = q * v + v /\ q * v \in Nat
      BY <2>3, <3>2
    <3>4. QED
      BY <2>3, <2>4, <3>2, <3>3
  <2>6. Exact * c \in Nat \ {0}
    BY <1>1
  <2>7. (Exact * c) * (q * v) <= (Exact * c) * n /\ (Exact * c) * (n + 1) <= (Exact * c) * ((q + 1) * v)
    <3>1. q * v \in Int /\ (q + 1) * v \in Int
      BY <2>3, <2>5
    <3>2. QED
      BY <2>4, <2>5, <2>6, <3>1, Scaled
  <2>8. /\ (Exact * c) * (q * v) = v * (Exact * (q * c))
        /\ (Exact * c) * ((q + 1) * v) = v * (Exact * ((q + 1) * c))
        /\ (Exact * c) * n = Exact * (n * c)
        /\ (Exact * c) * (n + 1) = Exact * (n * c) + Exact * c
        /\ (Exact + 1) * (v * x) = v * ((Exact + 1) * x)
        /\ (Exact - 1) * (v * x) = v * ((Exact - 1) * x)
    BY <1>1, <2>3, <2>4, <2>5
  <2>9. /\ Exact * (q * c) \in Int /\ Exact * ((q + 1) * c) \in Int
        /\ (Exact + 1) * x \in Int /\ (Exact - 1) * x \in Int
    BY <1>1, <2>5
  <2>10. Exact * (q * c) <= (Exact + 1) * x
    <3>1. Exact * (n * c) \in Int /\ v * (Exact * (q * c)) \in Int /\ v * ((Exact + 1) * x) \in Int
      BY <1>1, <2>3, <2>4, <2>9
    <3>2. v * (Exact * (q * c)) <= v * ((Exact + 1) * x)
      BY <2>4, <2>7, <2>8, <3>1
    <3>3. QED
      BY <2>3, <2>9, <3>2, Unscaled
  <2>11. (Exact - 1) * x < Exact * ((q + 1) * c)
    <3>1. v * ((Exact - 1) * x) < v * (Exact * ((q + 1) * c))
      BY <2>3, <2>4, <2>6, <2>7, <2>8, <2>9
    <3>2. SUFFICES ASSUME Exact * ((q + 1) * c) <= (Exact - 1) * x PROVE FALSE
      BY <2>9
    <3>3. v * (Exact * ((q + 1) * c)) <= v * ((Exact - 1) * x)
      BY <2>3, <2>9, <3>2, Scaled
    <3>4. QED
      BY <2>3, <2>9, <3>1, <3>3
  <2>12. QED
    BY <2>5, <2>10, <2>11 DEF q
<1>3. CASE ~\E v \in Spacings : Fills(v * x, c)
  <2>1. q = x \div c
    BY <1>3 DEF FloorQuotient
  <2> HIDE DEF q
  <2>2. q \in Nat /\ q * c <= x /\ x + 1 <= (q + 1) * c
    <3>1. x \div c \in Nat /\ (x \div c) * c <= x /\ x < (x \div c) * c + c
      BY RoundedDown
    <3>2. q \in Nat /\ q * c <= x /\ x < q * c + c
      BY <2>1, <3>1
    <3>3. (q + 1) * c = q * c + c /\ q * c \in Nat
      BY <3>2
    <3>4. QED
      BY <3>2, <3>3
  <2>3. Exact * (q * c) <= Exact * x /\ Exact * (x + 1) <= Exact * ((q + 1) * c)
    <3>1. q * c \in Int /\ (q + 1) * c \in Int
      BY <2>2
    <3>2. QED
      BY <1>1, <2>2, <3>1, Scaled
  <2>4. /\ Exact * (x + 1) = Exact * x + Exact /\ (Exact + 1) * x = Exact * x + x
        /\ (Exact - 1) * x = Exact * x - x /\ Exact * x \in Int
        /\ Exact * (q * c) \in Int /\ Exact * ((q + 1) * c) \in Int
    BY <1>1, <2>2
  <2>5. QED
    BY <1>1, <2>2, <2>3, <2>4 DEF q
<1>4. QED
  BY <1>2, <1>3

\* A product and a quotient are two roundings.
LEMMA FloorMulDivWithin ==
  ASSUME NEW a \in Nat, NEW b \in Nat, NEW c \in Nat \ {0}
  PROVE  LET q == FloorMulDiv(a, b, c)
         IN  /\ q \in Nat
             /\ Exact * (Exact * (q * c)) <= (Exact + 1) * ((Exact + 1) * (a * b))
             /\ (Exact - 1) * ((Exact - 1) * (a * b)) < Exact * (Exact * ((q + 1) * c))
<1> DEFINE q == FloorMulDiv(a, b, c)
           p == Rounded(a * b)
           s == a * b
<1>1. Exact \in Nat \ {0} /\ s \in Nat
  BY DoublesAssumption
<1>2. p \in Nat /\ Exact * p <= (Exact + 1) * s /\ (Exact - 1) * s <= Exact * p
  BY <1>1, RoundedWithin
<1> HIDE DEF p
<1>3. q \in Nat /\ Exact * (q * c) <= (Exact + 1) * p /\ (Exact - 1) * p < Exact * ((q + 1) * c)
  BY <1>2, FloorQuotientWithin DEF FloorMulDiv, p
<1> HIDE DEF q, s
<1>4. /\ Exact * (q * c) \in Int /\ Exact * ((q + 1) * c) \in Int
      /\ (Exact + 1) * p \in Int /\ (Exact - 1) * p \in Int /\ Exact * p \in Int
      /\ (Exact + 1) * s \in Int /\ (Exact - 1) * s \in Int
  BY <1>1, <1>2, <1>3
<1>5. /\ Exact * (Exact * (q * c)) <= Exact * ((Exact + 1) * p)
      /\ (Exact + 1) * (Exact * p) <= (Exact + 1) * ((Exact + 1) * s)
      /\ (Exact - 1) * ((Exact - 1) * s) <= (Exact - 1) * (Exact * p)
      /\ Exact * ((Exact - 1) * p + 1) <= Exact * (Exact * ((q + 1) * c))
  <2>1. Exact \in Nat /\ Exact + 1 \in Nat /\ Exact - 1 \in Nat
    BY <1>1
  <2>2. (Exact - 1) * p + 1 <= Exact * ((q + 1) * c)
    BY <1>3, <1>4
  <2>3. QED
    BY <1>2, <1>3, <1>4, <2>1, <2>2, Scaled
<1>6. /\ Exact * ((Exact + 1) * p) = (Exact + 1) * (Exact * p)
      /\ Exact * ((Exact - 1) * p + 1) = (Exact - 1) * (Exact * p) + Exact
  BY <1>1, <1>2
<1>7. /\ Exact * (Exact * (q * c)) <= (Exact + 1) * ((Exact + 1) * s)
      /\ (Exact - 1) * ((Exact - 1) * s) < Exact * (Exact * ((q + 1) * c))
  <2>1. /\ Exact * (Exact * (q * c)) \in Int /\ Exact * (Exact * ((q + 1) * c)) \in Int
        /\ (Exact + 1) * (Exact * p) \in Int /\ (Exact - 1) * (Exact * p) \in Int
        /\ (Exact + 1) * ((Exact + 1) * s) \in Int /\ (Exact - 1) * ((Exact - 1) * s) \in Int
    BY <1>1, <1>4
  <2>2. QED
    BY <1>1, <1>5, <1>6, <2>1
<1>8. QED
  BY <1>3, <1>7 DEF q, s

\* Of what is countable, both roundings together take or add less than a unit.
LEMMA CountableWithin ==
  ASSUME NEW x \in Nat, Countable(x)
  PROVE  LET e == Exact * Exact
         IN  /\ e \in Nat \ {0}
             /\ (Exact + 1) * ((Exact + 1) * x) < e * (x + 1)
             /\ e * (x - 1) < (Exact - 1) * ((Exact - 1) * x)
<1>1. Exact \in Nat \ {0} /\ 2 * x + 1 <= Exact
  BY DoublesAssumption DEF Countable
<1> DEFINE e == Exact * Exact
<1>2. e \in Nat \ {0}
  BY <1>1
<1>3. Exact * (2 * x + 1) <= e
  BY <1>1, Scaled
<1>4. /\ Exact * (2 * x + 1) = 2 * (Exact * x) + Exact
      /\ (Exact + 1) * ((Exact + 1) * x) = e * x + 2 * (Exact * x) + x
      /\ (Exact - 1) * ((Exact - 1) * x) = e * x - 2 * (Exact * x) + x
      /\ e * (x + 1) = e * x + e /\ e * (x - 1) = e * x - e
      /\ Exact * x \in Nat /\ e * x \in Nat
  BY <1>1
<1> HIDE DEF e
<1>5. x < Exact
  BY <1>1
<1>6. QED
  BY <1>1, <1>2, <1>3, <1>4, <1>5 DEF e

\* Shares lower what the others' are worth by less than a unit of the reserves ...
LEMMA DepositKeepsPrice ==
  ASSUME NEW r \in Nat \ {0}, NEW s \in Nat, NEW amount \in Nat, Countable(amount)
  PROVE  LET minted == FloorMulDiv(amount, s, r)
         IN  minted \in Nat /\ (r + amount + 1) * s >= r * (s + minted)
<1> DEFINE q == FloorMulDiv(amount, s, r)
           e == Exact * Exact
<1>1. q \in Nat /\ Exact * (Exact * (q * r)) <= (Exact + 1) * ((Exact + 1) * (amount * s))
  BY FloorMulDivWithin
<1> HIDE DEF q
<1>2. e \in Nat \ {0} /\ (Exact + 1) * ((Exact + 1) * amount) <= e * (amount + 1)
  BY CountableWithin, DoublesAssumption
<1>3. s * ((Exact + 1) * ((Exact + 1) * amount)) <= s * (e * (amount + 1))
  BY <1>2, Scaled, DoublesAssumption
<1>4. /\ s * ((Exact + 1) * ((Exact + 1) * amount)) = (Exact + 1) * ((Exact + 1) * (amount * s))
      /\ Exact * (Exact * (q * r)) = e * (q * r)
  BY <1>1, DoublesAssumption
<1> HIDE DEF e
<1>5. s * (e * (amount + 1)) = e * ((amount + 1) * s) /\ (amount + 1) * s \in Nat /\ q * r \in Nat
  BY <1>1, <1>2
<1>6. e * (q * r) <= e * ((amount + 1) * s)
  <2>1. /\ e * (q * r) \in Int /\ e * ((amount + 1) * s) \in Int
        /\ s * ((Exact + 1) * ((Exact + 1) * amount)) \in Int
    BY <1>2, <1>5, DoublesAssumption
  <2>2. QED
    BY <1>1, <1>3, <1>4, <1>5, <2>1
<1>7. q * r <= (amount + 1) * s
  BY <1>2, <1>5, <1>6, Unscaled
<1>8. (r + amount + 1) * s = r * s + (amount + 1) * s /\ r * (s + q) = r * s + q * r /\ r * s \in Nat
  BY <1>1
<1>9. QED
  BY <1>1, <1>5, <1>7, <1>8 DEF q

\* ... and so do reserves that leave; they are at most the reserves, and all of
\* them but one unit when all shares leave.
LEMMA WithdrawKeepsPrice ==
  ASSUME NEW r \in Nat, NEW s \in Nat \ {0}, NEW burnt \in 1..s, Countable(r)
  PROVE  LET usdc == FloorMulDiv(burnt, r, s)
         IN  /\ usdc \in 0..r
             /\ (r - usdc + 1) * s >= r * (s - burnt)
             /\ burnt = s => r - usdc <= 1
<1> DEFINE q == FloorMulDiv(burnt, r, s)
           e == Exact * Exact
           up == (Exact + 1) * ((Exact + 1) * r)
           down == (Exact - 1) * ((Exact - 1) * r)
<1>1. burnt \in Nat \ {0} /\ burnt <= s
  OBVIOUS
<1>2. /\ q \in Nat
      /\ Exact * (Exact * (q * s)) <= (Exact + 1) * ((Exact + 1) * (burnt * r))
      /\ (Exact - 1) * ((Exact - 1) * (burnt * r)) < Exact * (Exact * ((q + 1) * s))
  BY <1>1, FloorMulDivWithin
<1> HIDE DEF q
<1>3. e \in Nat \ {0} /\ up < e * (r + 1) /\ e * (r - 1) < down /\ up \in Int /\ down \in Int
  BY CountableWithin, DoublesAssumption
<1>4. /\ (Exact + 1) * ((Exact + 1) * (burnt * r)) = burnt * up
      /\ (Exact - 1) * ((Exact - 1) * (burnt * r)) = burnt * down
      /\ Exact * (Exact * (q * s)) = e * (q * s)
      /\ Exact * (Exact * ((q + 1) * s)) = e * ((q + 1) * s)
  BY <1>1, <1>2, DoublesAssumption
<1> HIDE DEF e, up, down
<1>5. q * s < burnt * (r + 1)
  <2>1. burnt * (up + 1) <= burnt * (e * (r + 1)) /\ burnt * (up + 1) = burnt * up + burnt
    BY <1>1, <1>3, Scaled
  <2>2. burnt * (e * (r + 1)) = e * (burnt * (r + 1))
    BY <1>1, <1>3
  <2>3. e * (q * s) < e * (burnt * (r + 1))
    <3>1. burnt * up \in Int /\ e * (q * s) \in Int /\ e * (burnt * (r + 1)) \in Int
      BY <1>1, <1>2, <1>3
    <3>2. QED
      BY <1>1, <1>2, <1>4, <2>1, <2>2, <3>1
  <2>4. q * s \in Int /\ burnt * (r + 1) \in Int
    BY <1>1, <1>2
  <2> SUFFICES ASSUME burnt * (r + 1) <= q * s PROVE FALSE
    BY <2>4
  <2>5. e * (burnt * (r + 1)) <= e * (q * s) /\ e * (burnt * (r + 1)) \in Int /\ e * (q * s) \in Int
    BY <1>3, <2>4, Scaled
  <2>6. QED
    BY <2>3, <2>5
<1>6. burnt * (r + 1) = burnt * r + burnt /\ burnt * r \in Nat /\ q * s \in Nat /\ r * s \in Nat
  BY <1>1, <1>2
<1>7. q <= r
  <2> SUFFICES ASSUME r + 1 <= q PROVE FALSE
    BY <1>2
  <2>1. s * (r + 1) <= s * q /\ s * q = q * s
    BY <1>2, Scaled
  <2>2. (r + 1) * burnt <= (r + 1) * s /\ (r + 1) * burnt = burnt * (r + 1) /\ (r + 1) * s = s * (r + 1)
    BY <1>1, Scaled
  <2>3. s * (r + 1) \in Int
    OBVIOUS
  <2>4. QED
    BY <1>5, <1>6, <2>1, <2>2, <2>3
<1>8. (r - q + 1) * s >= r * (s - burnt)
  <2>1. (r - q + 1) * s = r * s - q * s + s /\ r * (s - burnt) = r * s - burnt * r
    BY <1>1, <1>2
  <2>2. QED
    BY <1>1, <1>5, <1>6, <2>1
<1>9. ASSUME burnt = s PROVE r - q <= 1
  <2>1. s * (e * (r - 1)) <= s * down /\ s * (e * (r - 1)) \in Int /\ s * down \in Int
    <3>1. e * (r - 1) \in Int /\ e * (r - 1) <= down
      BY <1>3
    <3>2. QED
      BY <1>3, <3>1, Scaled
  <2>2. s * (e * (r - 1)) = (e * s) * (r - 1) /\ e * ((q + 1) * s) = (e * s) * (q + 1)
    BY <1>2, <1>3
  <2>3. (e * s) * (r - 1) < (e * s) * (q + 1) /\ e * s \in Nat
    <3>1. e * s \in Nat
      BY <1>3
    <3>2. (e * s) * (q + 1) \in Int
      BY <1>2, <3>1
    <3>3. QED
      BY <1>2, <1>4, <1>9, <2>1, <2>2, <3>1, <3>2
  <2> SUFFICES ASSUME q + 1 <= r - 1 PROVE FALSE
    BY <1>2
  <2>4. (e * s) * (q + 1) <= (e * s) * (r - 1) /\ (e * s) * (q + 1) \in Int /\ (e * s) * (r - 1) \in Int
    BY <1>2, <2>3, Scaled
  <2>5. QED
    BY <2>3, <2>4
<1>10. q \in 0..r
  BY <1>2, <1>7
<1>11. QED
  BY <1>8, <1>9, <1>10 DEF q

\* A cap within the headroom keeps the exposure within the ceiling.
LEMMA HeadroomCovers ==
  ASSUME NEW r \in Nat, NEW a \in Nat, NEW u \in Nat, NEW cap \in Nat,
         a + cap <= (r * u) \div FullBps
  PROVE  (a + cap) * FullBps <= r * u
<1> DEFINE m == r * u
<1>1. m \in Nat /\ FullBps \in Nat \ {0}
  BY DEF FullBps
<1> HIDE DEF m
<1>2. m \div FullBps \in Nat /\ (m \div FullBps) * FullBps <= m
  BY <1>1, RoundedDown
<1>3. a + cap <= m \div FullBps
  BY DEF m
<1>4. (a + cap) * FullBps <= m
  BY <1>1, <1>2, <1>3 DEF FullBps
<1>5. QED
  BY <1>4 DEF m

\* Reserves of at least the exposure over the ceiling, rounded up, cover it.
LEMMA MinReservesCover ==
  ASSUME NEW a \in Nat, NEW u \in Nat \ {0}, NEW r \in Nat,
         r >= (a * FullBps + u - 1) \div u
  PROVE  a * FullBps <= r * u
<1> DEFINE m == a * FullBps
           q == (m + u - 1) \div u
<1>1. m \in Nat
  BY DEF FullBps
<1> HIDE DEF m
<1>2. m + u - 1 \in Nat
  BY <1>1
<1>3. q \in Nat /\ m + u - 1 < q * u + u
  BY <1>2, RoundedDown
<1>4. r >= q
  BY DEF m
<1> HIDE DEF q
<1>5. q * u <= r * u /\ q * u \in Nat /\ r * u \in Nat
  BY <1>3, <1>4
<1>6. m <= r * u
  BY <1>1, <1>3, <1>5
<1>7. QED
  BY <1>6 DEF m

\* A settlement that costs a cap and the rounding leaves reserves, and what is
\* left of the exposure within the ceiling.
LEMMA SettlementLeavesCovered ==
  ASSUME NEW r \in Nat, NEW a \in Nat, NEW u \in Nat \ {0}, NEW cap \in Nat,
         NEW dust \in Nat, NEW r2 \in Int,
         a * FullBps <= r * u, cap <= a, u <= FullBps,
         cap * (FullBps - u) >= dust * u, r2 >= r - (cap + dust)
  PROVE  r2 \in Nat /\ (a - cap) * FullBps <= r2 * u
<1> DEFINE cu == cap * u
           du == dust * u
           ru == r * u
<1>1. cu \in Nat /\ du \in Nat /\ ru \in Nat
  OBVIOUS
<1>2. cap * (FullBps - u) = cap * FullBps - cu
  BY DEF FullBps
<1>3. (a - cap) * FullBps = a * FullBps - cap * FullBps
  BY DEF FullBps
<1>4. r2 * u >= (r - (cap + dust)) * u
  OBVIOUS
<1>5. (r - (cap + dust)) * u = ru - cu - du
  OBVIOUS
<1> HIDE DEF cu, du, ru
<1>6. cap * FullBps - cu >= du /\ a * FullBps <= ru
  BY <1>2 DEF du, ru
<1>7. r2 * u \in Int
  OBVIOUS
<1>8. (a - cap) * FullBps <= r2 * u
  BY <1>1, <1>3, <1>4, <1>5, <1>6, <1>7 DEF FullBps
<1>9. r2 >= 0
  <2> SUFFICES ASSUME r2 <= -1 PROVE FALSE
    OBVIOUS
  <2>1. r2 * u <= -u
    OBVIOUS
  <2>2. (a - cap) * FullBps >= 0
    BY DEF FullBps
  <2>3. QED
    BY <1>7, <1>8, <2>1, <2>2 DEF FullBps
<1>10. QED
  BY <1>8, <1>9

\* No term is larger than a sum of natural numbers.
LEMMA TermAtMostSum ==
  ASSUME NEW f, NEW n \in Nat, NEW k \in 1..n, \A i \in 1..n : f[i] \in Nat
  PROVE  f[k] <= Sum(n, f)
<1> DEFINE g == [i \in 1..n |-> IF i = k THEN 0 ELSE f[i]]
<1>1. \A i \in 1..n : g[i] \in Nat /\ (i # k => g[i] = f[i])
  OBVIOUS
<1>2. g[k] = 0
  OBVIOUS
<1> HIDE DEF g
<1>3. Sum(n, g) = Sum(n, f) - f[k] + g[k]
  BY <1>1, SumUpdate
<1>4. Sum(n, g) \in Nat /\ Sum(n, f) \in Nat
  BY <1>1, SumNat
<1>5. QED
  BY <1>2, <1>3, <1>4

-----------------------------------------------------------------------------
(* The invariant *)

\* A certificate has the cap of its template, which is not zero.
CapsOfTemplates ==
  \A k \in DOMAIN certificates :
    /\ certificates[k].cap = CapDown[certificates[k].template]
    /\ certificates[k].cap > 0

ProtocolInv ==
  /\ TypeOK
  /\ SharesBacked
  /\ CapsReserved
  /\ UtilizationBound
  /\ NoOrphanReserves
  /\ ProtectionIsActive
  /\ CapsOfTemplates

LEMMA PoolNumbers ==
  ASSUME TypeOK
  PROVE  Reserves \in Nat /\ Shares \in Nat /\ ActiveCap \in Nat
BY DEF TypeOK, Reserves, Shares, ActiveCap, Pool, NoPool

LEMMA PoolView ==
  ASSUME TypeOK, pool # NoPool
  PROVE  /\ pool \in Pool
         /\ Reserves = pool.reserves /\ Shares = pool.shares /\ ActiveCap = pool.activeCap
         /\ Reserves \in Nat /\ Shares \in Nat /\ ActiveCap \in Nat
BY DEF TypeOK, Reserves, Shares, ActiveCap, Pool

LEMMA PoolViewNext ==
  ASSUME pool' \in Pool
  PROVE  /\ pool' # NoPool
         /\ Reserves' = pool'.reserves /\ Shares' = pool'.shares
         /\ ActiveCap' = pool'.activeCap
<1>1. pool' # NoPool
  BY PoolIsNotNone
<1>2. QED
  BY <1>1 DEF Reserves, Shares, ActiveCap

\* The terms of the sum of caps.
LEMMA ActiveCapsTerms ==
  ASSUME TypeOK
  PROVE  /\ Len(certificates) \in Nat /\ DOMAIN certificates = 1..Len(certificates)
         /\ \A k \in 1..Len(certificates) :
              /\ certificates[k] \in Certificate
              /\ ActiveCaps[k] \in Nat
              /\ ActiveCaps[k] = IF certificates[k].state = "active"
                                 THEN certificates[k].cap ELSE 0
<1>1. certificates \in Seq(Certificate)
  BY DEF TypeOK
<1>2. Len(certificates) \in Nat /\ DOMAIN certificates = 1..Len(certificates)
  BY <1>1
<1>3. \A k \in 1..Len(certificates) : certificates[k] \in Certificate
  BY <1>1
<1>4. \A k \in 1..Len(certificates) :
        ActiveCaps[k] = IF certificates[k].state = "active" THEN certificates[k].cap ELSE 0
  BY <1>2 DEF ActiveCaps
<1>5. \A k \in 1..Len(certificates) : ActiveCaps[k] \in Nat
  BY <1>3, <1>4 DEF Certificate
<1>6. QED
  BY <1>2, <1>3, <1>4, <1>5

\* Steps that leave pool, shares and certificates alone leave the books alone.
LEMMA BooksUnchanged ==
  ASSUME ProtocolInv, UNCHANGED <<pool, shareLedger, certificates>>
  PROVE  /\ SharesBacked' /\ CapsReserved' /\ UtilizationBound' /\ NoOrphanReserves'
         /\ CapsOfTemplates'
         /\ UNCHANGED <<Reserves, Shares, ActiveCap>>
BY DEF ProtocolInv, SharesBacked, CapsReserved, UtilizationBound, NoOrphanReserves,
       CapsOfTemplates, Reserves, Shares, ActiveCap, ActiveCaps

\* What the certificates' side promises survives steps of the pool alone.
LEMMA EscrowUnchanged ==
  ASSUME ProtocolInv, UNCHANGED <<positions, certificates>>
  PROVE  ProtectionIsActive' /\ CapsOfTemplates' /\ ActiveCaps' = ActiveCaps
BY DEF ProtocolInv, ProtectionIsActive, CapsOfTemplates, ActiveCaps

LEMMA InvDeposit ==
  ASSUME ProtocolInv, NEW o \in Owners, NEW amount \in Amounts, Deposit(o, amount)
  PROVE  ProtocolInv' /\ SharesView!Enter
<1> DEFINE minted == SharesFor(amount)
<1>1. TypeOK /\ SharesBacked /\ UtilizationBound /\ NoOrphanReserves
  BY SMTT(30) DEF ProtocolInv
<1>2. /\ pool \in Pool /\ amount \in Nat /\ amount > 0
      /\ Reserves = pool.reserves /\ Shares = pool.shares /\ ActiveCap = pool.activeCap
      /\ Reserves \in Nat /\ Shares \in Nat /\ ActiveCap \in Nat
  <2>1. amount \in Nat /\ amount > 0
    <3>1. amount \in Nat
      BY ProtocolAssumption
    <3>2. amount > 0
      BY DEF Deposit
    <3>3. QED
      BY ONLY <3>1, <3>2
  <2>2. pool \in Pool /\ Reserves = pool.reserves /\ Shares = pool.shares /\ ActiveCap = pool.activeCap
        /\ Reserves \in Nat /\ Shares \in Nat /\ ActiveCap \in Nat
    <3>1. pool # NoPool
      BY DEF Deposit
    <3>2. QED
      BY ONLY <1>1, <3>1, PoolView
  <2>3. QED
    BY ONLY <2>1, <2>2
<1>3. /\ minted \in Nat /\ minted > 0
      /\ Shares > 0 => (Reserves + amount + 1) * Shares >= Reserves * (Shares + minted)
  <2>1. CASE Shares = 0
    <3>1. minted = amount
      BY <1>2, <2>1 DEF SharesFor
    <3>2. QED
      BY <1>2, <2>1, <3>1
  <2>2. CASE Shares # 0
    <3>1. Reserves \in Nat \ {0} /\ minted = FloorMulDiv(amount, Shares, Reserves)
      BY <1>2, <2>2 DEF Deposit, Depositable, SharesFor
    <3>2. Countable(amount)
      <4>1. Reserves + amount <= MaxReserves /\ MaxReserves \in Nat /\ Exact \in Nat
        BY <1>2, ProtocolAssumption, DoublesAssumption DEF Deposit
      <4>2. 2 * MaxReserves < Exact
        BY RangeAssumption DEF Countable
      <4>3. QED
        BY <1>2, <4>1, <4>2 DEF Countable
    <3>3. minted > 0
      BY DEF Deposit
    <3> HIDE DEF minted
    <3>4. minted \in Nat /\ (Reserves + amount + 1) * Shares >= Reserves * (Shares + minted)
      BY <1>2, <3>1, <3>2, DepositKeepsPrice
    <3>5. QED
      BY <3>3, <3>4
  <2>3. QED
    BY <2>1, <2>2
<1> HIDE DEF minted
<1>4. /\ pool' = [pool EXCEPT !.reserves = @ + amount, !.shares = @ + minted]
      /\ shareLedger' = [shareLedger EXCEPT ![o] = @ + minted]
      /\ UNCHANGED <<positions, certificates, templates, regimeAt, clock>>
  BY DEF Deposit, minted
<1>5. pool' \in Pool /\ pool'.reserves = Reserves + amount
      /\ pool'.shares = Shares + minted /\ pool'.activeCap = ActiveCap
  <2>1. pool' = [reserves |-> Reserves + amount, shares |-> Shares + minted,
                 activeCap |-> ActiveCap]
    BY <1>2, <1>4 DEF Pool
  <2>2. Reserves + amount \in Nat /\ Shares + minted \in Nat
    BY <1>2, <1>3
  <2>3. QED
    BY <1>2, <2>1, <2>2 DEF Pool
<1>6. Reserves' = Reserves + amount /\ Shares' = Shares + minted /\ ActiveCap' = ActiveCap
  BY <1>5, PoolViewNext
<1>7. shareLedger \in [Owners -> Nat] /\ shareLedger' \in [Owners -> Nat]
  BY <1>1, <1>3, <1>4 DEF TypeOK
<1>8. TypeOK'
  BY <1>1, <1>4, <1>5, <1>7 DEF TypeOK
<1>9. SharesBacked'
  <2>1. Sum(NumOwners, shareLedger') = Sum(NumOwners, shareLedger) - shareLedger[o] + shareLedger'[o]
    <3>1. NumOwners \in Nat /\ o \in 1..NumOwners
      BY ProtocolAssumption DEF Owners
    <3>2. \A i \in 1..NumOwners : /\ shareLedger[i] \in Int /\ shareLedger'[i] \in Int
                                  /\ i # o => shareLedger'[i] = shareLedger[i]
      BY <1>4, <1>7 DEF Owners
    <3>3. QED
      BY <3>1, <3>2, SumUpdate
  <2>2. QED
    BY <1>1, <1>2, <1>3, <1>4, <1>6, <1>7, <2>1 DEF SharesBacked
<1>10. UtilizationBound'
  <2>1. UMaxBps \in Nat
    BY ProtocolAssumption
  <2>2. Reserves * UMaxBps <= (Reserves + amount) * UMaxBps
    BY <1>2, <2>1
  <2>3. Reserves * UMaxBps \in Nat /\ (Reserves + amount) * UMaxBps \in Nat /\ ActiveCap * FullBps \in Nat
    BY <1>2, <2>1 DEF FullBps
  <2>4. QED
    BY <1>1, <1>6, <2>2, <2>3 DEF UtilizationBound
<1>11. NoOrphanReserves'
  BY <1>2, <1>3, <1>6 DEF NoOrphanReserves
<1>12. ProtectionIsActive' /\ CapsOfTemplates' /\ ActiveCaps' = ActiveCaps
  BY <1>4, EscrowUnchanged
<1>13. CapsReserved'
  BY <1>4, <1>6, <1>12 DEF ProtocolInv, CapsReserved
<1>14. SharesView!Enter
  <2>1. Reserves' + 1 = Reserves + amount + 1
    BY <1>2, <1>6
  <2>2. SharesView!Undiluted
    BY <1>3, <1>6, <2>1 DEF SharesView!Undiluted
  <2>3. QED
    BY <1>2, <1>3, <1>6, <2>2 DEF SharesView!Enter
<1>15. QED
  BY <1>8, <1>9, <1>10, <1>11, <1>12, <1>13, <1>14 DEF ProtocolInv

LEMMA InvWithdraw ==
  ASSUME ProtocolInv, NEW o \in Owners, NEW burnt \in 1..shareLedger[o], Withdraw(o, burnt)
  PROVE  ProtocolInv' /\ SharesView!Leave
<1> DEFINE usdc == UsdcFor(burnt)
<1>1. TypeOK /\ SharesBacked /\ UtilizationBound /\ NoOrphanReserves
  BY DEF ProtocolInv
<1>2. /\ pool \in Pool
      /\ Reserves = pool.reserves /\ Shares = pool.shares /\ ActiveCap = pool.activeCap
      /\ Reserves \in Nat /\ Shares \in Nat /\ ActiveCap \in Nat
  BY <1>1, PoolView DEF Withdraw
<1>3. shareLedger \in [Owners -> Nat] /\ shareLedger[o] \in Nat /\ burnt \in Nat \ {0} /\ burnt <= shareLedger[o]
  BY <1>1, SMTT(30) DEF TypeOK
<1>4. shareLedger[o] <= Shares
  BY <1>1, <1>3, TermAtMostSum, ProtocolAssumption DEF SharesBacked, Owners
<1>5. burnt \in 1..Shares /\ Shares \in Nat \ {0}
  BY <1>2, <1>3, <1>4
<1>6. /\ usdc \in 0..Reserves
      /\ (Reserves - usdc + 1) * Shares >= Reserves * (Shares - burnt)
      /\ burnt = Shares => Reserves - usdc <= 1
  <2>1. usdc = FloorMulDiv(burnt, Reserves, Shares)
    BY <1>2 DEF UsdcFor
  <2>2. Countable(Reserves)
    BY <1>2 DEF Withdraw
  <2> DEFINE out == FloorMulDiv(burnt, Reserves, Shares)
  <2>3. /\ out \in 0..Reserves
        /\ (Reserves - out + 1) * Shares >= Reserves * (Shares - burnt)
        /\ burnt = Shares => Reserves - out <= 1
    <3> HIDE DEF usdc
    <3>1. Reserves \in Nat /\ Shares \in Nat \ {0} /\ burnt \in 1..Shares
      BY <1>2, <1>5
    <3>2. QED
      BY ONLY <2>2, <3>1, WithdrawKeepsPrice, Zenon
  <2> HIDE DEF out
  <2>4. QED
    BY <2>1, <2>3 DEF out
<1> HIDE DEF usdc
<1>7. /\ pool' = [pool EXCEPT !.reserves = @ - usdc, !.shares = @ - burnt]
      /\ shareLedger' = [shareLedger EXCEPT ![o] = @ - burnt]
      /\ UNCHANGED <<positions, certificates, templates, regimeAt, clock>>
      /\ Withdrawable(usdc)
  BY DEF Withdraw, usdc
<1>8. pool' \in Pool /\ pool'.reserves = Reserves - usdc
      /\ pool'.shares = Shares - burnt /\ pool'.activeCap = ActiveCap
  <2>1. pool' = [reserves |-> Reserves - usdc, shares |-> Shares - burnt,
                 activeCap |-> ActiveCap]
    BY <1>2, <1>7 DEF Pool
  <2>2. Reserves - usdc \in Nat /\ Shares - burnt \in Nat
    BY <1>2, <1>5, <1>6
  <2>3. QED
    BY <1>2, <2>1, <2>2 DEF Pool
<1>9. Reserves' = Reserves - usdc /\ Shares' = Shares - burnt /\ ActiveCap' = ActiveCap
  BY <1>8, PoolViewNext
<1>10. shareLedger' \in [Owners -> Nat]
  BY <1>3, <1>7
<1>11. TypeOK'
  BY <1>1, <1>7, <1>8, <1>10 DEF TypeOK
<1>12. SharesBacked'
  <2>1. Sum(NumOwners, shareLedger') = Sum(NumOwners, shareLedger) - shareLedger[o] + shareLedger'[o]
    <3>1. NumOwners \in Nat /\ o \in 1..NumOwners
      BY ProtocolAssumption DEF Owners
    <3>2. \A i \in 1..NumOwners : /\ shareLedger[i] \in Int /\ shareLedger'[i] \in Int
                                  /\ i # o => shareLedger'[i] = shareLedger[i]
      BY <1>3, <1>7, <1>10 DEF Owners
    <3>3. QED
      BY <3>1, <3>2, SumUpdate
  <2>2. QED
    <3>1. shareLedger'[o] = shareLedger[o] - burnt
      BY <1>3, <1>7
    <3>2. Sum(NumOwners, shareLedger) = Shares
      BY <1>1 DEF SharesBacked
    <3>3. Sum(NumOwners, shareLedger') = Shares - burnt
      BY <1>2, <1>3, <2>1, <3>1, <3>2
    <3>4. QED
      BY <1>9, <3>3 DEF SharesBacked
<1>13. ActiveCap * FullBps <= (Reserves - usdc) * UMaxBps
       /\ (ActiveCap > 0 => Reserves - usdc > 1)
  <2>1. UMaxBps \in Nat \ {0} /\ Reserves - usdc \in Nat
    BY <1>2, <1>6, ProtocolAssumption
  <2>2. CASE ActiveCap = 0
    BY <1>2, <2>1, <2>2 DEF FullBps
  <2>3. CASE ActiveCap > 0
    <3>1. Reserves - usdc >= (ActiveCap * FullBps + UMaxBps - 1) \div UMaxBps
      BY <1>2, <1>7, <2>3 DEF Withdrawable, MinReserves
    <3>2. ActiveCap * FullBps <= (Reserves - usdc) * UMaxBps
      BY <1>2, <2>1, <3>1, MinReservesCover
    <3>3. ActiveCap * FullBps \in Nat /\ ActiveCap * FullBps > 0
      BY <1>2, <2>3 DEF FullBps
    <3>4. SUFFICES ASSUME Reserves - usdc <= 1 PROVE FALSE
      BY <2>1, <3>2
    <3>5. Reserves - usdc \in 0..1 /\ UMaxBps <= 9999
      BY <2>1, <3>4, ProtocolAssumption
    <3>6. (Reserves - usdc) * UMaxBps <= 9999
      BY <2>1, <3>5
    <3>7. ActiveCap * FullBps >= 10000
      BY <1>2, <2>3 DEF FullBps
    <3>8. QED
      BY <2>1, <3>2, <3>3, <3>6, <3>7
  <2>4. QED
    BY <1>2, <2>2, <2>3
<1>14. UtilizationBound'
  BY <1>9, <1>13 DEF UtilizationBound
<1>15. Shares' = 0 => Reserves' <= 1 /\ ActiveCap' = 0
  <2> SUFFICES ASSUME Shares' = 0 PROVE Reserves' <= 1 /\ ActiveCap' = 0
    OBVIOUS
  <2>1. burnt = Shares
    BY <1>2, <1>5, <1>9
  <2>2. Reserves - usdc <= 1
    BY <1>6, <2>1
  <2>3. QED
    BY <1>2, <1>6, <1>9, <1>13, <2>2
<1>16. ProtectionIsActive' /\ CapsOfTemplates' /\ ActiveCaps' = ActiveCaps
  BY <1>7, EscrowUnchanged
<1>17. CapsReserved'
  BY <1>7, <1>9, <1>16 DEF ProtocolInv, CapsReserved
<1>18. SharesView!Leave
  <2>1. Reserves' + 1 = Reserves - usdc + 1 /\ Shares' = Shares - burnt
    BY <1>2, <1>6, <1>9
  <2>2. SharesView!Undiluted
    BY <1>6, <2>1 DEF SharesView!Undiluted
  <2>3. QED
    BY <1>2, <1>5, <1>6, <1>9, <1>13, <1>15, <2>2
       DEF SharesView!Leave, SharesView!Covered, SharesView!FullBps, FullBps
<1>19. QED
  BY <1>11, <1>12, <1>14, <1>15, <1>16, <1>17, <1>18 DEF ProtocolInv, NoOrphanReserves

LEMMA InvBuyCertificate ==
  ASSUME ProtocolInv, NEW m \in Mints, NEW t \in TemplateIds, NEW premium \in Premiums,
         BuyCertificate(m, t, premium)
  PROVE  ProtocolInv' /\ SharesView!Sell
<1> DEFINE n == Len(certificates)
           cap == CapDown[t]
           paid == Premium(premium)
           new == [position |-> m, template |-> t, cap |-> cap,
                   expiry |-> clock + Tenor[t], state |-> "active"]
<1>1. TypeOK /\ ProtectionIsActive /\ CapsOfTemplates
  BY DEF ProtocolInv
<1>2. /\ pool \in Pool
      /\ Reserves = pool.reserves /\ Shares = pool.shares /\ ActiveCap = pool.activeCap
      /\ Reserves \in Nat /\ Shares \in Nat /\ ActiveCap \in Nat
  BY <1>1, PoolView DEF BuyCertificate
<1>3. cap \in Nat /\ cap > 0 /\ UMaxBps \in Nat /\ new \in Certificate
  <2>1. cap \in Nat /\ cap > 0 /\ UMaxBps \in Nat
    <3>1. cap \in Nat /\ UMaxBps \in Nat
      BY ProtocolAssumption, SMTT(30)
    <3>2. cap > 0
      BY DEF BuyCertificate
    <3>3. QED
      BY <3>1, <3>2, SMTT(30)
  <2>2. clock + Tenor[t] \in Nat
    BY <1>1, ProtocolAssumption DEF TypeOK
  <2>3. QED
    BY <2>1, <2>2 DEF Certificate
<1>4. paid \in Nat
  <2>1. premium \in Nat /\ ProtocolFeeBps \in 0..10000
    BY ProtocolAssumption
  <2>2. premium * ProtocolFeeBps \in Nat /\ FullBps \in Nat \ {0}
        /\ premium * ProtocolFeeBps <= premium * FullBps
    BY <2>1 DEF FullBps
  <2> DEFINE q == (premium * ProtocolFeeBps) \div FullBps
  <2>3. q \in Nat /\ q * FullBps <= premium * ProtocolFeeBps
    BY <2>2, RoundedDown
  <2> HIDE DEF q
  <2>4. q <= premium
    <3> DEFINE x == premium * ProtocolFeeBps
    <3> HIDE DEF x
    <3>1. q * 10000 <= x /\ x <= premium * 10000 /\ x \in Nat
      BY <2>2, <2>3 DEF FullBps, x
    <3>2. QED
      BY <2>1, <2>3, <3>1
  <2>5. QED
    BY <2>1, <2>3, <2>4, SMTT(30) DEF Premium, q
<1>5. /\ positions[m] \in Position /\ positions[m].locked /\ positions[m].protectedBy = 0
  BY <1>1 DEF BuyCertificate, TypeOK
<1>6. /\ pool' = [pool EXCEPT !.reserves = @ + paid, !.activeCap = @ + cap]
      /\ certificates' = Append(certificates, new)
      /\ positions' = [positions EXCEPT ![m].protectedBy = n + 1]
      /\ UNCHANGED <<shareLedger, templates, regimeAt, clock>>
  BY DEF BuyCertificate
<1>7. ActiveCap + cap <= (Reserves * UMaxBps) \div FullBps
  <2>1. Reserves * UMaxBps \in Nat /\ FullBps \in Nat \ {0}
    BY <1>2, <1>3 DEF FullBps
  <2>2. (Reserves * UMaxBps) \div FullBps \in Nat
    BY <2>1, RoundedDown
  <2>3. cap <= Headroom
    BY DEF BuyCertificate
  <2>4. QED
    BY <1>2, <1>3, <2>2, <2>3 DEF Headroom
<1>8. (ActiveCap + cap) * FullBps <= Reserves * UMaxBps
  BY <1>2, <1>3, <1>7, HeadroomCovers
<1>9. pool' \in Pool /\ pool'.reserves = Reserves + paid
      /\ pool'.shares = Shares /\ pool'.activeCap = ActiveCap + cap
  <2>1. pool' = [reserves |-> Reserves + paid, shares |-> Shares, activeCap |-> ActiveCap + cap]
    BY <1>2, <1>6 DEF Pool
  <2>2. Reserves + paid \in Nat /\ ActiveCap + cap \in Nat
    BY <1>2, <1>3, <1>4
  <2>3. QED
    BY <1>2, <2>1, <2>2 DEF Pool
<1>10. Reserves' = Reserves + paid /\ Shares' = Shares /\ ActiveCap' = ActiveCap + cap
  BY <1>9, PoolViewNext
<1>11. /\ n \in Nat /\ DOMAIN certificates = 1..n
       /\ \A k \in 1..n : /\ certificates[k] \in Certificate
                          /\ ActiveCaps[k] \in Nat
                          /\ ActiveCaps[k] = IF certificates[k].state = "active"
                                             THEN certificates[k].cap ELSE 0
  BY <1>1, ActiveCapsTerms
<1>12. /\ certificates' \in Seq(Certificate) /\ Len(certificates') = n + 1
       /\ DOMAIN certificates' = 1..n+1
       /\ \A k \in 1..n : certificates'[k] = certificates[k]
       /\ certificates'[n + 1] = new
  BY <1>1, <1>3, <1>6, <1>11 DEF TypeOK
<1> HIDE DEF n
<1>13. /\ positions' \in [Mints -> Position \cup {NoPosition}]
       /\ positions'[m] \in Position /\ positions'[m].locked
       /\ positions'[m].protectedBy = n + 1
       /\ \A x \in Mints : x # m => positions'[x] = positions[x]
  <2>1. positions'[m] = [owner |-> positions[m].owner, locked |-> positions[m].locked,
                         protectedBy |-> n + 1]
    BY <1>1, <1>5, <1>6 DEF TypeOK, Position
  <2>2. positions'[m] \in Position
    BY <1>5, <1>11, <2>1 DEF Position
  <2>3. positions' = [positions EXCEPT ![m] = positions'[m]]
    BY <1>1, <1>6 DEF TypeOK
  <2>4. positions \in [Mints -> Position \cup {NoPosition}]
    BY <1>1 DEF TypeOK
  <2> DEFINE p == positions'[m]
  <2>5. p \in Position /\ p.locked /\ p.protectedBy = n + 1
    BY <1>5, <2>1, <2>2
  <2>6. positions' = [positions EXCEPT ![m] = p]
    BY <2>3
  <2> HIDE DEF p
  <2>7. positions' \in [Mints -> Position \cup {NoPosition}]
        /\ \A x \in Mints : x # m => positions'[x] = positions[x]
    BY <2>4, <2>5, <2>6
  <2>8. QED
    BY <2>5, <2>7 DEF p
<1>14. TypeOK'
  BY <1>1, <1>6, <1>9, <1>12, <1>13 DEF TypeOK
<1>15. SharesBacked'
  BY <1>6, <1>10 DEF ProtocolInv, SharesBacked
<1>16. CapsReserved'
  <2>1. \A k \in 1..n+1 : ActiveCaps'[k] = IF certificates'[k].state = "active"
                                           THEN certificates'[k].cap ELSE 0
    BY <1>12 DEF ActiveCaps
  <2>2. \A k \in 1..n : ActiveCaps'[k] = ActiveCaps[k]
    BY <1>11, <1>12, <2>1
  <2>3. ActiveCaps'[n + 1] = cap
    BY <1>11, <1>12, <2>1
  <2>4. Sum(n + 1, ActiveCaps') = Sum(n, ActiveCaps') + cap
    BY <1>11, <2>3, SumStep
  <2>5. Sum(n, ActiveCaps') = Sum(n, ActiveCaps)
    BY <1>11, <2>2, SumAgree
  <2>6. Sum(n, ActiveCaps) = ActiveCap
    BY DEF ProtocolInv, CapsReserved, n
  <2>7. QED
    BY <1>10, <1>12, <2>4, <2>5, <2>6 DEF CapsReserved
<1>17. UtilizationBound'
  <2>1. Reserves * UMaxBps <= (Reserves + paid) * UMaxBps
    BY <1>2, <1>3, <1>4
  <2>2. Reserves * UMaxBps \in Nat /\ (Reserves + paid) * UMaxBps \in Nat
        /\ (ActiveCap + cap) * FullBps \in Nat
    BY <1>2, <1>3, <1>4 DEF FullBps
  <2>3. QED
    BY <1>8, <1>10, <2>1, <2>2 DEF UtilizationBound
<1>18. NoOrphanReserves'
  <2> SUFFICES ASSUME Shares' = 0 PROVE FALSE
    BY DEF NoOrphanReserves
  <2>1. Reserves \in 0..1 /\ UMaxBps \in 1..9999
    BY <1>2, <1>10, ProtocolAssumption DEF ProtocolInv, NoOrphanReserves
  <2>2. Reserves * UMaxBps <= 9999 /\ Reserves * UMaxBps \in Nat
    BY <2>1
  <2>3. (ActiveCap + cap) * FullBps >= 10000
    BY <1>2, <1>3 DEF FullBps
  <2>4. (ActiveCap + cap) * FullBps \in Nat
    BY <1>2, <1>3 DEF FullBps
  <2>5. QED
    BY <1>8, <2>2, <2>3, <2>4
<1>19. ProtectionIsActive'
  <2> SUFFICES ASSUME NEW k \in 1..n+1
               PROVE  certificates'[k].state = "active" <=>
                        LET held == positions'[certificates'[k].position]
                        IN  held # NoPosition /\ held.locked /\ held.protectedBy = k
    BY <1>12 DEF ProtectionIsActive
  <2>1. positions'[m] # NoPosition
    BY <1>13, PositionIsNotNone
  <2>2. CASE k = n + 1
    BY <1>12, <1>13, <2>1, <2>2
  <2>3. CASE k \in 1..n /\ certificates[k].position = m
    <3>1. certificates[k].state # "active"
      BY <1>1, <1>5, <1>11, <2>3 DEF ProtectionIsActive
    <3>2. QED
      BY <1>11, <1>12, <1>13, <2>3, <3>1
  <2>4. CASE k \in 1..n /\ certificates[k].position # m
    <3>1. certificates[k].position \in Mints
      BY <1>11, <2>4 DEF Certificate
    <3>2. positions'[certificates[k].position] = positions[certificates[k].position]
      BY <1>13, <2>4, <3>1
    <3>3. QED
      BY <1>1, <1>11, <1>12, <2>4, <3>2 DEF ProtectionIsActive
  <2>5. QED
    BY <1>11, <2>2, <2>3, <2>4
<1>20. CapsOfTemplates'
  <2>1. \A k \in 1..n : certificates[k].cap = CapDown[certificates[k].template]
                        /\ certificates[k].cap > 0
    BY <1>1, <1>11 DEF CapsOfTemplates
  <2>2. \A k \in 1..n+1 : k \in 1..n \/ k = n + 1
    BY <1>11
  <2>3. QED
    BY <1>3, <1>12, <2>1, <2>2 DEF CapsOfTemplates
<1>21. SharesView!Sell
  BY <1>2, <1>3, <1>4, <1>8, <1>10
     DEF SharesView!Sell, SharesView!Covered, SharesView!FullBps, FullBps
<1>22. QED
  BY <1>14, <1>15, <1>16, <1>17, <1>18, <1>19, <1>20, <1>21 DEF ProtocolInv

LEMMA InvSettleCertificate ==
  ASSUME ProtocolInv, NEW m \in Mints, SettleCertificate(m)
  PROVE  ProtocolInv' /\ SharesView!Settle
<1> DEFINE n == Len(certificates)
           k == CertificateOf(m)
           cap == certificates[k].cap
           t == certificates[k].template
<1>1. TypeOK /\ ProtectionIsActive /\ CapsOfTemplates /\ UtilizationBound
  BY DEF ProtocolInv
<1>2. /\ pool \in Pool
      /\ Reserves = pool.reserves /\ Shares = pool.shares /\ ActiveCap = pool.activeCap
      /\ Reserves \in Nat /\ Shares \in Nat /\ ActiveCap \in Nat
  BY <1>1, PoolView DEF SettleCertificate
<1>3. /\ n \in Nat /\ DOMAIN certificates = 1..n
      /\ \A j \in 1..n : /\ certificates[j] \in Certificate
                         /\ ActiveCaps[j] \in Nat
                         /\ ActiveCaps[j] = IF certificates[j].state = "active"
                                            THEN certificates[j].cap ELSE 0
  BY <1>1, ActiveCapsTerms
<1>4. k \in CertificatesOf(m) /\ certificates[k].state = "active"
  <2>1. k # 0 /\ certificates[k].state = "active"
    BY DEF SettleCertificate, Due
  <2>2. CertificatesOf(m) \subseteq 1..n /\ CertificatesOf(m) # {}
    BY <1>3, <2>1 DEF CertificatesOf, CertificateOf
  <2>3. \E i \in CertificatesOf(m) : \A j \in CertificatesOf(m) : i <= j
    BY <2>2, LeastElement
  <2>4. QED
    BY <2>1, <2>2, <2>3 DEF CertificateOf
<1>5. k \in 1..n /\ certificates[k].position = m /\ certificates[k] \in Certificate
  BY <1>3, <1>4 DEF CertificatesOf
<1> HIDE DEF k, n
<1>6. /\ positions[m] \in Position /\ positions[m].protectedBy = k
  BY <1>1, <1>3, <1>4, <1>5 DEF ProtectionIsActive, TypeOK
<1>7. cap \in Nat /\ cap > 0 /\ t \in TemplateIds /\ cap = CapDown[t]
  BY <1>1, <1>3, <1>5 DEF CapsOfTemplates, Certificate
<1>8. PICK payout \in Payoffs(k), fees \in Fees :
        /\ certificates' = [certificates EXCEPT ![k].state =
                              IF payout # 0 THEN "settled" ELSE "expired"]
        /\ pool' = [pool EXCEPT !.reserves = @ - payout + FeeIncome(fees),
                                !.activeCap = @ - ReleasedCap(k, payout)]
  BY DEF SettleCertificate, k
<1>9. /\ positions' = [positions EXCEPT ![m].protectedBy = 0]
      /\ UNCHANGED <<shareLedger, templates, regimeAt, clock>>
  BY DEF SettleCertificate
<1> DEFINE income == FeeIncome(fees)
           left == Reserves - payout + income
<1>10. income \in Nat
  <2>1. FeeSplitBps * fees \in Nat /\ FullBps \in Nat \ {0}
    BY <1>8, ProtocolAssumption, SMTT(30) DEF FullBps
  <2>2. QED
    BY <2>1, RoundedDown, SMTT(30) DEF FeeIncome
<1> HIDE DEF income
<1>11. payout \in Int /\ payout <= cap + FloatDust /\ FloatDust \in Nat
  <2>1. CapUp[t] \in Nat /\ FloatDust \in Nat
    BY <1>7, ProtocolAssumption, DustAssumption, SMTT(30)
  <2>2. payout \in -(CapUp[t] + FloatDust)..cap + FloatDust
    BY <1>8 DEF Payoffs
  <2>3. QED
    BY <1>7, <2>1, <2>2
<1>12. ActiveCaps[k] = cap /\ Sum(n, ActiveCaps) = ActiveCap
  BY <1>3, <1>4, <1>5 DEF ProtocolInv, CapsReserved, n
<1>13. cap <= ActiveCap
  BY <1>3, <1>5, <1>12, TermAtMostSum
<1>14. left \in Nat /\ (ActiveCap - cap) * FullBps <= left * UMaxBps
  <2>1. UMaxBps \in Nat \ {0} /\ UMaxBps <= FullBps
    BY ProtocolAssumption DEF FullBps
  <2>2. cap * (FullBps - UMaxBps) >= FloatDust * UMaxBps
    BY <1>7, DustAssumption DEF FullBps
  <2>3. ActiveCap * FullBps <= Reserves * UMaxBps
    BY <1>1 DEF UtilizationBound
  <2>4. left \in Int /\ left >= Reserves - (cap + FloatDust)
    BY <1>2, <1>7, <1>10, <1>11
  <2> HIDE DEF left, cap
  <2>5. /\ Reserves \in Nat /\ ActiveCap \in Nat /\ cap \in Nat /\ FloatDust \in Nat
        /\ cap <= ActiveCap
    BY <1>2, <1>7, <1>11, <1>13
  <2>6. QED
    BY ONLY <2>1, <2>2, <2>3, <2>4, <2>5, SettlementLeavesCovered, ZenonT(30)
<1> HIDE DEF cap, t
<1>15. pool' \in Pool /\ pool'.reserves = left
       /\ pool'.shares = Shares /\ pool'.activeCap = ActiveCap - cap
  <2>1. pool' = [reserves |-> left, shares |-> Shares, activeCap |-> ActiveCap - cap]
    BY <1>2, <1>8 DEF Pool, ReleasedCap, cap, income
  <2>2. ActiveCap - cap \in Nat
    BY <1>2, <1>7, <1>13
  <2> HIDE DEF left
  <2>3. QED
    BY <1>2, <1>14, <2>1, <2>2 DEF Pool
<1>16. Reserves' = left /\ Shares' = Shares /\ ActiveCap' = ActiveCap - cap
  BY <1>15, PoolViewNext
<1> DEFINE ended == certificates'[k]
<1>17. /\ certificates' \in Seq(Certificate) /\ Len(certificates') = n
       /\ DOMAIN certificates' = 1..n
       /\ ended.state # "active" /\ ended.position = m
       /\ ended.cap = cap /\ ended.template = t
       /\ \A j \in 1..n : j # k => certificates'[j] = certificates[j]
  <2> DEFINE e == [certificates[k] EXCEPT !.state = IF payout # 0 THEN "settled" ELSE "expired"]
  <2>1. e = [position |-> m, template |-> t, cap |-> cap,
             expiry |-> certificates[k].expiry,
             state |-> IF payout # 0 THEN "settled" ELSE "expired"]
    BY <1>5 DEF Certificate, cap, t
  <2>2. certificates[k].expiry \in Nat
    BY <1>5 DEF Certificate
  <2>3. e \in Certificate
    BY <1>7, <2>1, <2>2 DEF Certificate
  <2>4. e.state # "active" /\ e.position = m /\ e.cap = cap /\ e.template = t
    BY <2>1
  <2>5. certificates' = [certificates EXCEPT ![k] = e]
    BY <1>8
  <2>6. certificates \in Seq(Certificate) /\ Len(certificates) = n
    BY <1>1 DEF TypeOK, n
  <2> HIDE DEF e
  <2>7. certificates' \in Seq(Certificate) /\ Len(certificates') = n
    BY <1>5, <2>3, <2>5, <2>6
  <2>8. ended = e /\ \A j \in 1..n : j # k => certificates'[j] = certificates[j]
    BY <1>3, <1>5, <2>5
  <2>9. QED
    BY <1>3, <2>4, <2>7, <2>8
<1> HIDE DEF ended
<1>18. /\ positions' \in [Mints -> Position \cup {NoPosition}]
       /\ positions'[m].protectedBy = 0
       /\ \A x \in Mints : x # m => positions'[x] = positions[x]
  <2> DEFINE p == [positions[m] EXCEPT !.protectedBy = 0]
  <2>1. p \in Position /\ p.protectedBy = 0
    BY <1>6 DEF Position
  <2>2. positions' = [positions EXCEPT ![m] = p]
    BY <1>9
  <2>3. positions \in [Mints -> Position \cup {NoPosition}]
    BY <1>1 DEF TypeOK
  <2> HIDE DEF p
  <2>4. QED
    BY <2>1, <2>2, <2>3
<1>19. TypeOK'
  BY <1>1, <1>9, <1>15, <1>17, <1>18 DEF TypeOK
<1>20. SharesBacked'
  BY <1>9, <1>16 DEF ProtocolInv, SharesBacked
<1>21. CapsReserved'
  <2>1. \A j \in 1..n : ActiveCaps'[j] = IF certificates'[j].state = "active"
                                         THEN certificates'[j].cap ELSE 0
    BY <1>17 DEF ActiveCaps
  <2>2. \A j \in 1..n : j # k => ActiveCaps'[j] = ActiveCaps[j]
    BY <1>3, <1>17, <2>1
  <2>3. ActiveCaps'[k] = 0
    BY <1>5, <1>17, <2>1 DEF ended
  <2>4. \A j \in 1..n : /\ ActiveCaps[j] \in Int /\ ActiveCaps'[j] \in Int
                        /\ j # k => ActiveCaps'[j] = ActiveCaps[j]
    BY <1>3, <2>2, <2>3
  <2>5. Sum(n, ActiveCaps') = Sum(n, ActiveCaps) - ActiveCaps[k] + ActiveCaps'[k]
    BY <1>3, <1>5, <2>4, SumUpdate
  <2>6. QED
    BY <1>2, <1>7, <1>12, <1>16, <1>17, <2>3, <2>5 DEF CapsReserved
<1>22. UtilizationBound'
  BY <1>14, <1>16 DEF UtilizationBound
<1>23. NoOrphanReserves'
  <2>1. Shares # 0
    BY <1>2, <1>7, <1>13 DEF ProtocolInv, NoOrphanReserves
  <2>2. QED
    BY <1>16, <2>1 DEF NoOrphanReserves
<1>24. ProtectionIsActive'
  <2> SUFFICES ASSUME NEW j \in 1..n
               PROVE  certificates'[j].state = "active" <=>
                        LET held == positions'[certificates'[j].position]
                        IN  held # NoPosition /\ held.locked /\ held.protectedBy = j
    BY <1>17 DEF ProtectionIsActive
  <2>1. j # 0
    BY <1>3
  <2>2. CASE j = k
    BY <1>17, <1>18, <2>1, <2>2 DEF ended
  <2>3. CASE j # k /\ certificates[j].position = m
    <3>1. certificates[j].state # "active"
      BY <1>1, <1>3, <1>6, <2>3 DEF ProtectionIsActive
    <3>2. QED
      BY <1>17, <1>18, <2>1, <2>3, <3>1
  <2>4. CASE j # k /\ certificates[j].position # m
    <3>1. certificates[j].position \in Mints
      BY <1>3 DEF Certificate
    <3>2. positions'[certificates[j].position] = positions[certificates[j].position]
      BY <1>18, <2>4, <3>1
    <3>3. certificates'[j] = certificates[j]
      BY <1>17, <2>4
    <3>4. QED
      BY <1>1, <1>3, <3>2, <3>3 DEF ProtectionIsActive
  <2>5. QED
    BY <2>2, <2>3, <2>4
<1>25. CapsOfTemplates'
  <2>1. \A j \in 1..n : certificates'[j].cap = certificates[j].cap
                        /\ certificates'[j].template = certificates[j].template
    BY <1>17 DEF ended, cap, t
  <2>2. QED
    BY <1>1, <1>3, <1>17, <2>1 DEF CapsOfTemplates
<1>26. SharesView!Settle
  <2>1. left \in Int /\ Reserves - left <= cap + FloatDust
    BY <1>2, <1>7, <1>10, <1>11
  <2> HIDE DEF left
  <2>2. ActiveCap - cap \in Nat /\ ActiveCap - cap < ActiveCap
        /\ ActiveCap - (ActiveCap - cap) = cap
    BY <1>2, <1>7, <1>13
  <2>3. QED
    BY <1>16, <2>1, <2>2 DEF SharesView!Settle
<1>27. QED
  BY <1>19, <1>20, <1>21, <1>22, <1>23, <1>24, <1>25, <1>26 DEF ProtocolInv

LEMMA InvRegister ==
  ASSUME ProtocolInv, NEW owner \in Lps, NEW m \in Mints, RegisterLockedPosition(owner, m)
  PROVE  ProtocolInv' /\ UNCHANGED <<Reserves, Shares, ActiveCap>>
<1> DEFINE p == [owner |-> owner, locked |-> TRUE, protectedBy |-> 0]
<1>1. TypeOK /\ ProtectionIsActive
  BY DEF ProtocolInv
<1>2. /\ positions[m] = NoPosition
      /\ positions' = [positions EXCEPT ![m] = p]
      /\ UNCHANGED <<pool, shareLedger, certificates, templates, regimeAt, clock>>
  BY DEF RegisterLockedPosition
<1>3. p \in Position /\ p.protectedBy = 0
  BY DEF Position
<1> HIDE DEF p
<1>4. positions \in [Mints -> Position \cup {NoPosition}]
  BY <1>1 DEF TypeOK
<1>5. /\ positions' \in [Mints -> Position \cup {NoPosition}]
      /\ positions'[m] = p /\ \A x \in Mints : x # m => positions'[x] = positions[x]
  BY <1>2, <1>3, <1>4
<1>6. TypeOK'
  BY <1>1, <1>2, <1>5 DEF TypeOK
<1>7. ProtectionIsActive'
  <2> SUFFICES ASSUME NEW k \in 1..Len(certificates)
               PROVE  certificates[k].state = "active" <=>
                        LET held == positions'[certificates[k].position]
                        IN  held # NoPosition /\ held.locked /\ held.protectedBy = k
    BY <1>1, <1>2, ActiveCapsTerms DEF ProtectionIsActive
  <2>1. k # 0 /\ k \in DOMAIN certificates /\ certificates[k].position \in Mints
    BY <1>1, ActiveCapsTerms DEF Certificate
  <2>2. CASE certificates[k].position = m
    <3>1. certificates[k].state # "active"
      BY <1>1, <1>2, <2>1, <2>2 DEF ProtectionIsActive
    <3>2. QED
      BY <1>3, <1>5, <2>1, <2>2, <3>1
  <2>3. CASE certificates[k].position # m
    BY <1>1, <1>5, <2>1, <2>3 DEF ProtectionIsActive
  <2>4. QED
    BY <2>2, <2>3
<1>8. QED
  BY <1>2, <1>6, <1>7, BooksUnchanged DEF ProtocolInv

LEMMA InvRelease ==
  ASSUME ProtocolInv, NEW owner \in Lps, NEW m \in Mints, ReleasePosition(owner, m)
  PROVE  ProtocolInv' /\ UNCHANGED <<Reserves, Shares, ActiveCap>>
<1> DEFINE p == [positions[m] EXCEPT !.locked = FALSE]
<1>1. TypeOK /\ ProtectionIsActive
  BY DEF ProtocolInv
<1>2. positions[m] \in Position /\ positions[m].protectedBy = 0
  BY <1>1 DEF ReleasePosition, TypeOK
<1>3. /\ positions' = [positions EXCEPT ![m] = p]
      /\ UNCHANGED <<pool, shareLedger, certificates, templates, regimeAt, clock>>
  BY DEF ReleasePosition
<1>4. p \in Position /\ p.protectedBy = 0
  BY <1>2 DEF Position
<1> HIDE DEF p
<1>5. positions \in [Mints -> Position \cup {NoPosition}]
  BY <1>1 DEF TypeOK
<1>6. /\ positions' \in [Mints -> Position \cup {NoPosition}]
      /\ positions'[m] = p /\ \A x \in Mints : x # m => positions'[x] = positions[x]
  BY <1>3, <1>4, <1>5
<1>7. TypeOK'
  BY <1>1, <1>3, <1>6 DEF TypeOK
<1>8. ProtectionIsActive'
  <2> SUFFICES ASSUME NEW k \in 1..Len(certificates)
               PROVE  certificates[k].state = "active" <=>
                        LET held == positions'[certificates[k].position]
                        IN  held # NoPosition /\ held.locked /\ held.protectedBy = k
    BY <1>1, <1>3, ActiveCapsTerms DEF ProtectionIsActive
  <2>1. k # 0 /\ k \in DOMAIN certificates /\ certificates[k].position \in Mints
    BY <1>1, ActiveCapsTerms DEF Certificate
  <2>2. CASE certificates[k].position = m
    <3>1. certificates[k].state # "active"
      BY <1>1, <1>2, <2>1, <2>2 DEF ProtectionIsActive
    <3>2. QED
      BY <1>4, <1>6, <2>1, <2>2, <3>1
  <2>3. CASE certificates[k].position # m
    BY <1>1, <1>6, <2>1, <2>3 DEF ProtectionIsActive
  <2>4. QED
    BY <2>2, <2>3
<1>9. QED
  BY <1>3, <1>7, <1>8, BooksUnchanged DEF ProtocolInv

LEMMA InvInitPool ==
  ASSUME ProtocolInv, InitPool
  PROVE  ProtocolInv' /\ UNCHANGED <<Reserves, Shares, ActiveCap>>
<1>1. /\ pool = NoPool /\ pool' = [reserves |-> 0, shares |-> 0, activeCap |-> 0]
      /\ UNCHANGED <<shareLedger, positions, certificates, templates, regimeAt, clock>>
  BY DEF InitPool
<1>2. pool' \in Pool
  BY <1>1 DEF Pool
<1>3. Reserves' = 0 /\ Shares' = 0 /\ ActiveCap' = 0
  BY <1>1, <1>2, PoolViewNext
<1>4. Reserves = 0 /\ Shares = 0 /\ ActiveCap = 0
  BY <1>1 DEF Reserves, Shares, ActiveCap
<1>5. TypeOK'
  BY <1>1, <1>2 DEF ProtocolInv, TypeOK
<1>6. ProtectionIsActive' /\ CapsOfTemplates' /\ ActiveCaps' = ActiveCaps
  BY <1>1, EscrowUnchanged
<1>7. SharesBacked' /\ CapsReserved' /\ UtilizationBound' /\ NoOrphanReserves'
  BY <1>1, <1>3, <1>4, <1>6
     DEF ProtocolInv, SharesBacked, CapsReserved, UtilizationBound, NoOrphanReserves
<1>8. QED
  BY <1>3, <1>4, <1>5, <1>6, <1>7 DEF ProtocolInv

\* Templates, regime, time and stuttering.
LEMMA InvRest ==
  ASSUME ProtocolInv,
         \/ \E t \in TemplateIds : CreateTemplate(t)
         \/ UpdateRegimeSnapshot
         \/ Tick
         \/ UNCHANGED vars
  PROVE  ProtocolInv' /\ UNCHANGED <<Reserves, Shares, ActiveCap>>
<1>1. UNCHANGED <<pool, shareLedger, positions, certificates>>
  BY DEF CreateTemplate, UpdateRegimeSnapshot, Tick, vars
<1>2. TypeOK
  BY DEF ProtocolInv
<1>3. templates' \subseteq TemplateIds /\ regimeAt' \in Int /\ clock' \in Nat
  BY <1>2 DEF TypeOK, CreateTemplate, UpdateRegimeSnapshot, Tick, vars
<1>4. TypeOK'
  BY <1>1, <1>2, <1>3 DEF TypeOK
<1>5. ProtectionIsActive'
  BY <1>1, EscrowUnchanged
<1>6. QED
  BY <1>1, <1>4, <1>5, BooksUnchanged DEF ProtocolInv

\* Every step keeps the invariant, and is a step of SharePool or leaves the
\* pool alone.
LEMMA ProtocolStep ==
  ASSUME ProtocolInv, [Next]_vars
  PROVE  ProtocolInv' /\ [SharesView!Next]_(SharesView!claims)
<1> USE DEF SharesView!Next, SharesView!claims
<1>1. CASE InitPool
  BY <1>1, InvInitPool
<1>2. CASE \E o \in Owners, amount \in Amounts : Deposit(o, amount)
  BY <1>2, InvDeposit
<1>3. CASE \E o \in Owners : \E burnt \in 1..shareLedger[o] : Withdraw(o, burnt)
  BY <1>3, InvWithdraw
<1>4. CASE \E owner \in Lps, m \in Mints : RegisterLockedPosition(owner, m)
  BY <1>4, InvRegister
<1>5. CASE \E owner \in Lps, m \in Mints : ReleasePosition(owner, m)
  BY <1>5, InvRelease
<1>6. CASE \E m \in Mints, t \in TemplateIds, premium \in Premiums : BuyCertificate(m, t, premium)
  BY <1>6, InvBuyCertificate
<1>7. CASE \E m \in Mints : SettleCertificate(m)
  BY <1>7, InvSettleCertificate
<1>8. CASE \/ \E t \in TemplateIds : CreateTemplate(t)
           \/ UpdateRegimeSnapshot
           \/ Tick
           \/ UNCHANGED vars
  BY <1>8, InvRest
<1>9. QED
  BY <1>1, <1>2, <1>3, <1>4, <1>5, <1>6, <1>7, <1>8 DEF Next

LEMMA ProtocolInit == Init => ProtocolInv /\ SharesView!Init
<1> SUFFICES ASSUME Init PROVE ProtocolInv /\ SharesView!Init
  OBVIOUS
<1>1. Reserves = 0 /\ Shares = 0 /\ ActiveCap = 0
  BY DEF Init, Reserves, Shares, ActiveCap
<1>2. TypeOK
  BY DEF Init, TypeOK
<1>3. SharesBacked
  <2>1. NumOwners \in Nat /\ \A o \in 1..NumOwners : shareLedger[o] = 0
    BY ProtocolAssumption DEF Init, Owners
  <2> DEFINE S == {j \in Nat : j <= NumOwners => Sum(j, shareLedger) = 0}
  <2>2. 0 \in S
    BY SumZero
  <2>3. ASSUME NEW j \in Nat, j \in S PROVE j + 1 \in S
    BY <2>1, <2>3, SumStep
  <2> HIDE DEF S
  <2>4. Nat \subseteq S
    BY <2>2, <2>3, SetInduction
  <2>5. QED
    BY <1>1, <2>1, <2>4, SMTT(30) DEF SharesBacked, S
<1>4. CapsReserved
  BY <1>1, SumZero DEF Init, CapsReserved
<1>5. ProtectionIsActive /\ CapsOfTemplates
  BY DEF Init, ProtectionIsActive, CapsOfTemplates
<1>6. UtilizationBound /\ NoOrphanReserves
  BY <1>1, ProtocolAssumption DEF UtilizationBound, NoOrphanReserves, FullBps
<1>7. QED
  BY <1>1, <1>2, <1>3, <1>4, <1>5, <1>6 DEF ProtocolInv, SharesView!Init

-----------------------------------------------------------------------------
(* The theorems *)

\* The inductive invariant holds in every reachable state of the pool, the
\* templates and the certificates: the theorems below read off their property.
THEOREM ProtocolInvariant == Spec => []ProtocolInv
<1>1. ProtocolInv /\ [Next]_vars => ProtocolInv'
  BY ProtocolStep
<1>2. QED
  BY <1>1, ProtocolInit, PTL DEF Spec

\* Reserves, shares and exposure never fall below zero, whatever is paid out.
THEOREM ProtocolTypeOK == Spec => []TypeOK
<1>1. ProtocolInv => TypeOK
  BY DEF ProtocolInv
<1>2. QED
  BY <1>1, ProtocolInvariant, PTL

\* The two records of shares agree.
THEOREM ProtocolSharesBacked == Spec => []SharesBacked
<1>1. ProtocolInv => SharesBacked
  BY DEF ProtocolInv
<1>2. QED
  BY <1>1, ProtocolInvariant, PTL

\* The exposure is that of the certificates in force.
THEOREM ProtocolCapsReserved == Spec => []CapsReserved
<1>1. ProtocolInv => CapsReserved
  BY DEF ProtocolInv
<1>2. QED
  BY <1>1, ProtocolInvariant, PTL

\* The exposure stays within the ceiling.
THEOREM ProtocolUtilization == Spec => []UtilizationBound
<1>1. ProtocolInv => UtilizationBound
  BY DEF ProtocolInv
<1>2. QED
  BY <1>1, ProtocolInvariant, PTL

\* The last share takes all exposure with it and all reserves but a micro-USDC,
\* whatever the doubles of pool.ts round.
THEOREM ProtocolNoOrphans == Spec => []NoOrphanReserves
<1>1. ProtocolInv => NoOrphanReserves
  BY DEF ProtocolInv
<1>2. QED
  BY <1>1, ProtocolInvariant, PTL

\* A position is protected exactly while a certificate of it is in force.
THEOREM ProtocolProtects == Spec => []ProtectionIsActive
<1>1. ProtocolInv => ProtectionIsActive
  BY DEF ProtocolInv
<1>2. QED
  BY <1>1, ProtocolInvariant, PTL

\* The pool keeps what it promises its depositors: with shares priced in doubles
\* of any precision, nobody enters or leaves at the cost of a micro-USDC.
THEOREM ProtocolImplementsSharePool == Spec => ImplementsSharePool
<1>1. ProtocolInv /\ [Next]_vars => ProtocolInv' /\ [SharesView!Next]_(SharesView!claims)
  BY ProtocolStep
<1>2. Init => ProtocolInv /\ SharesView!Init
  BY ProtocolInit
<1>3. QED
  BY <1>1, <1>2, PTL DEF Spec, ImplementsSharePool, SharesView!Spec

-----------------------------------------------------------------------------
(* Fees of a position: accumulators that wrap *)

\* The remainder of what is below three times the modulus.
LEMMA ModValues ==
  ASSUME NEW x \in Nat
  PROVE  /\ x % Modulus \in Growth
         /\ x < Modulus => x % Modulus = x
         /\ x >= Modulus /\ x < 2 * Modulus => x % Modulus = x - Modulus
         /\ x >= 2 * Modulus /\ x < 3 * Modulus => x % Modulus = x - 2 * Modulus
<1>1. Modulus \in Nat /\ Modulus > 0
  BY GrowthAssumption
<1>2. x % Modulus \in Growth
  BY <1>1 DEF Growth
<1>3. x < Modulus => x % Modulus = x
  BY <1>1
<1>4. x >= Modulus /\ x < 2 * Modulus => x % Modulus = x - Modulus
  BY <1>1
<1>5. x >= 2 * Modulus /\ x < 3 * Modulus => x % Modulus = x - 2 * Modulus
  BY <1>1
<1>6. QED
  BY <1>2, <1>3, <1>4, <1>5

\* The difference of two accumulators, in the order in which they were read.
LEMMA WrapSubValue ==
  ASSUME NEW a \in Growth, NEW b \in Growth
  PROVE  /\ WrapSub(a, b) \in Growth
         /\ WrapSub(a, b) = IF a >= b THEN a - b ELSE a - b + Modulus
<1>1. Modulus \in Nat /\ a \in Nat /\ b \in Nat /\ a < Modulus /\ b < Modulus
  BY GrowthAssumption DEF Growth
<1>2. a - b + Modulus \in Nat /\ a - b + Modulus < 2 * Modulus
  BY <1>1
<1>3. QED
  BY <1>1, <1>2, ModValues DEF WrapSub

\* One swap's fee.
LEMMA NextGrowth ==
  ASSUME NEW a \in Growth
  PROVE  /\ (a + 1) % Modulus \in Growth
         /\ (a + 1) % Modulus = IF a + 1 = Modulus THEN 0 ELSE a + 1
<1>1. Modulus \in Nat /\ a \in Nat /\ a < Modulus
  BY GrowthAssumption DEF Growth
<1>2. QED
  BY <1>1, ModValues

\* Accumulators form a group: what is subtracted may be subtracted in any order,
\* what is subtracted twice comes back, and one more at the end is one more.
LEMMA WrapSubGroup ==
  ASSUME NEW g \in Growth, NEW l \in Growth, NEW u \in Growth
  PROVE  /\ WrapSub(WrapSub(g, l), u) = WrapSub(WrapSub(g, u), l)
         /\ WrapSub(g, WrapSub(g, l)) = l
         /\ WrapSub(WrapSub(g, l), WrapSub(g, u)) = WrapSub(u, l)
         /\ WrapSub(g, g) = 0
         /\ WrapSub((g + 1) % Modulus, l) = (WrapSub(g, l) + 1) % Modulus
<1> DEFINE x == WrapSub(g, l)
           y == WrapSub(g, u)
           h == (g + 1) % Modulus
<1>1. Modulus \in Nat \ {0} /\ Growth = 0..(Modulus - 1)
  BY GrowthAssumption DEF Growth
<1>2. x \in Growth /\ x = IF g >= l THEN g - l ELSE g - l + Modulus
  BY WrapSubValue
<1>3. y \in Growth /\ y = IF g >= u THEN g - u ELSE g - u + Modulus
  BY WrapSubValue
<1>4. h \in Growth /\ h = IF g + 1 = Modulus THEN 0 ELSE g + 1
  BY NextGrowth
<1>5. WrapSub(u, l) = IF u >= l THEN u - l ELSE u - l + Modulus
  BY WrapSubValue
<1> HIDE DEF x, y, h
<1>6. WrapSub(x, u) = IF x >= u THEN x - u ELSE x - u + Modulus
  BY <1>2, WrapSubValue
<1>7. WrapSub(y, l) = IF y >= l THEN y - l ELSE y - l + Modulus
  BY <1>3, WrapSubValue
<1>8. WrapSub(x, y) = IF x >= y THEN x - y ELSE x - y + Modulus
  BY <1>2, <1>3, WrapSubValue
<1>9. WrapSub(g, x) = IF g >= x THEN g - x ELSE g - x + Modulus
  BY <1>2, WrapSubValue
<1>10. WrapSub(h, l) = IF h >= l THEN h - l ELSE h - l + Modulus
  BY <1>4, WrapSubValue
<1>11. (x + 1) % Modulus = IF x + 1 = Modulus THEN 0 ELSE x + 1
  BY <1>2, NextGrowth
<1>12. WrapSub(g, g) = 0
  BY <1>1, WrapSubValue
<1>13. WrapSub(x, u) = WrapSub(y, l)
  BY <1>1, <1>2, <1>3, <1>6, <1>7
<1>14. WrapSub(g, x) = l
  BY <1>1, <1>2, <1>9
<1>15. WrapSub(x, y) = WrapSub(u, l)
  BY <1>1, <1>2, <1>3, <1>5, <1>8
<1>16. WrapSub(h, l) = (x + 1) % Modulus
  BY <1>1, <1>2, <1>4, <1>10, <1>11
<1>17. QED
  BY <1>12, <1>13, <1>14, <1>15, <1>16 DEF x, y, h

\* The growth inside by tick: below the range and above it only the outside
\* growths count, inside it also the global one.
LEMMA InsideByTick ==
  ASSUME NEW p, NEW lower, NEW upper, NEW t \in Tokens,
         p.tick \in 0..2, p.global[t] \in Growth, lower[t] \in Growth, upper[t] \in Growth
  PROVE  /\ FeeGrowthInside(p, lower, upper, t) \in Growth
         /\ p.tick = 0 => FeeGrowthInside(p, lower, upper, t) = WrapSub(lower[t], upper[t])
         /\ p.tick = 1 => FeeGrowthInside(p, lower, upper, t)
                            = WrapSub(WrapSub(p.global[t], lower[t]), upper[t])
         /\ p.tick = 2 => FeeGrowthInside(p, lower, upper, t) = WrapSub(upper[t], lower[t])
<1> DEFINE g == p.global[t]
           l == lower[t]
           u == upper[t]
<1>1. /\ WrapSub(g, WrapSub(g, l)) = l
      /\ WrapSub(WrapSub(g, l), WrapSub(g, u)) = WrapSub(u, l)
  BY WrapSubGroup
<1>2. /\ WrapSub(l, u) \in Growth /\ WrapSub(u, l) \in Growth /\ WrapSub(g, l) \in Growth
  BY WrapSubValue
<1>3. WrapSub(WrapSub(g, l), u) \in Growth
  BY <1>2, WrapSubValue
<1>4. CASE p.tick = 0
  <2>1. ~(p.tick >= TickLower) /\ p.tick < TickUpper
    BY <1>4 DEF TickLower, TickUpper
  <2>2. FeeGrowthInside(p, lower, upper, t) = WrapSub(WrapSub(g, WrapSub(g, l)), u)
    BY <2>1 DEF FeeGrowthInside
  <2>3. QED
    BY <1>1, <1>2, <1>4, <2>2
<1>5. CASE p.tick = 1
  <2>1. p.tick >= TickLower /\ p.tick < TickUpper
    BY <1>5 DEF TickLower, TickUpper
  <2>2. FeeGrowthInside(p, lower, upper, t) = WrapSub(WrapSub(g, l), u)
    BY <2>1 DEF FeeGrowthInside
  <2>3. QED
    BY <1>3, <1>5, <2>2
<1>6. CASE p.tick = 2
  <2>1. p.tick >= TickLower /\ ~(p.tick < TickUpper)
    BY <1>6 DEF TickLower, TickUpper
  <2>2. FeeGrowthInside(p, lower, upper, t) = WrapSub(WrapSub(g, l), WrapSub(g, u))
    BY <2>1 DEF FeeGrowthInside
  <2>3. QED
    BY <1>1, <1>2, <1>6, <2>2
<1>7. QED
  BY <1>4, <1>5, <1>6

-----------------------------------------------------------------------------
(* The position *)

\* While the position has liquidity, the growth inside the range has moved by
\* what really grew since its last update; and its owner is owed what was owed
\* then and the liquidity's part of that.
Tracks ==
  /\ position.liquidity > 0 =>
       \A t \in Tokens : WrapSub(Inside(t), position.checkpoint[t]) = grown[t] - marked[t]
  /\ \A t \in Tokens :
       earned[t] = position.owed[t] + position.liquidity * (grown[t] - marked[t])

GrowthInv == GrowthTypeOK /\ Tracks

LEMMA GrowthFields ==
  ASSUME GrowthTypeOK
  PROVE  /\ whirlpool.tick \in 0..2
         /\ \A t \in Tokens :
              /\ whirlpool.global[t] \in Growth
              /\ ticks.lower[t] \in Growth /\ ticks.upper[t] \in Growth
              /\ position.checkpoint[t] \in Growth /\ position.owed[t] \in Nat
              /\ grown[t] \in Nat /\ marked[t] \in Nat /\ earned[t] \in Nat
              /\ grown[t] - marked[t] \in Nat /\ grown[t] - marked[t] < Modulus
         /\ position.liquidity \in Nat
         /\ Modulus \in Nat \ {0} /\ Growth = 0..(Modulus - 1)
         /\ \A t \in Tokens : Inside(t) \in Growth
<1>1. /\ whirlpool.tick \in 0..2
      /\ \A t \in Tokens : /\ whirlpool.global[t] \in Growth
                           /\ ticks.lower[t] \in Growth /\ ticks.upper[t] \in Growth
  BY DEF GrowthTypeOK
<1>2. /\ \A t \in Tokens :
           /\ position.checkpoint[t] \in Growth /\ position.owed[t] \in Nat
           /\ grown[t] \in Nat /\ marked[t] \in Nat /\ earned[t] \in Nat
           /\ grown[t] - marked[t] \in 0..(Modulus - 1)
      /\ position.liquidity \in Nat
  BY DEF GrowthTypeOK
<1>3. Modulus \in Nat \ {0} /\ Growth = 0..(Modulus - 1)
  BY GrowthAssumption DEF Growth
<1>4. \A t \in Tokens : Inside(t) \in Growth
  BY <1>1, InsideByTick DEF Inside
<1>5. QED
  BY <1>1, <1>2, <1>3, <1>4

\* A swap moves the growth inside by what it pays into the range, whichever
\* tick it crosses.
LEMMA SwapMovesInside ==
  ASSUME GrowthTypeOK, NEW token \in Tokens, NEW to \in 0..2, Swap(token, to),
         Initialized, NEW t \in Tokens
  PROVE  Inside(t)' = IF InRange /\ t = token THEN (Inside(t) + 1) % Modulus ELSE Inside(t)
<1> DEFINE g == whirlpool.global[t]
           l == ticks.lower[t]
           u == ticks.upper[t]
           k == IF t = token THEN (g + 1) % Modulus ELSE g
           crosses(index) == (whirlpool.tick < index) # (to < index)
<1>1. g \in Growth /\ l \in Growth /\ u \in Growth /\ whirlpool.tick \in 0..2
  BY GrowthFields
<1>2. k \in Growth
  BY <1>1, NextGrowth
<1>3. /\ whirlpool'.tick = to
      /\ whirlpool'.global[t] = k
      /\ ticks'.lower[t] = IF crosses(TickLower) THEN WrapSub(k, l) ELSE l
      /\ ticks'.upper[t] = IF crosses(TickUpper) THEN WrapSub(k, u) ELSE u
  <2> DEFINE global == [whirlpool.global EXCEPT ![token] = (@ + 1) % Modulus]
             Over(tick) == [s \in Tokens |-> WrapSub(global[s], tick[s])]
             crossed(index) == Initialized /\ crosses(index)
  <2>1. /\ whirlpool' = [tick |-> to, global |-> global]
        /\ ticks' = [lower |-> IF crossed(TickLower) THEN Over(ticks.lower) ELSE ticks.lower,
                     upper |-> IF crossed(TickUpper) THEN Over(ticks.upper) ELSE ticks.upper]
    BY DEF Swap
  <2>2. global[t] = k
    BY DEF GrowthTypeOK
  <2>3. Over(ticks.lower)[t] = WrapSub(k, l) /\ Over(ticks.upper)[t] = WrapSub(k, u)
    BY <2>2
  <2> HIDE DEF global, Over
  <2>4. whirlpool'.tick = to /\ whirlpool'.global[t] = k
    BY <2>1, <2>2
  <2>5. /\ ticks'.lower = IF crossed(TickLower) THEN Over(ticks.lower) ELSE ticks.lower
        /\ ticks'.upper = IF crossed(TickUpper) THEN Over(ticks.upper) ELSE ticks.upper
    BY <2>1
  <2>6. QED
    BY <2>3, <2>4, <2>5
<1>4. to \in 0..2 /\ (to = whirlpool.tick \/ to = whirlpool.tick + 1 \/ to = whirlpool.tick - 1)
  <2>1. to = whirlpool.tick \/ to = whirlpool.tick + (IF token = "A" THEN -1 ELSE 1)
    BY DEF Swap
  <2>2. QED
    BY <1>1, <2>1
<1>5. /\ WrapSub(k, l) \in Growth /\ WrapSub(k, u) \in Growth
      /\ WrapSub(k, WrapSub(k, l)) = l
      /\ WrapSub(WrapSub(k, l), u) = WrapSub(WrapSub(k, u), l)
      /\ WrapSub(WrapSub(k, l), WrapSub(k, u)) = WrapSub(u, l)
  <2> HIDE DEF k
  <2>1. WrapSub(k, l) \in Growth /\ WrapSub(k, u) \in Growth
    BY <1>1, <1>2, WrapSubValue
  <2>2. WrapSub(k, WrapSub(k, l)) = l
    BY <1>1, <1>2, WrapSubGroup
  <2>3. WrapSub(WrapSub(k, l), u) = WrapSub(WrapSub(k, u), l)
    BY <1>1, <1>2, WrapSubGroup
  <2>4. WrapSub(WrapSub(k, l), WrapSub(k, u)) = WrapSub(u, l)
    BY <1>1, <1>2, WrapSubGroup
  <2>5. QED
    BY <2>1, <2>2, <2>3, <2>4
<1>6. WrapSub(WrapSub(k, l), u)
        = IF t = token THEN (WrapSub(WrapSub(g, l), u) + 1) % Modulus
                       ELSE WrapSub(WrapSub(g, l), u)
  <2>1. CASE t = token
    <3>1. WrapSub(k, l) = (WrapSub(g, l) + 1) % Modulus
      BY <1>1, <2>1, WrapSubGroup
    <3>2. WrapSub(g, l) \in Growth
      BY <1>1, WrapSubValue
    <3>3. WrapSub((WrapSub(g, l) + 1) % Modulus, u) = (WrapSub(WrapSub(g, l), u) + 1) % Modulus
      BY <1>1, <3>2, WrapSubGroup
    <3>4. QED
      BY <2>1, <3>1, <3>3
  <2>2. CASE t # token
    BY <2>2
  <2>3. QED
    BY <2>1, <2>2
<1> HIDE DEF k
<1>7. /\ ticks'.lower[t] \in Growth /\ ticks'.upper[t] \in Growth
  BY <1>1, <1>3, <1>5
<1>8. /\ to = 0 => Inside(t)' = WrapSub(ticks'.lower[t], ticks'.upper[t])
      /\ to = 1 => Inside(t)' = WrapSub(WrapSub(k, ticks'.lower[t]), ticks'.upper[t])
      /\ to = 2 => Inside(t)' = WrapSub(ticks'.upper[t], ticks'.lower[t])
  <2>1. Inside(t)' = FeeGrowthInside(whirlpool', ticks'.lower, ticks'.upper, t)
    BY DEF Inside, FeeGrowthInside
  <2>2. QED
    BY <1>2, <1>3, <1>4, <1>7, <2>1, InsideByTick
<1>9. /\ whirlpool.tick = 0 => Inside(t) = WrapSub(l, u)
      /\ whirlpool.tick = 1 => Inside(t) = WrapSub(WrapSub(g, l), u)
      /\ whirlpool.tick = 2 => Inside(t) = WrapSub(u, l)
  BY <1>1, InsideByTick DEF Inside
<1>10. InRange <=> whirlpool.tick = 1
  BY <1>1 DEF InRange, TickLower, TickUpper
<1>11. CASE whirlpool.tick = 0
  <2>1. to = 0 \/ to = 1
    BY <1>4, <1>11
  <2>2. ticks'.upper[t] = u /\ ticks'.lower[t] = IF to = 1 THEN WrapSub(k, l) ELSE l
    BY <1>3, <1>11, <2>1 DEF TickLower, TickUpper
  <2>3. QED
    BY <1>5, <1>8, <1>9, <1>10, <1>11, <2>1, <2>2
<1>12. CASE whirlpool.tick = 1
  <2>1. /\ ticks'.lower[t] = IF to = 0 THEN WrapSub(k, l) ELSE l
        /\ ticks'.upper[t] = IF to = 2 THEN WrapSub(k, u) ELSE u
    BY <1>3, <1>4, <1>12 DEF TickLower, TickUpper
  <2>2. Inside(t)' = WrapSub(WrapSub(k, l), u)
    BY <1>4, <1>5, <1>8, <2>1
  <2>3. QED
    BY <1>6, <1>9, <1>10, <1>12, <2>2
<1>13. CASE whirlpool.tick = 2
  <2>1. to = 2 \/ to = 1
    BY <1>4, <1>13
  <2>2. ticks'.lower[t] = l /\ ticks'.upper[t] = IF to = 1 THEN WrapSub(k, u) ELSE u
    BY <1>3, <1>13, <2>1 DEF TickLower, TickUpper
  <2>3. QED
    BY <1>5, <1>8, <1>9, <1>10, <1>13, <2>1, <2>2
<1>14. QED
  BY <1>1, <1>11, <1>12, <1>13

LEMMA SwapKeepsTypes ==
  ASSUME GrowthTypeOK, NEW token \in Tokens, NEW to \in 0..2, Swap(token, to)
  PROVE  GrowthTypeOK'
<1> DEFINE global == [whirlpool.global EXCEPT ![token] = (@ + 1) % Modulus]
           Over(tick) == [s \in Tokens |-> WrapSub(global[s], tick[s])]
           crossed(index) == Initialized /\ ((whirlpool.tick < index) # (to < index))
<1>1. /\ whirlpool' = [tick |-> to, global |-> global]
      /\ ticks' = [lower |-> IF crossed(TickLower) THEN Over(ticks.lower) ELSE ticks.lower,
                   upper |-> IF crossed(TickUpper) THEN Over(ticks.upper) ELSE ticks.upper]
      /\ grown[token] - marked[token] < Modulus - 1
      /\ swaps' = swaps + 1
      /\ grown' = IF InRange THEN [grown EXCEPT ![token] = @ + 1] ELSE grown
      /\ earned' = IF InRange THEN [earned EXCEPT ![token] = @ + position.liquidity] ELSE earned
      /\ UNCHANGED <<position, marked, changes>>
  BY DEF Swap
<1>2. global \in [Tokens -> Growth]
  BY GrowthFields, NextGrowth DEF GrowthTypeOK
<1>3. ticks.lower \in [Tokens -> Growth] /\ ticks.upper \in [Tokens -> Growth]
  BY DEF GrowthTypeOK
<1>4. \A f \in [Tokens -> Growth] : Over(f) \in [Tokens -> Growth]
  BY <1>2, WrapSubValue
<1> HIDE DEF global, Over, crossed
<1>5. /\ whirlpool' \in [tick : 0..2, global : [Tokens -> Growth]]
      /\ ticks' \in [lower : [Tokens -> Growth], upper : [Tokens -> Growth]]
  BY <1>1, <1>2, <1>3, <1>4
<1>6. grown' \in [Tokens -> Nat] /\ earned' \in [Tokens -> Nat]
  BY <1>1 DEF GrowthTypeOK
<1>7. \A t \in Tokens : grown'[t] - marked'[t] \in 0..(Modulus - 1)
  <2>1. ASSUME NEW t \in Tokens
        PROVE  grown'[t] = grown[t] \/ (t = token /\ grown'[t] = grown[t] + 1)
    BY <1>1 DEF GrowthTypeOK
  <2>2. \A t \in Tokens : /\ grown[t] \in Nat /\ marked[t] \in Nat
                          /\ grown[t] - marked[t] \in Nat /\ grown[t] - marked[t] < Modulus
    BY GrowthFields
  <2>3. Modulus \in Nat /\ marked' = marked
    BY <1>1, GrowthFields
  <2>4. QED
    BY <1>1, <2>1, <2>2, <2>3
<1>8. QED
  BY <1>1, <1>5, <1>6, <1>7 DEF GrowthTypeOK

LEMMA SwapKeepsTracks ==
  ASSUME GrowthInv, NEW token \in Tokens, NEW to \in 0..2, Swap(token, to)
  PROVE  Tracks'
<1>1. GrowthTypeOK /\ Tracks
  BY DEF GrowthInv
<1>2. /\ grown[token] - marked[token] < Modulus - 1
      /\ grown' = IF InRange THEN [grown EXCEPT ![token] = @ + 1] ELSE grown
      /\ earned' = IF InRange THEN [earned EXCEPT ![token] = @ + position.liquidity] ELSE earned
      /\ position' = position /\ marked' = marked
  BY DEF Swap
<1>3. ASSUME NEW t \in Tokens
      PROVE  /\ grown'[t] = IF InRange /\ t = token THEN grown[t] + 1 ELSE grown[t]
             /\ earned'[t] = IF InRange /\ t = token THEN earned[t] + position.liquidity
                                                     ELSE earned[t]
  BY <1>1, <1>2 DEF GrowthTypeOK
<1>4. ASSUME position.liquidity > 0, NEW t \in Tokens
      PROVE  WrapSub(Inside(t)', position.checkpoint[t]) = grown'[t] - marked[t]
  <2>1. Initialized
    BY <1>4 DEF Initialized
  <2>2. Inside(t)' = IF InRange /\ t = token THEN (Inside(t) + 1) % Modulus ELSE Inside(t)
    BY <1>1, <2>1, SwapMovesInside
  <2> DEFINE n == WrapSub(Inside(t), position.checkpoint[t])
  <2>3. n = grown[t] - marked[t]
    BY <1>1, <1>4 DEF Tracks
  <2>4. CASE InRange /\ t = token
    <3>1. WrapSub(Inside(t)', position.checkpoint[t]) = (n + 1) % Modulus
      BY <1>1, <2>2, <2>4, GrowthFields, WrapSubGroup
    <3>2. n \in Growth /\ n + 1 < Modulus
      BY <1>1, <1>2, <2>3, <2>4, GrowthFields
    <3>3. (n + 1) % Modulus = n + 1
      BY <3>2, NextGrowth, GrowthFields, <1>1
    <3>4. grown'[t] = grown[t] + 1 /\ grown[t] \in Nat /\ marked[t] \in Nat
      BY <1>1, <1>3, <2>4, GrowthFields
    <3> HIDE DEF n
    <3>5. QED
      BY <2>3, <3>1, <3>3, <3>4
  <2>5. CASE ~(InRange /\ t = token)
    BY <1>3, <2>2, <2>3, <2>5
  <2>6. QED
    BY <2>4, <2>5
<1>5. ASSUME NEW t \in Tokens
      PROVE  earned'[t] = position.owed[t] + position.liquidity * (grown'[t] - marked[t])
  <2>1. earned[t] = position.owed[t] + position.liquidity * (grown[t] - marked[t])
    BY <1>1 DEF Tracks
  <2>2. /\ position.liquidity \in Nat /\ grown[t] \in Nat /\ marked[t] \in Nat
        /\ position.owed[t] \in Nat
    BY <1>1, GrowthFields
  <2>3. position.liquidity * (grown[t] + 1 - marked[t])
          = position.liquidity * (grown[t] - marked[t]) + position.liquidity
    BY <2>2
  <2>4. CASE InRange /\ t = token
    <3>1. grown'[t] = grown[t] + 1 /\ earned'[t] = earned[t] + position.liquidity
      BY <1>3, <2>4
    <3>2. position.liquidity * (grown'[t] - marked[t])
            = position.liquidity * (grown[t] - marked[t]) + position.liquidity
      <4>1. grown'[t] - marked[t] = grown[t] + 1 - marked[t]
        BY <2>2, <3>1
      <4>2. QED
        BY <2>3, <4>1
    <3>3. position.liquidity * (grown[t] - marked[t]) \in Int
      BY <2>2
    <3>4. QED
      BY <2>1, <2>2, <3>1, <3>2, <3>3
  <2>5. CASE ~(InRange /\ t = token)
    BY <1>3, <2>1, <2>5
  <2>6. QED
    BY <2>4, <2>5
<1>6. QED
  BY <1>2, <1>4, <1>5 DEF Tracks

\* What both computations say, of a position with liquidity and of one without.
LEMMA UncollectedIsEarned ==
  ASSUME GrowthInv, NEW t \in Tokens
  PROVE  UncollectedFees(t) = earned[t]
<1>1. /\ position.liquidity \in Nat /\ position.owed[t] \in Nat
      /\ grown[t] \in Nat /\ marked[t] \in Nat
      /\ WrapSub(Inside(t), position.checkpoint[t]) \in Growth /\ Growth \subseteq Nat
  BY GrowthFields, WrapSubValue DEF GrowthInv
<1>2. earned[t] = position.owed[t] + position.liquidity * (grown[t] - marked[t])
  BY DEF GrowthInv, Tracks
<1>3. CASE position.liquidity > 0
  <2>1. WrapSub(Inside(t), position.checkpoint[t]) = grown[t] - marked[t]
    BY <1>3 DEF GrowthInv, Tracks
  <2>2. QED
    BY <1>2, <2>1 DEF UncollectedFees
<1>4. CASE position.liquidity = 0
  <2> DEFINE w == WrapSub(Inside(t), position.checkpoint[t])
  <2>1. w \in Nat
    BY <1>1
  <2> HIDE DEF w
  <2>2. position.liquidity * (grown[t] - marked[t]) = 0 /\ position.liquidity * w = 0
    BY <1>1, <1>4, <2>1
  <2>3. QED
    BY <1>1, <1>2, <2>2 DEF UncollectedFees, w
<1>5. QED
  BY <1>1, <1>3, <1>4

LEMMA SetLiquidityKeepsInv ==
  ASSUME GrowthInv, NEW liquidity \in Liquidities, SetLiquidity(liquidity)
  PROVE  GrowthInv'
<1> DEFINE lower == IF Initialized THEN ticks.lower ELSE Opened(TickLower)
           upper == IF Initialized THEN ticks.upper ELSE Opened(TickUpper)
           owed == [t \in Tokens |-> IF position.liquidity > 0 THEN UncollectedFees(t)
                                                               ELSE position.owed[t]]
           checkpoint == [t \in Tokens |-> FeeGrowthInside(whirlpool, lower, upper, t)]
<1>1. /\ position' = [liquidity |-> liquidity, owed |-> owed, checkpoint |-> checkpoint]
      /\ ticks' = IF Shared \/ liquidity > 0 THEN [lower |-> lower, upper |-> upper]
                                             ELSE [lower |-> Zero, upper |-> Zero]
      /\ changes' = changes + 1
      /\ marked' = grown /\ UNCHANGED <<whirlpool, grown, earned, swaps>>
  BY DEF SetLiquidity
<1>2. GrowthTypeOK /\ liquidity \in Nat
  BY GrowthAssumption DEF GrowthInv
<1>3. Zero \in [Tokens -> Growth]
  BY GrowthAssumption DEF Zero, Growth
<1>4. lower \in [Tokens -> Growth] /\ upper \in [Tokens -> Growth]
  BY <1>2, <1>3 DEF GrowthTypeOK, Opened
<1>5. checkpoint \in [Tokens -> Growth]
  BY <1>2, <1>4, GrowthFields, InsideByTick
<1>6. owed = earned
  <2>1. \A t \in Tokens : owed[t] = earned[t]
    <3> TAKE t \in Tokens
    <3>1. UncollectedFees(t) = earned[t]
      BY UncollectedIsEarned
    <3>2. position.liquidity = 0 => position.owed[t] = earned[t]
      <4>1. \A n \in Int : 0 * n = 0
        OBVIOUS
      <4>2. grown[t] - marked[t] \in Int /\ position.owed[t] \in Nat
        BY <1>2, GrowthFields
      <4>3. QED
        BY <4>1, <4>2 DEF GrowthInv, Tracks
    <3>3. QED
      BY <1>2, <3>1, <3>2, GrowthFields
  <2>2. earned \in [Tokens -> Nat]
    BY <1>2 DEF GrowthTypeOK
  <2> HIDE DEF owed
  <2>3. owed = [t \in Tokens |-> owed[t]]
    BY DEF owed
  <2>4. QED
    BY <2>1, <2>2, <2>3
<1> HIDE DEF lower, upper, owed
<1>7. GrowthTypeOK'
  <2>1. position' \in [liquidity : Nat, owed : [Tokens -> Nat], checkpoint : [Tokens -> Growth]]
    BY <1>1, <1>2, <1>5, <1>6 DEF GrowthTypeOK
  <2>2. ticks' \in [lower : [Tokens -> Growth], upper : [Tokens -> Growth]]
    BY <1>1, <1>3, <1>4
  <2>3. \A t \in Tokens : grown[t] - grown[t] \in 0..(Modulus - 1)
    BY <1>2, GrowthFields
  <2>4. QED
    BY <1>1, <1>2, <2>1, <2>2, <2>3 DEF GrowthTypeOK
<1>8. Tracks'
  <2>1. ASSUME liquidity > 0, NEW t \in Tokens
        PROVE  WrapSub(Inside(t)', checkpoint[t]) = 0
    <3>1. ticks'.lower = lower /\ ticks'.upper = upper
      BY <1>1, <2>1
    <3>2. Inside(t)' = checkpoint[t]
      BY <1>1, <3>1 DEF Inside, FeeGrowthInside
    <3>3. QED
      BY <1>5, <3>2, WrapSubGroup
  <2>2. ASSUME NEW t \in Tokens
        PROVE  earned[t] = owed[t] + liquidity * (grown[t] - grown[t])
    <3>1. grown[t] - grown[t] = 0 /\ earned[t] \in Nat
      BY <1>2, GrowthFields
    <3>2. liquidity * 0 = 0
      BY <1>2
    <3>3. QED
      BY <1>6, <3>1, <3>2
  <2>3. \A t \in Tokens : grown[t] - grown[t] = 0
    BY <1>2, GrowthFields
  <2> HIDE DEF checkpoint
  <2>4. QED
    BY <1>1, <2>1, <2>2, <2>3 DEF Tracks
<1>9. QED
  BY <1>7, <1>8 DEF GrowthInv

LEMMA CollectKeepsInv ==
  ASSUME GrowthInv, CollectFees
  PROVE  GrowthInv'
<1> DEFINE checkpoint == [t \in Tokens |-> Inside(t)]
<1>1. /\ position' = [position EXCEPT !.owed = Zero, !.checkpoint = checkpoint]
      /\ earned' = [t \in Tokens |-> earned[t] - UncollectedFees(t)]
      /\ changes' = changes + 1
      /\ marked' = grown /\ UNCHANGED <<whirlpool, ticks, grown, swaps>>
  BY DEF CollectFees
<1>2. GrowthTypeOK
  BY DEF GrowthInv
<1>3. checkpoint \in [Tokens -> Growth]
  BY <1>2, GrowthFields
<1> HIDE DEF checkpoint
<1>4. /\ position'.liquidity = position.liquidity /\ position'.owed = Zero
      /\ position'.checkpoint = checkpoint
      /\ position' \in [liquidity : Nat, owed : [Tokens -> Nat], checkpoint : [Tokens -> Growth]]
  BY <1>1, <1>2, <1>3 DEF GrowthTypeOK, Zero
<1>5. \A t \in Tokens : earned'[t] = 0
  BY <1>1, <1>2, UncollectedIsEarned, GrowthFields
<1>6. earned' \in [Tokens -> Nat]
  BY <1>1, <1>5
<1>7. \A t \in Tokens : grown[t] - grown[t] = 0 /\ grown[t] - grown[t] \in 0..(Modulus - 1)
  BY <1>2, GrowthFields
<1>8. GrowthTypeOK'
  BY <1>1, <1>2, <1>4, <1>6, <1>7 DEF GrowthTypeOK
<1>9. \A t \in Tokens : WrapSub(Inside(t)', checkpoint[t]) = 0
  <2> TAKE t \in Tokens
  <2>1. Inside(t)' = Inside(t) /\ checkpoint[t] = Inside(t)
    BY <1>1 DEF Inside, FeeGrowthInside, checkpoint
  <2>2. QED
    BY <1>2, <2>1, GrowthFields, WrapSubGroup
<1>10. \A t \in Tokens : 0 = Zero[t] + position.liquidity * (grown[t] - grown[t])
  <2>1. position.liquidity * 0 = 0
    BY <1>2, GrowthFields
  <2>2. QED
    BY <1>7, <2>1 DEF Zero
<1>11. Tracks'
  BY <1>1, <1>4, <1>5, <1>7, <1>9, <1>10 DEF Tracks
<1>12. QED
  BY <1>8, <1>11 DEF GrowthInv

LEMMA GrowthInvInit == GrowthInit => GrowthInv
<1> SUFFICES ASSUME GrowthInit PROVE GrowthInv
  OBVIOUS
<1>1. /\ whirlpool \in [tick : 0..2, global : [Tokens -> Starts]]
      /\ ticks \in IF Shared THEN [lower : [Tokens -> Starts], upper : [Tokens -> Starts]]
                   ELSE {[lower |-> Opened(TickLower), upper |-> Opened(TickUpper)]}
      /\ grown = Zero /\ marked = Zero /\ earned = Zero /\ swaps = 0 /\ changes = 0
  BY DEF GrowthInit
<1>2. PICK liquidity \in Liquidities \ {0} :
        position = [liquidity |-> liquidity, owed |-> Zero, checkpoint |-> [t \in Tokens |-> Inside(t)]]
  BY DEF GrowthInit
<1>3. Starts \subseteq Growth /\ 0 \in Growth /\ Growth \subseteq Nat /\ liquidity \in Nat
  BY GrowthAssumption DEF Growth
<1>4. Zero \in [Tokens -> Growth] /\ Zero \in [Tokens -> Nat] /\ \A t \in Tokens : Zero[t] = 0
  BY <1>3 DEF Zero
<1>5. whirlpool \in [tick : 0..2, global : [Tokens -> Growth]]
  BY <1>1, <1>3
<1>6. ticks \in [lower : [Tokens -> Growth], upper : [Tokens -> Growth]]
  <2>1. Opened(TickLower) \in [Tokens -> Growth] /\ Opened(TickUpper) \in [Tokens -> Growth]
    BY <1>4, <1>5 DEF Opened
  <2>2. CASE Shared
    BY <1>1, <1>3, <2>2
  <2>3. CASE ~Shared
    BY <1>1, <2>1, <2>3
  <2>4. QED
    BY <2>2, <2>3
<1>7. \A t \in Tokens : Inside(t) \in Growth
  BY <1>5, <1>6, InsideByTick DEF Inside
<1>8. /\ position.liquidity = liquidity /\ position.owed = Zero
      /\ position.checkpoint = [t \in Tokens |-> Inside(t)]
      /\ position \in [liquidity : Nat, owed : [Tokens -> Nat], checkpoint : [Tokens -> Growth]]
  BY <1>2, <1>3, <1>4, <1>7
<1>9. GrowthTypeOK
  BY <1>1, <1>3, <1>4, <1>5, <1>6, <1>8, GrowthAssumption DEF GrowthTypeOK
<1>10. \A t \in Tokens : WrapSub(Inside(t), position.checkpoint[t]) = 0
  BY <1>7, <1>8, WrapSubGroup
<1>11. liquidity * 0 = 0
  BY <1>3
<1>12. Tracks
  BY <1>1, <1>4, <1>8, <1>10, <1>11 DEF Tracks
<1>13. QED
  BY <1>9, <1>12 DEF GrowthInv

LEMMA GrowthInvNext == GrowthInv /\ [ChainStep]_chainVars => GrowthInv'
<1> SUFFICES ASSUME GrowthInv, [ChainStep]_chainVars PROVE GrowthInv'
  OBVIOUS
<1>1. CASE \E token \in Tokens, to \in 0..2 : Swap(token, to)
  BY <1>1, SwapKeepsTypes, SwapKeepsTracks DEF GrowthInv
<1>2. CASE \E liquidity \in Liquidities : SetLiquidity(liquidity)
  BY <1>2, SetLiquidityKeepsInv
<1>3. CASE CollectFees
  BY <1>3, CollectKeepsInv
<1>4. CASE UNCHANGED chainVars
  BY <1>4 DEF chainVars, ghosts, GrowthInv, GrowthTypeOK, Tracks, Inside, FeeGrowthInside
<1>5. QED
  BY <1>1, <1>2, <1>3, <1>4 DEF ChainStep

\* The refresher's formula is that of fees-owed.ts.
LEMMA RefresherIsInside ==
  ASSUME GrowthTypeOK, NEW t \in Tokens
  PROVE  RefresherInside(t) = Inside(t)
<1> DEFINE g == whirlpool.global[t]
           below == IF whirlpool.tick >= TickLower THEN ticks.lower[t]
                                                   ELSE WrapSub(g, ticks.lower[t])
           above == IF whirlpool.tick < TickUpper THEN ticks.upper[t]
                                                  ELSE WrapSub(g, ticks.upper[t])
           x == WrapSub(g, below)
<1>1. /\ g \in Growth /\ below \in Growth /\ above \in Growth
      /\ Modulus \in Nat \ {0} /\ Growth = 0..(Modulus - 1) /\ whirlpool.tick \in 0..2
  BY GrowthFields, WrapSubValue
<1>2. Inside(t) = WrapSub(x, above)
  BY DEF Inside, FeeGrowthInside
<1>3. RefresherInside(t) = (g - below - above + 2 * Modulus) % Modulus
  BY <1>1 DEF RefresherInside, WrapSub, TickLower, TickUpper
<1> HIDE DEF g, below, above
<1>4. x \in Growth /\ x = IF g >= below THEN g - below ELSE g - below + Modulus
  BY <1>1, WrapSubValue
<1>5. WrapSub(x, above) = IF x >= above THEN x - above ELSE x - above + Modulus
  BY <1>1, <1>4, WrapSubValue
<1> HIDE DEF x
<1> DEFINE y == g - below - above + 2 * Modulus
<1>6. y \in Nat /\ y < 3 * Modulus
  BY <1>1
<1> HIDE DEF y
<1>7. y % Modulus = IF y < Modulus THEN y
                    ELSE IF y < 2 * Modulus THEN y - Modulus ELSE y - 2 * Modulus
  <2>1. Modulus \in Nat /\ 2 * Modulus \in Nat /\ 3 * Modulus \in Nat /\ Modulus < 2 * Modulus
    BY <1>1
  <2>2. /\ y < Modulus => y % Modulus = y
        /\ y >= Modulus /\ y < 2 * Modulus => y % Modulus = y - Modulus
        /\ y >= 2 * Modulus => y % Modulus = y - 2 * Modulus
    BY <1>6, ModValues
  <2>3. QED
    BY <1>6, <2>1, <2>2
<1>8. y % Modulus = WrapSub(x, above)
  BY <1>1, <1>4, <1>5, <1>7 DEF y
<1>9. QED
  BY <1>2, <1>3, <1>8 DEF y

\* From one consistent read, both computations (fees-owed.ts, fee-refresher.ts)
\* give what a collectFees would pay out, for every modulus of the accumulators,
\* every path of the price and every change of the liquidity.
THEOREM FeesReadAreOwed == GrowthSpec => []ReadIsOwed
<1>1. ASSUME GrowthInv PROVE ReadIsOwed
  <2> SUFFICES ASSUME NEW t \in Tokens
               PROVE  UncollectedFees(t) = earned[t] /\ PendingFeesFromGrowth(t) = earned[t]
    BY DEF ReadIsOwed
  <2>1. UncollectedFees(t) = earned[t]
    BY <1>1, UncollectedIsEarned
  <2>2. RefresherInside(t) = Inside(t)
    BY <1>1, RefresherIsInside DEF GrowthInv
  <2>3. PendingFeesFromGrowth(t) = UncollectedFees(t)
    BY <2>2 DEF PendingFeesFromGrowth, UncollectedFees, WrapSub
  <2>4. QED
    BY <2>1, <2>3
<1>2. QED
  BY <1>1, GrowthInvInit, GrowthInvNext, PTL DEF GrowthSpec

-----------------------------------------------------------------------------
(* Rows: what a reader records *)

Row ==
  [liquidity : Nat, inside : [Tokens -> Growth], grown : Nat, from : Nat, to : Nat,
   torn : BOOLEAN]

\* The row was read while the position was as it is, when n[t] had grown since
\* the position's last update.
ReadAt(row, n) ==
  /\ row.liquidity = position.liquidity
  /\ row.grown = n["A"] + n["B"] + marked["A"] + marked["B"]
  /\ position.liquidity > 0 =>
       \A t \in Tokens : WrapSub(row.inside[t], position.checkpoint[t]) = n[t]

Amount == [Tokens -> Nat]

Known(row) ==
  \E n \in Amount : ReadAt(row, n) /\ \A t \in Tokens : n[t] <= grown[t] - marked[t]

GrownNow == [t \in Tokens |-> grown[t] - marked[t]]

\* The growth between two rows, as seen from a third point.
LEMMA BetweenRows ==
  ASSUME NEW x \in Growth, NEW y \in Growth, NEW c \in Growth
  PROVE  WrapSub(x, y) = WrapSub(WrapSub(x, c), WrapSub(y, c))
<1> DEFINE a == WrapSub(x, c)
           b == WrapSub(y, c)
<1>1. Modulus \in Nat \ {0} /\ Growth = 0..(Modulus - 1)
  BY GrowthAssumption DEF Growth
<1>2. a \in Growth /\ a = IF x >= c THEN x - c ELSE x - c + Modulus
  BY WrapSubValue
<1>3. b \in Growth /\ b = IF y >= c THEN y - c ELSE y - c + Modulus
  BY WrapSubValue
<1>4. WrapSub(x, y) = IF x >= y THEN x - y ELSE x - y + Modulus
  BY WrapSubValue
<1> HIDE DEF a, b
<1>5. WrapSub(a, b) = IF a >= b THEN a - b ELSE a - b + Modulus
  BY <1>2, <1>3, WrapSubValue
<1>6. QED
  BY <1>1, <1>2, <1>3, <1>4, <1>5 DEF a, b

LEMMA RowsDiffer ==
  ASSUME NEW a \in Row, NEW b \in Row, NEW t \in Tokens
  PROVE  WrapSub(b.inside[t], a.inside[t]) \in Nat
<1>1. a.inside[t] \in Growth /\ b.inside[t] \in Growth
  BY DEF Row
<1>2. WrapSub(b.inside[t], a.inside[t]) \in Growth
  BY <1>1, WrapSubValue
<1>3. QED
  BY <1>2, GrowthAssumption DEF Growth

LEMMA FeesOfRows ==
  ASSUME GrowthTypeOK, NEW a \in Row, NEW b \in Row, NEW n \in Amount, NEW m \in Amount,
         ReadAt(a, n), ReadAt(b, m), position.liquidity > 0
  PROVE  /\ \A t \in Tokens : n[t] \in Growth /\ m[t] \in Growth
         /\ FeesBetween(a, b) = position.liquidity * WrapSub(m["A"], n["A"])
                                  + position.liquidity * WrapSub(m["B"], n["B"])
<1>1. \A t \in Tokens : /\ a.inside[t] \in Growth /\ b.inside[t] \in Growth
                        /\ position.checkpoint[t] \in Growth
  BY GrowthFields DEF Row
<1>2. \A t \in Tokens : /\ WrapSub(a.inside[t], position.checkpoint[t]) = n[t]
                        /\ WrapSub(b.inside[t], position.checkpoint[t]) = m[t]
  BY DEF ReadAt
<1>3. \A t \in Tokens : n[t] \in Growth /\ m[t] \in Growth
  BY <1>1, <1>2, WrapSubValue
<1>4. \A t \in Tokens : WrapSub(b.inside[t], a.inside[t]) = WrapSub(m[t], n[t])
  BY <1>1, <1>2, BetweenRows
<1>5. "A" \in Tokens /\ "B" \in Tokens
  BY DEF Tokens
<1>6. a.liquidity = position.liquidity
  BY DEF ReadAt
<1>7. QED
  BY <1>3, <1>4, <1>5, <1>6 DEF FeesBetween

\* In the order of time: the fees of what really grew.
LEMMA FeesInOrder ==
  ASSUME GrowthTypeOK, NEW a \in Row, NEW b \in Row, NEW n \in Amount, NEW m \in Amount,
         ReadAt(a, n), ReadAt(b, m), \A t \in Tokens : n[t] <= m[t]
  PROVE  FeesBetween(a, b) = a.liquidity * (b.grown - a.grown)
<1>1. "A" \in Tokens /\ "B" \in Tokens
  BY DEF Tokens
<1>2. /\ n["A"] \in Nat /\ n["B"] \in Nat /\ m["A"] \in Nat /\ m["B"] \in Nat
      /\ n["A"] <= m["A"] /\ n["B"] <= m["B"]
      /\ marked["A"] \in Nat /\ marked["B"] \in Nat
      /\ position.liquidity \in Nat
  BY <1>1, GrowthFields DEF Amount
<1> DEFINE L == position.liquidity
<1>3. a.liquidity = L /\ b.grown - a.grown = (m["A"] - n["A"]) + (m["B"] - n["B"])
  BY <1>2 DEF ReadAt
<1>4. CASE L > 0
  <2>1. /\ n["A"] \in Growth /\ n["B"] \in Growth /\ m["A"] \in Growth /\ m["B"] \in Growth
        /\ FeesBetween(a, b) = L * WrapSub(m["A"], n["A"]) + L * WrapSub(m["B"], n["B"])
    BY <1>1, <1>4, FeesOfRows
  <2>2. WrapSub(m["A"], n["A"]) = m["A"] - n["A"] /\ WrapSub(m["B"], n["B"]) = m["B"] - n["B"]
    BY <1>2, <2>1, WrapSubValue
  <2>3. L * ((m["A"] - n["A"]) + (m["B"] - n["B"])) = L * (m["A"] - n["A"]) + L * (m["B"] - n["B"])
    BY <1>2
  <2>4. QED
    BY <1>3, <2>1, <2>2, <2>3
<1>5. CASE L = 0
  <2>1. /\ WrapSub(b.inside["A"], a.inside["A"]) \in Nat
        /\ WrapSub(b.inside["B"], a.inside["B"]) \in Nat
    BY <1>1, RowsDiffer
  <2>2. \A i \in Int : 0 * i = 0
    OBVIOUS
  <2>3. FeesBetween(a, b) = 0
    BY <1>3, <1>5, <2>1, <2>2 DEF FeesBetween
  <2>4. a.liquidity * (b.grown - a.grown) = 0
    BY <1>2, <1>3, <1>5, <2>2
  <2>5. QED
    BY <2>3, <2>4
<1>6. QED
  BY <1>2, <1>4, <1>5

\* Out of order: implausible, or nothing.
LEMMA FeesOutOfOrder ==
  ASSUME GrowthTypeOK, NEW a \in Row, NEW b \in Row, NEW n \in Amount, NEW m \in Amount,
         ReadAt(a, n), ReadAt(b, m), \A t \in Tokens : m[t] <= n[t],
         \A t \in Tokens : n[t] + MaxPlausible < Modulus
  PROVE  IntervalFees(a, b) = 0
<1>1. "A" \in Tokens /\ "B" \in Tokens
  BY DEF Tokens
<1>2. /\ n["A"] \in Nat /\ n["B"] \in Nat /\ m["A"] \in Nat /\ m["B"] \in Nat
      /\ m["A"] <= n["A"] /\ m["B"] <= n["B"]
      /\ n["A"] + MaxPlausible < Modulus /\ n["B"] + MaxPlausible < Modulus
      /\ position.liquidity \in Nat /\ Modulus \in Nat /\ MaxPlausible \in Nat
  BY <1>1, GrowthFields, ReadsAssumption DEF Amount
<1> DEFINE L == position.liquidity
<1>3. CASE L > 0
  <2> DEFINE x == WrapSub(m["A"], n["A"])
             y == WrapSub(m["B"], n["B"])
  <2>1. /\ n["A"] \in Growth /\ n["B"] \in Growth /\ m["A"] \in Growth /\ m["B"] \in Growth
        /\ FeesBetween(a, b) = L * x + L * y
    BY <1>1, <1>3, FeesOfRows
  <2>2. /\ x \in Nat /\ (x = 0 \/ x > MaxPlausible)
        /\ y \in Nat /\ (y = 0 \/ y > MaxPlausible)
    <3>1. x = IF m["A"] >= n["A"] THEN m["A"] - n["A"] ELSE m["A"] - n["A"] + Modulus
      BY <2>1, WrapSubValue
    <3>2. y = IF m["B"] >= n["B"] THEN m["B"] - n["B"] ELSE m["B"] - n["B"] + Modulus
      BY <2>1, WrapSubValue
    <3> HIDE DEF x, y
    <3>3. QED
      BY <1>2, <3>1, <3>2
  <2> HIDE DEF x, y
  <2>3. x = 0 /\ y = 0 => FeesBetween(a, b) = 0
    BY <1>2, <2>1
  <2>4. L * x \in Nat /\ L * y \in Nat /\ L * x >= x /\ L * y >= y
    BY <1>2, <1>3, <2>2
  <2>5. x > MaxPlausible \/ y > MaxPlausible => FeesBetween(a, b) > MaxPlausible
    BY <1>2, <2>1, <2>2, <2>4
  <2>6. QED
    BY <2>2, <2>3, <2>5 DEF IntervalFees
<1>4. CASE L = 0
  <2>1. a.liquidity = 0
    BY <1>4 DEF ReadAt
  <2>2. /\ WrapSub(b.inside["A"], a.inside["A"]) \in Nat
        /\ WrapSub(b.inside["B"], a.inside["B"]) \in Nat
    BY <1>1, RowsDiffer
  <2>3. \A i \in Int : 0 * i = 0
    OBVIOUS
  <2>4. FeesBetween(a, b) = 0
    BY <2>1, <2>2, <2>3 DEF FeesBetween
  <2>5. QED
    BY <2>4 DEF IntervalFees
<1>5. QED
  BY <1>2, <1>3, <1>4

\* Inserting a row adds that row and no other.
LEMMA InsertedRows ==
  ASSUME NEW S, NEW s \in Seq(S), NEW e \in S, NEW k \in 1..(Len(s) + 1)
  PROVE  /\ InsertAt(s, k, e) \in Seq(S) /\ Len(InsertAt(s, k, e)) = Len(s) + 1
         /\ \A i \in DOMAIN InsertAt(s, k, e) :
              InsertAt(s, k, e)[i] = e \/ \E j \in DOMAIN s : InsertAt(s, k, e)[i] = s[j]
<1> DEFINE a == SubSeq(s, 1, k - 1)
           b == SubSeq(s, k, Len(s))
           c == a \o <<e>>
<1>1. a \in Seq(S) /\ Len(a) = k - 1 /\ \A i \in 1..(k - 1) : a[i] = s[i]
  OBVIOUS
<1>2. b \in Seq(S) /\ Len(b) = Len(s) - k + 1 /\ \A i \in 1..(Len(s) - k + 1) : b[i] = s[k + i - 1]
  OBVIOUS
<1>3. InsertAt(s, k, e) = c \o b
  BY DEF InsertAt
<1> HIDE DEF a, b
<1>4. k \in Nat /\ Len(s) \in Nat /\ k >= 1 /\ k <= Len(s) + 1
  OBVIOUS
<1>5. c \in Seq(S) /\ Len(c) = k
  BY <1>1, <1>4
<1>6. \A i \in 1..k : c[i] = IF i = k THEN e ELSE s[i]
  BY <1>1, <1>4
<1> HIDE DEF c
<1>7. c \o b \in Seq(S) /\ Len(c \o b) = Len(s) + 1
  <2>1. b \in Seq(S) /\ Len(b) = Len(s) - k + 1
    BY <1>2
  <2>2. QED
    BY <1>4, <1>5, <2>1
<1>8. ASSUME NEW i \in 1..(Len(s) + 1)
      PROVE  (c \o b)[i] = e \/ \E j \in DOMAIN s : (c \o b)[i] = s[j]
  <2>1. CASE i < k
    <3>1. (c \o b)[i] = s[i] /\ i \in DOMAIN s
      BY <1>2, <1>4, <1>5, <1>6, <2>1
    <3>2. QED
      BY <3>1
  <2>2. CASE i = k
    BY <1>2, <1>4, <1>5, <1>6, <2>2
  <2>3. CASE i > k
    <3>1. (c \o b)[i] = b[i - k] /\ i - k \in 1..(Len(s) - k + 1)
      BY <1>2, <1>4, <1>5, <2>3
    <3>2. b[i - k] = s[i - 1] /\ i - 1 \in DOMAIN s
      BY <1>2, <1>4, <2>3, <3>1
    <3>3. QED
      BY <3>1, <3>2
  <2>4. i < k \/ i = k \/ i > k
    BY <1>4
  <2>5. QED
    BY <2>1, <2>2, <2>3, <2>4, Zenon
<1>9. QED
  BY <1>3, <1>7, <1>8

-----------------------------------------------------------------------------
(* Readers between the steps of the chain *)

ReadRec ==
  [next : {"pool", "lower", "upper", "recheck"}, liquidity : Nat,
   pool : [tick : 0..2, global : [Tokens -> Growth]],
   lower : [Tokens -> Growth], upper : [Tokens -> Growth],
   rows : Nat, swaps : Nat, changes : Nat]

\* What a reader has read is still so if no swap and no change of the position
\* came since.
InFlight(r) ==
  /\ reads[r].rows <= Len(snapshots)
  /\ reads[r].swaps <= swaps /\ reads[r].changes <= changes
  /\ reads[r].changes = changes => reads[r].liquidity = position.liquidity
  /\ reads[r].swaps = swaps =>
       /\ reads[r].pool = whirlpool
       /\ reads[r].changes = changes =>
            /\ reads[r].next \in {"upper", "recheck"} => reads[r].lower = ticks.lower
            /\ reads[r].next = "recheck" => reads[r].upper = ticks.upper

\* A row of the past, and one that was read while the position was as it is.
RowPast(row) == row.from <= row.to /\ row.to <= changes

Certificates ==
  [state : {"activated", "active", "due", "settled"},
   checkpoint : Row \cup {NoCheckpoint}, now : Row \cup {NoCheckpoint}, fees : Nat]

CertificateInv ==
  /\ certificate \in Certificates
  /\ certificate.state # "settled" => certificate.fees = 0
  /\ certificate.state = "due" => certificate.checkpoint # NoCheckpoint
  /\ certificate.checkpoint # NoCheckpoint =>
       /\ RowPast(certificate.checkpoint)
       /\ ~certificate.checkpoint.torn /\ certificate.checkpoint.from = changes =>
            Known(certificate.checkpoint)
  /\ QuietShareIsEarned

ReadsInv ==
  /\ GrowthInv
  /\ snapshots \in Seq(Row)
  /\ reads \in [Readers -> ReadRec \cup {Nothing}]
  /\ \A r \in Readers : reads[r] # Nothing => InFlight(r)
  /\ CertificateInv

\* With fewer swaps than the accumulators count, a pool that is what it was has
\* not moved; and rows of one position agree, in whatever order they stand.
Counted ==
  /\ swaps <= MaxSwaps /\ grown["A"] + grown["B"] <= swaps
  /\ \A r \in Readers : reads[r] # Nothing =>
       WrapSub(whirlpool.global["A"], reads[r].pool.global["A"])
         + WrapSub(whirlpool.global["B"], reads[r].pool.global["B"]) = swaps - reads[r].swaps

PairAgrees(a, b) ==
  SamePosition(a, b) => IntervalFees(a, b) \in {0, a.liquidity * (b.grown - a.grown)}

RowsAgree ==
  /\ \A i \in DOMAIN snapshots :
       /\ RowPast(snapshots[i])
       /\ snapshots[i].from = changes => Known(snapshots[i])
  /\ \A i, j \in DOMAIN snapshots : PairAgrees(snapshots[i], snapshots[j])

RecordsInv == ReadsInv /\ Counted /\ RowsAgree

LEMMA NothingIsNoRead ==
  ASSUME NEW x \in ReadRec \cup {Nothing}
  PROVE  /\ x = Nothing <=> x.next = "position"
         /\ x # Nothing => x \in ReadRec
BY DEF ReadRec, Nothing

LEMMA NoCheckpointIsNoRow == NoCheckpoint \notin Row
<1>1. "none" \in DOMAIN NoCheckpoint /\ \A row \in Row : "none" \notin DOMAIN row
  BY DEF NoCheckpoint, Row
<1>2. QED
  BY <1>1

\* What a step of the chain is to the readers: a swap, or a change of the position.
SwapStep ==
  /\ swaps' = swaps + 1 /\ swaps < MaxSwaps /\ changes' = changes
  /\ position' = position /\ marked' = marked
  /\ \A t \in Tokens : grown[t] <= grown'[t]
  /\ grown'["A"] + grown'["B"] <= grown["A"] + grown["B"] + 1
  /\ \E token \in Tokens :
       whirlpool'.global = [whirlpool.global EXCEPT ![token] = (@ + 1) % Modulus]

ChangeStep ==
  /\ swaps' = swaps /\ changes' = changes + 1
  /\ whirlpool' = whirlpool /\ grown' = grown

LEMMA ChainStepIs ==
  ASSUME GrowthInv, ChainStep
  PROVE  SwapStep \/ ChangeStep
<1>1. CASE \E token \in Tokens, to \in 0..2 : Swap(token, to)
  <2>1. PICK token \in Tokens, to \in 0..2 : Swap(token, to)
    BY <1>1
  <2>2. /\ swaps < MaxSwaps /\ swaps' = swaps + 1
        /\ grown' = IF InRange THEN [grown EXCEPT ![token] = @ + 1] ELSE grown
        /\ UNCHANGED <<position, marked, changes>>
        /\ whirlpool'.global = [whirlpool.global EXCEPT ![token] = (@ + 1) % Modulus]
    BY <2>1 DEF Swap
  <2>3. grown \in [Tokens -> Nat] /\ "A" \in Tokens /\ "B" \in Tokens /\ "A" # "B"
    BY DEF GrowthInv, GrowthTypeOK, Tokens
  <2>4. /\ \A t \in Tokens : grown[t] <= grown'[t]
        /\ grown'["A"] + grown'["B"] <= grown["A"] + grown["B"] + 1
    <3>1. CASE ~InRange
      BY <2>2, <2>3, <3>1
    <3>2. CASE InRange
      <4>1. /\ grown'[token] = grown[token] + 1
            /\ \A t \in Tokens : t # token => grown'[t] = grown[t]
        BY <2>2, <2>3, <3>2
      <4>2. \A t \in Tokens : grown[t] \in Nat /\ grown'[t] \in {grown[t], grown[t] + 1}
        BY <2>3, <4>1
      <4>3. \A t \in Tokens : grown[t] <= grown'[t]
        BY <4>2
      <4>4. grown'["A"] = grown["A"] \/ grown'["B"] = grown["B"]
        BY <2>3, <4>1
      <4>5. QED
        BY <2>3, <4>2, <4>3, <4>4
    <3>3. QED
      BY <3>1, <3>2
  <2>5. QED
    BY <2>2, <2>4 DEF SwapStep
<1>2. CASE \E liquidity \in Liquidities : SetLiquidity(liquidity)
  BY <1>2 DEF SetLiquidity, ChangeStep
<1>3. CASE CollectFees
  BY <1>3 DEF CollectFees, ChangeStep
<1>4. QED
  BY <1>1, <1>2, <1>3 DEF ChainStep

LEMMA KnownStill ==
  ASSUME GrowthTypeOK, NEW row, Known(row), position' = position, marked' = marked,
         \A t \in Tokens : grown'[t] \in Nat /\ grown[t] <= grown'[t]
  PROVE  Known(row)'
<1>1. PICK n \in Amount : ReadAt(row, n) /\ \A t \in Tokens : n[t] <= grown[t] - marked[t]
  BY DEF Known
<1>2. ReadAt(row, n)'
  BY <1>1 DEF ReadAt
<1>3. \A t \in Tokens : n[t] <= grown'[t] - marked'[t]
  <2> TAKE t \in Tokens
  <2>1. n[t] \in Nat /\ grown[t] \in Nat /\ marked[t] \in Nat
    BY <1>1, GrowthFields DEF Amount
  <2>2. QED
    BY <1>1, <2>1
<1>4. QED
  BY <1>1, <1>2, <1>3 DEF Known

LEMMA ReadsTypes ==
  ASSUME ReadsInv
  PROVE  /\ GrowthTypeOK /\ swaps \in Nat /\ changes \in Nat
         /\ snapshots \in Seq(Row)
         /\ reads \in [Readers -> ReadRec \cup {Nothing}]
         /\ \A r \in Readers : reads[r] # Nothing =>
              /\ InFlight(r) /\ reads[r] \in ReadRec
              /\ reads[r].swaps \in Nat /\ reads[r].changes \in Nat
         /\ certificate \in Certificates
BY NothingIsNoRead DEF ReadsInv, GrowthInv, GrowthTypeOK, CertificateInv, ReadRec

\* A row is known, or of a position that has changed.
RowStands(row) ==
  /\ RowPast(row) => RowPast(row)'
  /\ row.from = changes' /\ RowPast(row) => row.from = changes /\ (Known(row) => Known(row)')

LEMMA ChainKeepsRows ==
  ASSUME ReadsInv, ChainStep, GrowthTypeOK', NEW row \in Row
  PROVE  RowStands(row)
<1>1. SwapStep \/ ChangeStep
  BY ChainStepIs DEF ReadsInv
<1>2. row.from \in Nat /\ row.to \in Nat /\ changes \in Nat
  BY ReadsTypes DEF Row
<1>3. \A t \in Tokens : grown'[t] \in Nat
  BY DEF GrowthTypeOK
<1>4. CASE SwapStep
  <2>1. /\ changes' = changes /\ position' = position /\ marked' = marked
        /\ \A t \in Tokens : grown'[t] \in Nat /\ grown[t] <= grown'[t]
    BY <1>3, <1>4 DEF SwapStep
  <2>2. Known(row) => Known(row)'
    BY <2>1, ReadsTypes, KnownStill
  <2>3. QED
    BY <2>1, <2>2 DEF RowStands, RowPast
<1>5. CASE ChangeStep
  BY <1>2, <1>5 DEF RowStands, RowPast, ChangeStep
<1>6. QED
  BY <1>1, <1>4, <1>5

\* What the readers hold stands while the chain moves.
LEMMA ChainKeepsReads ==
  ASSUME ReadsInv, ChainStep, UNCHANGED readVars
  PROVE  ReadsInv'
<1>1. GrowthInv'
  BY GrowthInvNext DEF ReadsInv
<1>2. reads' = reads /\ snapshots' = snapshots /\ certificate' = certificate
  BY DEF readVars
<1>3. SwapStep \/ ChangeStep
  BY ChainStepIs DEF ReadsInv
<1>4. ASSUME NEW r \in Readers, reads[r] # Nothing
      PROVE  InFlight(r)'
  <2>1. /\ InFlight(r) /\ reads[r].swaps \in Nat /\ reads[r].changes \in Nat
        /\ swaps \in Nat /\ changes \in Nat
    BY <1>4, ReadsTypes
  <2>2. CASE SwapStep
    BY <1>2, <2>1, <2>2 DEF InFlight, SwapStep
  <2>3. CASE ChangeStep
    BY <1>2, <2>1, <2>3 DEF InFlight, ChangeStep
  <2>4. QED
    BY <1>3, <2>2, <2>3
<1>5. CertificateInv'
  <2>1. CertificateInv
    BY DEF ReadsInv
  <2>2. ASSUME certificate.checkpoint # NoCheckpoint
        PROVE  RowStands(certificate.checkpoint) /\ RowPast(certificate.checkpoint)
    <3>1. certificate.checkpoint \in Row
      BY <2>2, ReadsTypes DEF Certificates
    <3>2. QED
      BY <1>1, <2>1, <2>2, <3>1, ChainKeepsRows DEF CertificateInv, GrowthInv
  <2>3. ASSUME certificate.checkpoint # NoCheckpoint
        PROVE  /\ RowPast(certificate.checkpoint)'
               /\ ~certificate.checkpoint.torn /\ certificate.checkpoint.from = changes' =>
                    Known(certificate.checkpoint)'
    BY <1>2, <2>1, <2>2, <2>3 DEF CertificateInv, RowStands
  <2>4. QuietShareIsEarned'
    BY <1>2, <2>1 DEF CertificateInv, QuietShareIsEarned, SamePosition
  <2>5. QED
    BY <1>2, <2>1, <2>3, <2>4 DEF CertificateInv
<1>6. QED
  BY <1>1, <1>2, <1>4, <1>5, ReadsTypes DEF ReadsInv

\* A reading is a row; and one that no swap and no change came between is the
\* state of the chain.
LEMMA ReadingIsRow ==
  ASSUME ReadsInv, NEW r \in Readers, reads[r] # Nothing, NEW upper \in [Tokens -> Growth]
  PROVE  /\ Reading(r, upper) \in Row /\ RowPast(Reading(r, upper))
         /\ Reading(r, upper).from = reads[r].changes /\ Reading(r, upper).to = changes
         /\ Reading(r, upper).torn = (reads[r].swaps # swaps)
<1> DEFINE inside == [t \in Tokens |-> FeeGrowthInside(reads[r].pool, reads[r].lower, upper, t)]
           total == grown["A"] + grown["B"]
           torn == reads[r].swaps # swaps
<1>1. /\ reads[r] \in ReadRec /\ InFlight(r) /\ GrowthTypeOK /\ changes \in Nat
  BY ReadsTypes
<1>2. /\ reads[r].pool.tick \in 0..2 /\ reads[r].pool.global \in [Tokens -> Growth]
      /\ reads[r].lower \in [Tokens -> Growth]
      /\ reads[r].liquidity \in Nat /\ reads[r].changes \in Nat
  BY <1>1 DEF ReadRec
<1>3. inside \in [Tokens -> Growth]
  <2> SUFFICES ASSUME NEW t \in Tokens
               PROVE  FeeGrowthInside(reads[r].pool, reads[r].lower, upper, t) \in Growth
    OBVIOUS
  <2>1. reads[r].pool.global[t] \in Growth /\ reads[r].lower[t] \in Growth /\ upper[t] \in Growth
    BY <1>2
  <2>2. QED
    BY <1>2, <2>1, InsideByTick
<1>4. total \in Nat
  <2>1. "A" \in Tokens /\ "B" \in Tokens
    BY DEF Tokens
  <2>2. grown["A"] \in Nat /\ grown["B"] \in Nat
    BY <1>1, <2>1, GrowthFields
  <2>3. QED
    BY <2>2
<1>5. torn \in BOOLEAN
  OBVIOUS
<1>6. Reading(r, upper) = [liquidity |-> reads[r].liquidity, inside |-> inside, grown |-> total,
                           from |-> reads[r].changes, to |-> changes, torn |-> torn]
  BY DEF Reading
<1> HIDE DEF inside, total, torn
<1>7. Reading(r, upper) \in Row
  BY <1>1, <1>2, <1>3, <1>4, <1>5, <1>6 DEF Row
<1>8. RowPast(Reading(r, upper))
  BY <1>1, <1>2, <1>6 DEF RowPast, InFlight
<1>9. QED
  BY <1>6, <1>7, <1>8 DEF torn

LEMMA ReadingIsNow ==
  ASSUME ReadsInv, NEW r \in Readers, reads[r] # Nothing,
         reads[r].swaps = swaps, reads[r].changes = changes,
         NEW upper, upper = ticks.upper, reads[r].lower = ticks.lower
  PROVE  ReadAt(Reading(r, upper), GrownNow) /\ GrownNow \in Amount
<1>1. /\ reads[r].pool = whirlpool /\ reads[r].liquidity = position.liquidity
      /\ GrowthTypeOK /\ Tracks
  BY ReadsTypes DEF InFlight, ReadsInv, GrowthInv
<1>2. /\ Reading(r, upper).liquidity = position.liquidity
      /\ Reading(r, upper).grown = grown["A"] + grown["B"]
      /\ \A t \in Tokens : Reading(r, upper).inside[t] = Inside(t)
  BY <1>1 DEF Reading, Inside
<1>3. GrownNow \in Amount /\ \A t \in Tokens : GrownNow[t] = grown[t] - marked[t]
  BY <1>1, GrowthFields DEF GrownNow, Amount
<1>4. grown["A"] + grown["B"] = GrownNow["A"] + GrownNow["B"] + marked["A"] + marked["B"]
  <2>1. /\ grown["A"] \in Nat /\ grown["B"] \in Nat /\ marked["A"] \in Nat /\ marked["B"] \in Nat
        /\ GrownNow["A"] = grown["A"] - marked["A"] /\ GrownNow["B"] = grown["B"] - marked["B"]
    BY <1>1, <1>3, GrowthFields DEF Tokens
  <2>2. QED
    BY <2>1
<1>5. QED
  BY <1>1, <1>2, <1>3, <1>4 DEF ReadAt, Tracks

LEMMA KnownNow ==
  ASSUME GrowthTypeOK, NEW row, ReadAt(row, GrownNow), GrownNow \in Amount
  PROVE  Known(row)
<1>1. \A t \in Tokens : GrownNow[t] <= grown[t] - marked[t]
  BY GrowthFields DEF GrownNow
<1>2. QED
  BY <1>1 DEF Known

\* A step of one reader.
LEMMA OneReader ==
  ASSUME ReadsInv, UNCHANGED chainVars, NEW r \in Readers, NEW new,
         reads' = [reads EXCEPT ![r] = new], new \in ReadRec \cup {Nothing},
         new # Nothing => InFlight(r)',
         snapshots' \in Seq(Row), Len(snapshots) <= Len(snapshots'), CertificateInv'
  PROVE  ReadsInv'
<1>1. GrowthInv'
  BY GrowthInvNext DEF ReadsInv
<1>2. reads' \in [Readers -> ReadRec \cup {Nothing}] /\ reads'[r] = new
      /\ \A q \in Readers : q # r => reads'[q] = reads[q]
  BY ReadsTypes
<1>3. ASSUME NEW q \in Readers, reads'[q] # Nothing
      PROVE  InFlight(q)'
  <2>1. CASE q = r
    BY <1>2, <1>3, <2>1
  <2>2. CASE q # r
    <3>1. InFlight(q) /\ reads[q].rows \in Nat /\ reads'[q] = reads[q]
      BY <1>2, <1>3, <2>2, ReadsTypes DEF ReadRec
    <3>2. UNCHANGED <<swaps, changes, position, whirlpool, ticks>>
      BY DEF chainVars
    <3>3. Len(snapshots) \in Nat /\ Len(snapshots') \in Nat
      BY ReadsTypes
    <3>4. QED
      BY <3>1, <3>2, <3>3 DEF InFlight
  <2>3. QED
    BY <2>1, <2>2
<1>4. QED
  BY <1>1, <1>2, <1>3 DEF ReadsInv

\* Nothing moves on the chain and the certificate stays.
LEMMA CertificateStands ==
  ASSUME ReadsInv, UNCHANGED chainVars, certificate' = certificate
  PROVE  CertificateInv'
<1>1. UNCHANGED <<position, marked, grown, changes>> /\ CertificateInv
  BY DEF chainVars, ghosts, ReadsInv
<1>2. ASSUME NEW row PROVE Known(row)' = Known(row)
  BY <1>1 DEF Known, ReadAt
<1>3. QuietShareIsEarned'
  BY <1>1 DEF CertificateInv, QuietShareIsEarned, SamePosition
<1>4. QED
  BY <1>1, <1>2, <1>3 DEF CertificateInv, RowPast

LEMMA ReadCallKeepsReads ==
  ASSUME ReadsInv, UNCHANGED chainVars, NEW r \in Readers,
         ReadPosition(r) \/ ReadPool(r) \/ ReadLower(r) \/ ReadUpper(r)
  PROVE  ReadsInv'
<1>1. snapshots' = snapshots /\ certificate' = certificate
  BY DEF ReadPosition, ReadPool, ReadLower, ReadUpper
<1>2. CertificateInv'
  BY <1>1, CertificateStands
<1>3. /\ swaps' = swaps /\ changes' = changes /\ position' = position
      /\ whirlpool' = whirlpool /\ ticks' = ticks
  BY DEF chainVars
<1>4. /\ GrowthTypeOK /\ swaps \in Nat /\ changes \in Nat /\ Len(snapshots) \in Nat
      /\ reads[r] \in ReadRec \cup {Nothing}
      /\ whirlpool \in [tick : 0..2, global : [Tokens -> Growth]]
      /\ ticks.lower \in [Tokens -> Growth] /\ ticks.upper \in [Tokens -> Growth]
      /\ position.liquidity \in Nat /\ Zero \in [Tokens -> Growth]
      /\ snapshots \in Seq(Row)
  BY ReadsTypes, GrowthAssumption DEF GrowthTypeOK, Zero, Growth
<1>5. reads \in [Readers -> ReadRec \cup {Nothing}]
  BY ReadsTypes
<1> DEFINE Fresh(new) ==
             /\ new.rows <= Len(snapshots) /\ new.swaps <= swaps /\ new.changes <= changes
             /\ new.changes = changes => new.liquidity = position.liquidity
             /\ new.swaps = swaps =>
                  /\ new.pool = whirlpool
                  /\ new.changes = changes =>
                       /\ new.next \in {"upper", "recheck"} => new.lower = ticks.lower
                       /\ new.next = "recheck" => new.upper = ticks.upper
<1>6. ASSUME NEW new \in ReadRec, reads' = [reads EXCEPT ![r] = new], Fresh(new)
      PROVE  ReadsInv'
  <2>1. reads'[r] = new
    BY <1>5, <1>6
  <2>2. InFlight(r)'
    BY <1>1, <1>3, <1>6, <2>1 DEF InFlight
  <2>3. snapshots' \in Seq(Row) /\ Len(snapshots) <= Len(snapshots')
    BY <1>1, <1>4
  <2>4. new \in ReadRec \cup {Nothing}
    OBVIOUS
  <2>5. QED
    BY <1>2, <1>6, <2>2, <2>3, <2>4, OneReader
<1>7. ASSUME reads[r].next # "position"
      PROVE  reads[r] \in ReadRec /\ InFlight(r)
  BY <1>4, <1>7, NothingIsNoRead, ReadsTypes
<1>8. CASE ReadPosition(r)
  <2>1. reads' = [reads EXCEPT ![r] = Begun]
    BY <1>8 DEF ReadPosition
  <2>2. /\ Begun \in ReadRec /\ Begun.next = "pool" /\ Begun.liquidity = position.liquidity
        /\ Begun.pool = whirlpool /\ Begun.rows = Len(snapshots)
        /\ Begun.swaps = swaps /\ Begun.changes = changes
    BY <1>4 DEF Begun, ReadRec
  <2> HIDE DEF Fresh
  <2>3. Fresh(Begun)
    BY <1>4, <2>2 DEF Fresh
  <2>4. QED
    BY <1>6, <2>1, <2>2, <2>3
<1>9. CASE ReadPool(r)
  <2> DEFINE new == [reads[r] EXCEPT !.next = "lower", !.pool = whirlpool, !.swaps = swaps]
  <2>1. reads[r] \in ReadRec /\ InFlight(r)
    BY <1>7, <1>9 DEF ReadPool, At
  <2>2. reads' = [reads EXCEPT ![r] = new]
    BY <1>9 DEF ReadPool
  <2>3. /\ new \in ReadRec /\ new.next = "lower" /\ new.liquidity = reads[r].liquidity
        /\ new.pool = whirlpool /\ new.rows = reads[r].rows
        /\ new.swaps = swaps /\ new.changes = reads[r].changes
    BY <1>4, <2>1 DEF ReadRec
  <2> HIDE DEF new, Fresh
  <2>4. Fresh(new)
    BY <1>4, <2>1, <2>3 DEF Fresh, InFlight
  <2>5. QED
    BY <1>6, <2>2, <2>3, <2>4
<1>10. CASE ReadLower(r)
  <2> DEFINE new == [reads[r] EXCEPT !.next = "upper", !.lower = ticks.lower]
  <2>1. reads[r] \in ReadRec /\ InFlight(r)
    BY <1>7, <1>10 DEF ReadLower, At
  <2>2. reads' = [reads EXCEPT ![r] = new]
    BY <1>10 DEF ReadLower
  <2>3. /\ new \in ReadRec /\ new.next = "upper" /\ new.liquidity = reads[r].liquidity
        /\ new.pool = reads[r].pool /\ new.rows = reads[r].rows
        /\ new.swaps = reads[r].swaps /\ new.changes = reads[r].changes
        /\ new.lower = ticks.lower
    BY <1>4, <2>1 DEF ReadRec
  <2> HIDE DEF new, Fresh
  <2>4. Fresh(new)
    BY <1>4, <2>1, <2>3 DEF Fresh, InFlight
  <2>5. QED
    BY <1>6, <2>2, <2>3, <2>4
<1>11. CASE ReadUpper(r)
  <2> DEFINE new == [reads[r] EXCEPT !.next = "recheck", !.upper = ticks.upper]
  <2>1. reads[r] \in ReadRec /\ InFlight(r) /\ reads[r].next = "upper"
    BY <1>7, <1>11 DEF ReadUpper, At
  <2>2. reads' = [reads EXCEPT ![r] = new]
    BY <1>11 DEF ReadUpper
  <2>3. /\ new \in ReadRec /\ new.next = "recheck" /\ new.liquidity = reads[r].liquidity
        /\ new.pool = reads[r].pool /\ new.rows = reads[r].rows
        /\ new.swaps = reads[r].swaps /\ new.changes = reads[r].changes
        /\ new.lower = reads[r].lower /\ new.upper = ticks.upper
    BY <1>4, <2>1 DEF ReadRec
  <2> HIDE DEF new, Fresh
  <2>4. Fresh(new)
    BY <1>4, <2>1, <2>3 DEF Fresh, InFlight
  <2>5. QED
    BY <1>6, <2>2, <2>3, <2>4
<1>12. QED
  BY <1>8, <1>9, <1>10, <1>11

LEMMA NothingInFlight ==
  ASSUME ReadsInv, UNCHANGED chainVars, NEW r \in Readers, Done(r),
         snapshots' = snapshots, CertificateInv'
  PROVE  ReadsInv'
<1>1. snapshots \in Seq(Row) /\ Len(snapshots) \in Nat
  BY ReadsTypes
<1>2. reads' = [reads EXCEPT ![r] = Nothing] /\ Nothing \in ReadRec \cup {Nothing}
  BY DEF Done
<1>3. snapshots' \in Seq(Row) /\ Len(snapshots) <= Len(snapshots')
  BY <1>1
<1>4. QED
  BY <1>2, <1>3, OneReader

LEMMA ReadFailsKeepsReads ==
  ASSUME ReadsInv, UNCHANGED chainVars, NEW r \in Readers, ReadFails(r)
  PROVE  ReadsInv'
<1>1. /\ Done(r) /\ snapshots' = snapshots
      /\ certificate' =
           IF r = FeeReader
             THEN [certificate EXCEPT !.state = IF @ = "activated" THEN "active" ELSE "settled"]
             ELSE certificate
  BY DEF ReadFails
<1>2. UNCHANGED <<position, marked, grown, changes>> /\ CertificateInv
  BY DEF chainVars, ghosts, ReadsInv
<1>3. ASSUME NEW row PROVE Known(row)' = Known(row)
  BY <1>2 DEF Known, ReadAt
<1>4. /\ certificate' \in Certificates /\ certificate'.checkpoint = certificate.checkpoint
      /\ certificate'.now = certificate.now /\ certificate'.fees = certificate.fees
      /\ certificate'.state # "settled" => certificate.state # "settled"
      /\ certificate'.state = "due" => certificate.state = "due"
  BY <1>1, <1>2 DEF CertificateInv, Certificates
<1>5. CertificateInv'
  BY <1>2, <1>3, <1>4 DEF CertificateInv, RowPast, QuietShareIsEarned, SamePosition
<1>6. QED
  BY <1>1, <1>5, NothingInFlight

LEMMA ExpireKeepsReads ==
  ASSUME ReadsInv, UNCHANGED chainVars, Expire
  PROVE  ReadsInv'
<1>1. /\ reads' = reads /\ snapshots' = snapshots /\ certificate.state = "active"
      /\ certificate' = [certificate EXCEPT !.state =
                           IF certificate.checkpoint = NoCheckpoint THEN "settled" ELSE "due"]
  BY DEF Expire
<1>2. UNCHANGED <<position, whirlpool, ticks, marked, grown, swaps, changes>> /\ CertificateInv
  BY DEF chainVars, ghosts, ReadsInv
<1>3. ASSUME NEW row PROVE Known(row)' = Known(row)
  BY <1>2 DEF Known, ReadAt
<1>4. /\ certificate' \in Certificates /\ certificate'.checkpoint = certificate.checkpoint
      /\ certificate'.now = certificate.now /\ certificate'.fees = certificate.fees
      /\ certificate'.state = "due" => certificate.checkpoint # NoCheckpoint
  BY <1>1, <1>2 DEF CertificateInv, Certificates
<1>5. CertificateInv'
  BY <1>1, <1>2, <1>3, <1>4 DEF CertificateInv, RowPast, QuietShareIsEarned, SamePosition
<1>6. GrowthInv'
  BY GrowthInvNext DEF ReadsInv
<1>7. \A r \in Readers : InFlight(r)' = InFlight(r)
  BY <1>1, <1>2 DEF InFlight
<1>8. QED
  BY <1>1, <1>5, <1>6, <1>7 DEF ReadsInv

LEMMA TakeCheckpointKeepsReads ==
  ASSUME ReadsInv, UNCHANGED chainVars, NEW r \in Readers, TakeCheckpoint(r)
  PROVE  ReadsInv'
<1> DEFINE row == Reading(r, ticks.upper)
<1>1. /\ reads[r].next = "upper" /\ certificate.state = "activated" /\ Done(r)
      /\ certificate' = [certificate EXCEPT !.state = "active", !.checkpoint = row]
      /\ snapshots' = snapshots
  BY DEF TakeCheckpoint, At
<1>2. reads[r] # Nothing /\ InFlight(r) /\ GrowthTypeOK /\ ticks.upper \in [Tokens -> Growth]
  BY <1>1, ReadsTypes DEF Nothing, GrowthTypeOK
<1>3. /\ row \in Row /\ RowPast(row) /\ row.from = reads[r].changes
      /\ row.torn = (reads[r].swaps # swaps)
  BY <1>2, ReadingIsRow
<1>4. ~row.torn /\ row.from = changes => Known(row)
  <2> SUFFICES ASSUME ~row.torn, row.from = changes PROVE Known(row)
    OBVIOUS
  <2>1. reads[r].swaps = swaps /\ reads[r].changes = changes
    BY <1>3
  <2>2. reads[r].lower = ticks.lower
    BY <1>1, <1>2, <2>1 DEF InFlight
  <2>3. ReadAt(row, GrownNow) /\ GrownNow \in Amount
    BY <1>2, <2>1, <2>2, ReadingIsNow
  <2> HIDE DEF row
  <2>4. QED
    BY <1>2, <2>3, KnownNow
<1> HIDE DEF row
<1>5. UNCHANGED <<position, marked, grown, changes>> /\ CertificateInv
  BY DEF chainVars, ghosts, ReadsInv
<1>6. row # NoCheckpoint
  BY <1>3, NoCheckpointIsNoRow
<1>7. certificate \in Certificates /\ certificate.fees = 0
  BY <1>1, <1>5 DEF CertificateInv
<1>8. /\ certificate' \in Certificates /\ certificate'.checkpoint = row
      /\ certificate'.state = "active" /\ certificate'.fees = 0
  BY <1>1, <1>3, <1>7 DEF Certificates
<1>9. QuietShareIsEarned'
  BY <1>8 DEF QuietShareIsEarned
<1>10. /\ RowPast(certificate.checkpoint)'
       /\ ~certificate'.checkpoint.torn /\ certificate'.checkpoint.from = changes' =>
            Known(certificate.checkpoint)'
  BY <1>3, <1>4, <1>5, <1>8 DEF RowPast, Known, ReadAt
<1>11. CertificateInv'
  BY <1>8, <1>9, <1>10 DEF CertificateInv
<1>12. QED
  BY <1>1, <1>11, NothingInFlight

LEMMA SettleFeesKeepsReads ==
  ASSUME ReadsInv, UNCHANGED chainVars, NEW r \in Readers, SettleFees(r)
  PROVE  ReadsInv'
<1> DEFINE now == Reading(r, ticks.upper)
           checkpoint == certificate.checkpoint
           fees == AccruedFees(checkpoint, now)
<1>1. /\ reads[r].next = "upper" /\ certificate.state = "due" /\ Done(r)
      /\ certificate' = [certificate EXCEPT !.state = "settled", !.now = now, !.fees = fees]
      /\ snapshots' = snapshots
  BY DEF SettleFees, At
<1>2. reads[r] # Nothing /\ InFlight(r) /\ GrowthTypeOK /\ ticks.upper \in [Tokens -> Growth]
  BY <1>1, ReadsTypes DEF Nothing, GrowthTypeOK
<1>3. /\ now \in Row /\ now.from = reads[r].changes /\ now.to = changes
      /\ now.torn = (reads[r].swaps # swaps)
  BY <1>2, ReadingIsRow
<1>4. /\ checkpoint \in Row /\ RowPast(checkpoint)
      /\ ~checkpoint.torn /\ checkpoint.from = changes => Known(checkpoint)
      /\ certificate \in Certificates
  <2>1. CertificateInv /\ checkpoint # NoCheckpoint
    BY <1>1 DEF ReadsInv, CertificateInv
  <2>2. QED
    BY <2>1 DEF CertificateInv, Certificates
<1>5. ASSUME ~checkpoint.torn, ~now.torn, SamePosition(checkpoint, now)
      PROVE  FeesBetween(checkpoint, now) = checkpoint.liquidity * (now.grown - checkpoint.grown)
  <2>1. checkpoint.from = changes /\ now.from = changes
    BY <1>3, <1>5 DEF SamePosition
  <2>2. PICK n \in Amount :
          ReadAt(checkpoint, n) /\ \A t \in Tokens : n[t] <= grown[t] - marked[t]
    BY <1>4, <1>5, <2>1 DEF Known
  <2>3. reads[r].swaps = swaps /\ reads[r].changes = changes
    BY <1>3, <1>5, <2>1
  <2>4. reads[r].lower = ticks.lower
    BY <1>1, <1>2, <2>3 DEF InFlight
  <2>5. ReadAt(now, GrownNow) /\ GrownNow \in Amount
    BY <1>2, <2>3, <2>4, ReadingIsNow
  <2>6. \A t \in Tokens : n[t] <= GrownNow[t]
    BY <2>2 DEF GrownNow
  <2> HIDE DEF now, checkpoint
  <2>7. QED
    BY <1>2, <1>3, <1>4, <2>2, <2>5, <2>6, FeesInOrder
<1>6. fees \in Nat
  <2>1. FeesBetween(checkpoint, now) \in Nat
    <3>1. "A" \in Tokens /\ "B" \in Tokens
      BY DEF Tokens
    <3>2. /\ WrapSub(now.inside["A"], checkpoint.inside["A"]) \in Nat
          /\ WrapSub(now.inside["B"], checkpoint.inside["B"]) \in Nat
          /\ checkpoint.liquidity \in Nat
      <4> HIDE DEF now, checkpoint
      <4>1. QED
        BY <1>3, <1>4, <3>1, RowsDiffer DEF Row
    <3>3. \A x, y, z \in Nat : x * y + x * z \in Nat
      OBVIOUS
    <3> HIDE DEF now, checkpoint
    <3>4. QED
      BY <3>2, <3>3 DEF FeesBetween
  <2>2. QED
    BY <2>1 DEF AccruedFees
<1>7. fees > 0 => checkpoint.liquidity = now.liquidity /\ fees = FeesBetween(checkpoint, now)
  BY DEF AccruedFees
<1> HIDE DEF now, fees
<1>8. /\ certificate' \in Certificates /\ certificate'.checkpoint = checkpoint
      /\ certificate'.now = now /\ certificate'.fees = fees /\ certificate'.state = "settled"
  BY <1>1, <1>3, <1>4, <1>6 DEF Certificates
<1> HIDE DEF checkpoint
<1>9. QuietShareIsEarned'
  BY <1>5, <1>7, <1>8 DEF QuietShareIsEarned, SamePosition
<1>10. UNCHANGED <<position, marked, grown, changes>>
  BY DEF chainVars, ghosts
<1>11. Known(checkpoint)' = Known(checkpoint) /\ RowPast(checkpoint)' = RowPast(checkpoint)
  BY <1>8, <1>10 DEF Known, ReadAt, RowPast, checkpoint
<1>12. CertificateInv'
  BY <1>4, <1>8, <1>9, <1>10 DEF CertificateInv, RowPast, Known, ReadAt
<1>13. QED
  BY <1>1, <1>12, NothingInFlight

\* What the reader r records now, and where it goes.
NewRow(r) == Reading(r, reads[r].upper)

LEMMA RecordedRows ==
  ASSUME ReadsInv, NEW r \in Readers, Record(r)
  PROVE  /\ reads[r] # Nothing /\ InFlight(r) /\ reads[r].next = "recheck"
         /\ NewRow(r) \in Row /\ RowPast(NewRow(r))
         /\ NewRow(r).from = reads[r].changes /\ NewRow(r).to = changes
         /\ snapshots' \in Seq(Row) /\ Len(snapshots) <= Len(snapshots')
         /\ \A i \in DOMAIN snapshots' :
              snapshots'[i] = NewRow(r) \/ \E j \in DOMAIN snapshots : snapshots'[i] = snapshots[j]
<1> DEFINE row == NewRow(r)
<1>1. /\ reads[r].next = "recheck"
      /\ snapshots' = IF r = Collector THEN InsertAt(snapshots, reads[r].rows + 1, row)
                                       ELSE Append(snapshots, row)
  BY DEF Record, At, NewRow
<1>2. reads[r] # Nothing
  BY <1>1 DEF Nothing
<1>3. /\ InFlight(r) /\ reads[r] \in ReadRec /\ snapshots \in Seq(Row)
  BY <1>2, ReadsTypes
<1>4. /\ row \in Row /\ RowPast(row) /\ row.from = reads[r].changes /\ row.to = changes
  <2>1. reads[r].upper \in [Tokens -> Growth]
    BY <1>3 DEF ReadRec
  <2>2. QED
    BY <1>2, <2>1, ReadingIsRow DEF NewRow
<1> HIDE DEF row
<1>5. reads[r].rows + 1 \in 1..(Len(snapshots) + 1)
  <2>1. reads[r].rows \in Nat /\ reads[r].rows <= Len(snapshots) /\ Len(snapshots) \in Nat
    BY <1>3 DEF ReadRec, InFlight
  <2>2. QED
    BY <2>1
<1>6. CASE r = Collector
  <2>1. snapshots' = InsertAt(snapshots, reads[r].rows + 1, row)
    BY <1>1, <1>6
  <2>2. /\ snapshots' \in Seq(Row) /\ Len(snapshots') = Len(snapshots) + 1
        /\ \A i \in DOMAIN snapshots' :
             snapshots'[i] = row \/ \E j \in DOMAIN snapshots : snapshots'[i] = snapshots[j]
    BY <1>3, <1>4, <1>5, <2>1, InsertedRows
  <2>3. Len(snapshots) <= Len(snapshots')
    BY <1>3, <2>2
  <2>4. QED
    BY <1>1, <1>2, <1>3, <1>4, <2>2, <2>3 DEF row
<1>7. CASE r # Collector
  <2>1. snapshots' = Append(snapshots, row)
    BY <1>1, <1>7
  <2>2. snapshots' \in Seq(Row) /\ Len(snapshots) <= Len(snapshots')
    BY <1>3, <1>4, <2>1
  <2>3. ASSUME NEW i \in DOMAIN snapshots'
        PROVE  snapshots'[i] = row \/ \E j \in DOMAIN snapshots : snapshots'[i] = snapshots[j]
    <3>1. i = Len(snapshots) + 1 \/ i \in DOMAIN snapshots
      BY <1>3, <2>1, <2>3
    <3>2. i = Len(snapshots) + 1 => snapshots'[i] = row
      BY <1>3, <1>4, <2>1
    <3>3. i \in DOMAIN snapshots => snapshots'[i] = snapshots[i]
      BY <1>3, <1>4, <2>1
    <3>4. QED
      BY <3>1, <3>2, <3>3
  <2>4. QED
    BY <1>1, <1>2, <1>3, <1>4, <2>2, <2>3 DEF row
<1>8. QED
  BY <1>6, <1>7

LEMMA RecordKeepsReads ==
  ASSUME ReadsInv, UNCHANGED chainVars, NEW r \in Readers, Record(r)
  PROVE  ReadsInv'
<1>1. Done(r) /\ certificate' = certificate
  BY DEF Record
<1>2. snapshots' \in Seq(Row) /\ Len(snapshots) <= Len(snapshots')
  BY RecordedRows
<1>3. CertificateInv'
  BY <1>1, CertificateStands
<1>4. reads' = [reads EXCEPT ![r] = Nothing] /\ Nothing \in ReadRec \cup {Nothing}
  BY <1>1 DEF Done
<1>5. QED
  BY <1>2, <1>3, <1>4, OneReader

LEMMA ReadsInvInit == ReadsInit => ReadsInv
<1> SUFFICES ASSUME ReadsInit PROVE ReadsInv
  OBVIOUS
<1>1. GrowthInv
  BY GrowthInvInit DEF ReadsInit
<1>2. /\ reads = [r \in Readers |-> Nothing] /\ snapshots = <<>>
      /\ certificate = [state |-> "activated", checkpoint |-> NoCheckpoint,
                        now |-> NoCheckpoint, fees |-> 0]
  BY DEF ReadsInit
<1>3. reads \in [Readers -> ReadRec \cup {Nothing}] /\ \A r \in Readers : reads[r] = Nothing
  BY <1>2
<1>4. /\ certificate \in Certificates /\ certificate.state = "activated"
      /\ certificate.fees = 0 /\ certificate.checkpoint = NoCheckpoint
  BY <1>2 DEF Certificates
<1>5. CertificateInv
  BY <1>4 DEF CertificateInv, QuietShareIsEarned
<1>6. QED
  BY <1>1, <1>2, <1>3, <1>5 DEF ReadsInv

LEMMA ReadsInvNext == ReadsInv /\ [ReadsNext]_readsVars => ReadsInv'
<1> SUFFICES ASSUME ReadsInv, [ReadsNext]_readsVars PROVE ReadsInv'
  OBVIOUS
<1>1. CASE ChainStep /\ UNCHANGED readVars
  BY <1>1, ChainKeepsReads
<1>2. CASE (\E r \in Readers : Read(r)) /\ UNCHANGED chainVars
  <2>1. PICK r \in Readers : Read(r)
    BY <1>2
  <2>2. QED
    BY <1>2, <2>1, ReadCallKeepsReads, ReadFailsKeepsReads, RecordKeepsReads,
       TakeCheckpointKeepsReads, SettleFeesKeepsReads DEF Read
<1>3. CASE Expire /\ UNCHANGED chainVars
  BY <1>3, ExpireKeepsReads
<1>4. CASE UNCHANGED readsVars
  <2>1. UNCHANGED chainVars /\ UNCHANGED readVars
    BY <1>4 DEF readsVars
  <2>2. GrowthInv'
    BY <2>1, GrowthInvNext DEF ReadsInv
  <2>3. reads' = reads /\ snapshots' = snapshots /\ certificate' = certificate
    BY <2>1 DEF readVars
  <2>4. CertificateInv'
    BY <2>1, <2>3, CertificateStands
  <2>5. UNCHANGED <<position, whirlpool, ticks, swaps, changes>>
    BY <2>1 DEF chainVars
  <2>6. \A r \in Readers : InFlight(r)' = InFlight(r)
    BY <2>3, <2>5 DEF InFlight
  <2>7. QED
    BY <2>2, <2>3, <2>4, <2>6 DEF ReadsInv
<1>5. QED
  BY <1>1, <1>2, <1>3, <1>4 DEF ReadsNext

\* The settlement's fee reader (fee-reader.ts): whatever the chain does between
\* its calls, a fee share that is deducted, of two readings that no swap tore
\* and of a position that nobody changed, is what the position earned since the
\* checkpoint of the activation.
THEOREM QuietFeeShareIsEarned == ReadsSpec => []QuietShareIsEarned
<1>1. ReadsInv => QuietShareIsEarned
  BY DEF ReadsInv, CertificateInv
<1>2. QED
  BY <1>1, ReadsInvInit, ReadsInvNext, PTL DEF ReadsSpec

-----------------------------------------------------------------------------
(* Snapshots of one position *)

\* What the pool has moved since a reader read it.
Moved(global, p) ==
  WrapSub(global["A"], p.global["A"]) + WrapSub(global["B"], p.global["B"])

\* One more swap moves one accumulator by one.
LEMMA SwapCounts ==
  ASSUME NEW g \in [Tokens -> Growth], NEW p, p.global \in [Tokens -> Growth],
         NEW token \in Tokens, Moved(g, p) + 1 < Modulus
  PROVE  Moved([g EXCEPT ![token] = (@ + 1) % Modulus], p) = Moved(g, p) + 1
<1> DEFINE h == [g EXCEPT ![token] = (@ + 1) % Modulus]
           q == p.global
           d(t) == WrapSub(g[t], q[t])
<1>1. "A" \in Tokens /\ "B" \in Tokens /\ (token = "A" \/ token = "B")
  BY DEF Tokens
<1>2. \A t \in Tokens : d(t) \in Growth
  BY WrapSubValue
<1>3. Modulus \in Nat /\ Growth = 0..(Modulus - 1)
  BY GrowthAssumption DEF Growth
<1>4. WrapSub(h[token], q[token]) = (d(token) + 1) % Modulus
  BY WrapSubGroup
<1>5. \A t \in Tokens : t # token => WrapSub(h[t], q[t]) = d(t)
  OBVIOUS
<1>6. /\ Moved(g, p) = d("A") + d("B")
      /\ Moved(h, p) = WrapSub(h["A"], q["A"]) + WrapSub(h["B"], q["B"])
  BY DEF Moved
<1> HIDE DEF d, h, q
<1>7. d("A") \in Nat /\ d("B") \in Nat
  BY <1>1, <1>2, <1>3
<1>8. d(token) + 1 < Modulus
  BY <1>1, <1>3, <1>6, <1>7
<1>9. WrapSub(h[token], q[token]) = d(token) + 1
  BY <1>2, <1>3, <1>4, <1>8, NextGrowth
<1>10. CASE token = "A"
  <2>1. WrapSub(h["B"], q["B"]) = d("B")
    BY <1>1, <1>5, <1>10
  <2>2. QED
    BY <1>6, <1>7, <1>9, <1>10, <2>1 DEF h
<1>11. CASE token = "B"
  <2>1. WrapSub(h["A"], q["A"]) = d("A")
    BY <1>1, <1>5, <1>11
  <2>2. QED
    BY <1>6, <1>7, <1>9, <1>11, <2>1 DEF h
<1>12. QED
  BY <1>1, <1>10, <1>11

LEMMA MovedNone ==
  ASSUME NEW p, p.global \in [Tokens -> Growth]
  PROVE  Moved(p.global, p) = 0
<1>1. "A" \in Tokens /\ "B" \in Tokens
  BY DEF Tokens
<1>2. WrapSub(p.global["A"], p.global["A"]) = 0 /\ WrapSub(p.global["B"], p.global["B"]) = 0
  BY <1>1, WrapSubGroup
<1>3. QED
  BY <1>2 DEF Moved

LEMMA CountedChain ==
  ASSUME ReadsInv, Counted, MaxSwaps < Modulus, ChainStep, UNCHANGED readVars
  PROVE  Counted'
<1>1. reads' = reads
  BY DEF readVars
<1>2. /\ GrowthTypeOK /\ swaps \in Nat /\ MaxSwaps \in Nat /\ Modulus \in Nat
      /\ grown["A"] \in Nat /\ grown["B"] \in Nat
      /\ whirlpool.global \in [Tokens -> Growth]
      /\ swaps <= MaxSwaps /\ grown["A"] + grown["B"] <= swaps
  <2>1. "A" \in Tokens /\ "B" \in Tokens
    BY DEF Tokens
  <2>2. QED
    BY <2>1, ReadsTypes, GrowthFields, GrowthAssumption DEF Counted, GrowthTypeOK
<1>3. ASSUME NEW r \in Readers, reads[r] # Nothing
      PROVE  /\ Moved(whirlpool.global, reads[r].pool) = swaps - reads[r].swaps
             /\ reads[r].swaps \in Nat /\ reads[r].swaps <= swaps
             /\ reads[r].pool.global \in [Tokens -> Growth]
  BY <1>3, ReadsTypes DEF Counted, Moved, ReadRec, InFlight
<1>4. GrowthInv'
  BY GrowthInvNext DEF ReadsInv
<1>5. CASE SwapStep
  <2>1. PICK token \in Tokens :
          whirlpool'.global = [whirlpool.global EXCEPT ![token] = (@ + 1) % Modulus]
    BY <1>5 DEF SwapStep
  <2>2. /\ swaps' = swaps + 1 /\ swaps < MaxSwaps
        /\ grown'["A"] + grown'["B"] <= grown["A"] + grown["B"] + 1
    BY <1>5 DEF SwapStep
  <2>3. grown'["A"] \in Nat /\ grown'["B"] \in Nat
    BY <1>4 DEF GrowthInv, GrowthTypeOK, Tokens
  <2>4. swaps' <= MaxSwaps /\ grown'["A"] + grown'["B"] <= swaps'
    BY <1>2, <2>2, <2>3
  <2>5. ASSUME NEW r \in Readers, reads[r] # Nothing
        PROVE  Moved(whirlpool'.global, reads[r].pool) = swaps' - reads[r].swaps
    <3> DEFINE n == swaps - reads[r].swaps
    <3>1. /\ Moved(whirlpool.global, reads[r].pool) = n /\ n \in Nat /\ n + 1 < Modulus
          /\ reads[r].swaps \in Nat
      BY <1>2, <1>3, <2>2, <2>5
    <3>2. reads[r].pool.global \in [Tokens -> Growth]
      BY <1>3, <2>5
    <3>3. Moved(whirlpool'.global, reads[r].pool) = Moved(whirlpool.global, reads[r].pool) + 1
      BY <1>2, <2>1, <3>1, <3>2, SwapCounts
    <3>4. QED
      BY <1>2, <2>2, <3>1, <3>3
  <2>6. QED
    BY <1>1, <2>4, <2>5 DEF Counted, Moved
<1>6. CASE ChangeStep
  BY <1>1, <1>6 DEF Counted, ChangeStep
<1>7. QED
  BY <1>5, <1>6, ChainStepIs DEF ReadsInv

LEMMA CountedRead ==
  ASSUME ReadsInv, Counted, UNCHANGED chainVars,
         (\E r \in Readers : Read(r)) \/ Expire \/ UNCHANGED readVars
  PROVE  Counted'
<1>1. whirlpool' = whirlpool /\ swaps' = swaps /\ grown' = grown
  BY DEF chainVars, ghosts
<1>2. /\ reads \in [Readers -> ReadRec \cup {Nothing}] /\ swaps \in Nat
      /\ whirlpool.global \in [Tokens -> Growth]
  BY ReadsTypes DEF GrowthTypeOK
<1>3. ASSUME NEW q \in Readers, reads[q] # Nothing
      PROVE  Moved(whirlpool.global, reads[q].pool) = swaps - reads[q].swaps
  BY <1>3 DEF Counted, Moved
<1>4. ASSUME NEW r \in Readers, NEW new, reads' = [reads EXCEPT ![r] = new],
             new # Nothing => Moved(whirlpool.global, new.pool) = swaps - new.swaps
      PROVE  Counted'
  <2>1. ASSUME NEW q \in Readers, reads'[q] # Nothing
        PROVE  Moved(whirlpool.global, reads'[q].pool) = swaps - reads'[q].swaps
    <3>1. reads'[r] = new /\ (q # r => reads'[q] = reads[q])
      BY <1>2, <1>4
    <3>2. QED
      BY <1>3, <1>4, <2>1, <3>1
  <2>2. QED
    BY <1>1, <2>1 DEF Counted, Moved
<1>5. Moved(whirlpool.global, whirlpool) = 0 /\ swaps - swaps = 0
  BY <1>2, MovedNone
<1>6. CASE reads' = reads
  BY <1>1, <1>6 DEF Counted
<1>7. CASE \E r \in Readers : Read(r)
  <2>1. PICK r \in Readers : Read(r)
    BY <1>7
  <2>2. CASE ReadPosition(r)
    <3>1. /\ reads' = [reads EXCEPT ![r] = Begun] /\ Begun.pool = whirlpool
          /\ Begun.swaps = swaps
      BY <2>2 DEF ReadPosition, Begun
    <3>2. QED
      BY <1>4, <1>5, <3>1
  <2>3. CASE ReadPool(r)
    <3> DEFINE new == [reads[r] EXCEPT !.next = "lower", !.pool = whirlpool, !.swaps = swaps]
    <3>1. reads' = [reads EXCEPT ![r] = new]
      BY <2>3 DEF ReadPool
    <3>2. reads[r] \in ReadRec
      BY <1>2, <2>3, NothingIsNoRead DEF ReadPool, At
    <3>3. new.pool = whirlpool /\ new.swaps = swaps
      BY <3>2 DEF ReadRec
    <3> HIDE DEF new
    <3>4. QED
      BY <1>4, <1>5, <3>1, <3>3
  <2>4. CASE ReadLower(r)
    <3> DEFINE new == [reads[r] EXCEPT !.next = "upper", !.lower = ticks.lower]
    <3>1. reads' = [reads EXCEPT ![r] = new] /\ reads[r].next = "lower"
      BY <2>4 DEF ReadLower, At
    <3>2. reads[r] \in ReadRec /\ reads[r] # Nothing
      BY <1>2, <3>1, NothingIsNoRead DEF Nothing
    <3>3. new.pool = reads[r].pool /\ new.swaps = reads[r].swaps
      BY <3>2 DEF ReadRec
    <3> HIDE DEF new
    <3>4. QED
      BY <1>3, <1>4, <3>1, <3>2, <3>3
  <2>5. CASE ReadUpper(r)
    <3> DEFINE new == [reads[r] EXCEPT !.next = "recheck", !.upper = ticks.upper]
    <3>1. reads' = [reads EXCEPT ![r] = new] /\ reads[r].next = "upper"
      BY <2>5 DEF ReadUpper, At
    <3>2. reads[r] \in ReadRec /\ reads[r] # Nothing
      BY <1>2, <3>1, NothingIsNoRead DEF Nothing
    <3>3. new.pool = reads[r].pool /\ new.swaps = reads[r].swaps
      BY <3>2 DEF ReadRec
    <3> HIDE DEF new
    <3>4. QED
      BY <1>3, <1>4, <3>1, <3>2, <3>3
  <2>6. CASE ReadFails(r) \/ Record(r) \/ TakeCheckpoint(r) \/ SettleFees(r)
    <3>1. reads' = [reads EXCEPT ![r] = Nothing]
      BY <2>6 DEF ReadFails, Record, TakeCheckpoint, SettleFees, Done
    <3>2. QED
      BY <1>4, <3>1
  <2>7. QED
    BY <2>1, <2>2, <2>3, <2>4, <2>5, <2>6 DEF Read
<1>8. CASE Expire
  BY <1>6, <1>8 DEF Expire
<1>9. CASE UNCHANGED readVars
  BY <1>6, <1>9 DEF readVars
<1>10. QED
  BY <1>7, <1>8, <1>9

LEMMA InOrderAgrees ==
  ASSUME GrowthTypeOK, NEW a \in Row, NEW b \in Row, NEW n \in Amount, NEW m \in Amount,
         ReadAt(a, n), ReadAt(b, m), \A t \in Tokens : n[t] <= m[t]
  PROVE  PairAgrees(a, b)
<1>1. FeesBetween(a, b) = a.liquidity * (b.grown - a.grown)
  BY FeesInOrder
<1>2. QED
  BY <1>1 DEF PairAgrees, IntervalFees

\* What was recorded before stands while the chain moves.
LEMMA ChainKeepsAgreement ==
  ASSUME ReadsInv, RowsAgree, ChainStep, UNCHANGED readVars
  PROVE  RowsAgree'
<1>1. snapshots' = snapshots
  BY DEF readVars
<1>2. GrowthTypeOK'
  BY GrowthInvNext DEF ReadsInv, GrowthInv
<1>3. ASSUME NEW i \in DOMAIN snapshots
      PROVE  /\ RowPast(snapshots[i])'
             /\ snapshots[i].from = changes' => Known(snapshots[i])'
  <2> DEFINE row == snapshots[i]
  <2>1. row \in Row
    BY <1>3, ReadsTypes
  <2>2. RowPast(row) /\ (row.from = changes => Known(row))
    BY <1>3 DEF RowsAgree
  <2>3. RowStands(row)
    BY <1>2, <2>1, ChainKeepsRows
  <2>4. QED
    BY <1>1, <2>2, <2>3 DEF RowStands
<1>4. ASSUME NEW i \in DOMAIN snapshots, NEW j \in DOMAIN snapshots
      PROVE  PairAgrees(snapshots[i], snapshots[j])
  BY <1>4 DEF RowsAgree
<1>5. QED
  BY <1>1, <1>3, <1>4 DEF RowsAgree, PairAgrees, SamePosition, IntervalFees, FeesBetween, WrapSub

\* The pool that is read again is the one that was read, so no swap came between:
\* the new row is of this moment, and agrees with every row of the same position,
\* before or behind it in the table.
LEMMA RecordAgrees ==
  ASSUME RecordsInv, MaxSwaps + MaxPlausible < Modulus, UNCHANGED chainVars,
         NEW r \in Readers, Record(r)
  PROVE  RowsAgree'
<1> DEFINE row == NewRow(r)
<1>1. ReadsInv /\ Counted /\ RowsAgree
  BY DEF RecordsInv
<1>2. /\ reads[r] # Nothing /\ InFlight(r) /\ reads[r].next = "recheck"
      /\ row \in Row /\ RowPast(row) /\ row.from = reads[r].changes /\ row.to = changes
      /\ \A i \in DOMAIN snapshots' :
           snapshots'[i] = row \/ \E j \in DOMAIN snapshots : snapshots'[i] = snapshots[j]
  BY <1>1, RecordedRows
<1>3. /\ GrowthTypeOK /\ snapshots \in Seq(Row) /\ swaps \in Nat /\ changes \in Nat
      /\ reads[r].swaps \in Nat
  BY <1>1, <1>2, ReadsTypes
<1>4. reads[r].swaps = swaps
  <2>1. reads[r].pool = whirlpool
    BY DEF Record, Stable
  <2>2. whirlpool.global \in [Tokens -> Growth]
    BY <1>3 DEF GrowthTypeOK
  <2>3. Moved(whirlpool.global, whirlpool) = 0
    BY <2>2, MovedNone
  <2>4. Moved(whirlpool.global, reads[r].pool) = swaps - reads[r].swaps
    BY <1>1, <1>2 DEF Counted, Moved
  <2>5. QED
    BY <1>3, <2>1, <2>3, <2>4
<1>5. ASSUME row.from = changes
      PROVE  ReadAt(row, GrownNow) /\ GrownNow \in Amount /\ Known(row)
  <2>1. reads[r].changes = changes
    BY <1>2, <1>5
  <2>2. reads[r].lower = ticks.lower /\ reads[r].upper = ticks.upper
    BY <1>2, <1>4, <2>1 DEF InFlight
  <2>3. ReadAt(row, GrownNow) /\ GrownNow \in Amount
    BY <1>1, <1>2, <1>4, <2>1, <2>2, ReadingIsNow DEF NewRow
  <2> HIDE DEF row
  <2>4. QED
    BY <1>3, <2>3, KnownNow
<1> HIDE DEF row
<1>6. \A t \in Tokens : GrownNow[t] + MaxPlausible < Modulus
  <2>1. "A" \in Tokens /\ "B" \in Tokens /\ \A t \in Tokens : t = "A" \/ t = "B"
    BY DEF Tokens
  <2>2. \A t \in Tokens : grown[t] \in Nat /\ marked[t] \in Nat
    BY <1>3, GrowthFields
  <2>3. swaps <= MaxSwaps /\ grown["A"] + grown["B"] <= swaps
    BY <1>1 DEF Counted
  <2>4. MaxSwaps \in Nat /\ MaxPlausible \in Nat /\ Modulus \in Nat
    BY GrowthAssumption, ReadsAssumption
  <2>5. \A t \in Tokens : grown[t] <= MaxSwaps
    <3>1. grown["A"] \in Nat /\ grown["B"] \in Nat
      BY <2>1, <2>2
    <3>2. grown["A"] <= MaxSwaps /\ grown["B"] <= MaxSwaps
      BY <1>3, <2>3, <2>4, <3>1
    <3>3. QED
      BY <2>1, <3>2
  <2>6. \A t \in Tokens : GrownNow[t] = grown[t] - marked[t]
    BY DEF GrownNow
  <2>7. QED
    BY <2>2, <2>4, <2>5, <2>6
<1>7. ASSUME NEW x \in Row, RowPast(x), SamePosition(x, row) \/ SamePosition(row, x)
      PROVE  x.from = changes /\ row.from = changes
  BY <1>2, <1>7 DEF SamePosition
<1>8. PairAgrees(row, row)
  <2>1. CASE SamePosition(row, row)
    <3>1. row.from = changes
      BY <1>2, <1>7, <2>1
    <3>2. ReadAt(row, GrownNow) /\ GrownNow \in Amount
      BY <1>5, <3>1
    <3>3. \A t \in Tokens : GrownNow[t] <= GrownNow[t]
      BY <3>2 DEF Amount
    <3>4. QED
      BY <1>2, <1>3, <3>2, <3>3, InOrderAgrees
  <2>2. CASE ~SamePosition(row, row)
    BY <2>2 DEF PairAgrees
  <2>3. QED
    BY <2>1, <2>2
<1>9. ASSUME NEW x \in Row, RowPast(x), x.from = changes => Known(x)
      PROVE  PairAgrees(x, row) /\ PairAgrees(row, x)
  <2>1. CASE SamePosition(x, row) \/ SamePosition(row, x)
    <3>1. x.from = changes /\ row.from = changes
      BY <1>7, <1>9, <2>1
    <3>2. ReadAt(row, GrownNow) /\ GrownNow \in Amount
      BY <1>5, <3>1
    <3>3. PICK n \in Amount : ReadAt(x, n) /\ \A t \in Tokens : n[t] <= grown[t] - marked[t]
      BY <1>9, <3>1 DEF Known
    <3>4. \A t \in Tokens : n[t] <= GrownNow[t]
      BY <3>3 DEF GrownNow
    <3>5. PairAgrees(x, row)
      BY <1>2, <1>3, <3>2, <3>3, <3>4, InOrderAgrees
    <3>6. IntervalFees(row, x) = 0
      BY <1>2, <1>3, <1>6, <3>2, <3>3, <3>4, FeesOutOfOrder
    <3>7. QED
      BY <3>5, <3>6 DEF PairAgrees
  <2>2. CASE ~(SamePosition(x, row) \/ SamePosition(row, x))
    BY <2>2 DEF PairAgrees
  <2>3. QED
    BY <2>1, <2>2
<1>10. ASSUME NEW j \in DOMAIN snapshots
       PROVE  /\ snapshots[j] \in Row /\ RowPast(snapshots[j])
              /\ snapshots[j].from = changes => Known(snapshots[j])
  BY <1>1, <1>3, <1>10 DEF RowsAgree
<1>11. UNCHANGED <<position, marked, grown, changes>>
  BY DEF chainVars, ghosts
<1>12. ASSUME NEW i \in DOMAIN snapshots'
       PROVE  /\ RowPast(snapshots'[i])
              /\ snapshots'[i].from = changes => Known(snapshots'[i])
  BY <1>2, <1>5, <1>10, <1>12
<1>13. ASSUME NEW i \in DOMAIN snapshots', NEW j \in DOMAIN snapshots'
       PROVE  PairAgrees(snapshots'[i], snapshots'[j])
  <2>1. CASE snapshots'[i] = row /\ snapshots'[j] = row
    BY <1>8, <2>1
  <2>2. CASE snapshots'[i] = row /\ \E k \in DOMAIN snapshots : snapshots'[j] = snapshots[k]
    BY <1>9, <1>10, <2>2
  <2>3. CASE snapshots'[j] = row /\ \E k \in DOMAIN snapshots : snapshots'[i] = snapshots[k]
    BY <1>9, <1>10, <2>3
  <2>4. CASE /\ \E k \in DOMAIN snapshots : snapshots'[i] = snapshots[k]
             /\ \E k \in DOMAIN snapshots : snapshots'[j] = snapshots[k]
    BY <1>1, <2>4 DEF RowsAgree
  <2>5. QED
    BY <1>2, <1>13, <2>1, <2>2, <2>3, <2>4
<1>14. QED
  BY <1>11, <1>12, <1>13 DEF RowsAgree, RowPast, Known, ReadAt

LEMMA RecordsInvInit == ReadsInit => RecordsInv
<1> SUFFICES ASSUME ReadsInit PROVE RecordsInv
  OBVIOUS
<1>1. ReadsInv
  BY ReadsInvInit
<1>2. /\ reads = [r \in Readers |-> Nothing] /\ snapshots = <<>> /\ swaps = 0 /\ grown = Zero
  BY DEF ReadsInit, GrowthInit
<1>3. grown["A"] = 0 /\ grown["B"] = 0
  BY <1>2 DEF Zero, Tokens
<1>4. Counted
  BY <1>2, <1>3, GrowthAssumption DEF Counted
<1>5. RowsAgree
  BY <1>2 DEF RowsAgree
<1>6. QED
  BY <1>1, <1>4, <1>5 DEF RecordsInv

LEMMA RecordsInvNext ==
  ASSUME MaxSwaps + MaxPlausible < Modulus
  PROVE  RecordsInv /\ [ReadsNext]_readsVars => RecordsInv'
<1> SUFFICES ASSUME RecordsInv, [ReadsNext]_readsVars PROVE RecordsInv'
  OBVIOUS
<1>1. ReadsInv /\ Counted /\ RowsAgree
  BY DEF RecordsInv
<1>2. ReadsInv'
  BY <1>1, ReadsInvNext
<1>3. MaxSwaps < Modulus
  BY GrowthAssumption, ReadsAssumption
<1>4. CASE ChainStep /\ UNCHANGED readVars
  BY <1>1, <1>2, <1>3, <1>4, CountedChain, ChainKeepsAgreement DEF RecordsInv
<1>5. CASE /\ (\E r \in Readers : Read(r)) \/ Expire \/ UNCHANGED readVars
           /\ UNCHANGED chainVars
  <2>1. Counted'
    BY <1>1, <1>5, CountedRead
  <2>2. ASSUME NEW r \in Readers, Record(r) PROVE RowsAgree'
    BY <1>5, <2>2, RecordAgrees
  <2>3. ASSUME snapshots' = snapshots PROVE RowsAgree'
    <3>1. UNCHANGED <<position, marked, grown, changes>>
      BY <1>5 DEF chainVars, ghosts
    <3>2. QED
      BY <1>1, <2>3, <3>1 DEF RowsAgree, RowPast, Known, ReadAt, PairAgrees, SamePosition,
         IntervalFees, FeesBetween, WrapSub
  <2>4. (\E r \in Readers : Record(r)) \/ snapshots' = snapshots
    BY <1>5 DEF Read, ReadPosition, ReadPool, ReadLower, ReadUpper, ReadFails,
       TakeCheckpoint, SettleFees, Expire, readVars
  <2>5. QED
    BY <1>2, <2>1, <2>2, <2>3, <2>4 DEF RecordsInv
<1>6. QED
  BY <1>4, <1>5 DEF ReadsNext, readsVars

\* The collector (position-snapshot-job.ts) and the dashboard (discovery.ts,
\* position-yield.ts): whatever the chain does between the calls and however the
\* rows of the two interleave in the table, an interval of one position counts
\* what it earned, or nothing.  The accumulators must count further than the
\* swaps between two rows and the ceiling of an interval together.
THEOREM SnapshotsMeasureEarned ==
  ASSUME MaxSwaps + MaxPlausible < Modulus
  PROVE  ReadsSpec => []MeasuredIsEarned
<1>1. RecordsInv => MeasuredIsEarned
  <2> SUFFICES ASSUME RecordsInv, NEW i \in 2..Len(snapshots)
               PROVE  PairAgrees(snapshots[i - 1], snapshots[i])
    BY DEF MeasuredIsEarned, PairAgrees
  <2>1. snapshots \in Seq(Row)
    BY ReadsTypes DEF RecordsInv
  <2>2. i - 1 \in DOMAIN snapshots /\ i \in DOMAIN snapshots
    BY <2>1
  <2>3. QED
    BY <2>2 DEF RecordsInv, RowsAgree
<1>2. QED
  BY <1>1, RecordsInvInit, RecordsInvNext, PTL DEF ReadsSpec
=============================================================================
