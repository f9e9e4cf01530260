------------------------------ MODULE Doubles ------------------------------
(***************************************************************************)
(* What Math.floor((a * b) / c) gives of natural numbers in IEEE 754       *)
(* doubles, which is how the pool prices shares (pool.ts): the product is  *)
(* rounded to a double, then the quotient is, and the result is cut down   *)
(* to an integer.  Doubles have a mantissa of 53 bits; the specification   *)
(* takes any number of bits, so that small numbers meet the rounding.      *)
(***************************************************************************)
EXTENDS Integers

CONSTANTS
  Exact,      \* integers below it are doubles; 2^53
  Spacings    \* the powers of two from 1 to the widest gap between doubles

ASSUME DoublesAssumption == Exact \in Nat \ {0} /\ Spacings \subseteq Nat \ {0}

\* x / c as the nearest integer, the even one of two.
Nearest(x, c) ==
  LET down == x \div c
      rest == x % c
  IN  IF 2 * rest < c \/ (2 * rest = c /\ down % 2 = 0) THEN down ELSE down + 1

\* A power of two is the spacing of the doubles around x when x, in its units,
\* fills the mantissa.
Fills(x, unit) == unit * Exact <= 2 * x /\ x < unit * Exact

Spacing(x) ==
  IF \E u \in Spacings : Fills(x, u) THEN CHOOSE u \in Spacings : Fills(x, u) ELSE 1

Rounded(x) == Nearest(x, Spacing(x)) * Spacing(x)

\* The spacing around the quotient of a double and an integer is a fraction
\* 1/parts, for quotients below Exact; those below one half count as none.
FloorQuotient(x, c) ==
  IF \E parts \in Spacings : Fills(parts * x, c)
    THEN LET parts == CHOOSE v \in Spacings : Fills(v * x, c)
         IN  Nearest(parts * x, c) \div parts
    ELSE x \div c

FloorMulDiv(a, b, c) == FloorQuotient(Rounded(a * b), c)
=============================================================================
