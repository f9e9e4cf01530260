------------------------- MODULE PrefixSumsProofs -------------------------
(***************************************************************************)
(* Facts about Sum that the ledger's proofs cite.  Induction is by the     *)
(* least counterexample, over the sets that the proofs define.             *)
(***************************************************************************)
EXTENDS PrefixSums, WellFoundedInduction, TLAPS

-----------------------------------------------------------------------------
(* Induction over the natural numbers, stated with sets *)

\* Every set of natural numbers that is not empty has a least element.
LEMMA LeastElement ==
  ASSUME NEW S, S \subseteq Nat, S # {}
  PROVE  \E m \in S : \A k \in S : m <= k
<1>1. IsWellFoundedOn(OpToRel(<, Nat), Nat)
  BY NatLessThanWellFounded
<1>2. PICK m \in S : \A k \in S : ~(<<k, m>> \in OpToRel(<, Nat))
  BY <1>1, WFMin
<1>3. \A k \in S : ~(k < m)
  BY <1>2 DEF OpToRel
<1>4. QED
  BY <1>3

\* A set that contains 0 and is closed under successor contains every number.
LEMMA SetInduction ==
  ASSUME NEW S, 0 \in S, \A n \in Nat : n \in S => n + 1 \in S
  PROVE  Nat \subseteq S
<1> SUFFICES ASSUME Nat \ S # {} PROVE FALSE
  OBVIOUS
<1>1. PICK m \in Nat \ S : \A k \in Nat \ S : m <= k
  BY LeastElement
<1>2. m # 0 /\ m - 1 \in Nat /\ m - 1 \in S
  BY <1>1
<1>3. QED
  BY <1>1, <1>2

-----------------------------------------------------------------------------
(* The recursive function under Sum is well defined *)

UpTo(n, f) ==
  CHOOSE g : g = [i \in 0..n |-> IF i = 0 THEN 0 ELSE g[i - 1] + f[i]]

\* Sum is the last value of the recursive function.
LEMMA SumIsUpTo ==
  ASSUME NEW f, NEW n \in Nat
  PROVE  Sum(n, f) = UpTo(n, f)[n]
BY DEF Sum, UpTo

\* Some function satisfies the recursion, for every length.
LEMMA UpToExists ==
  ASSUME NEW f
  PROVE  \A n \in Nat : \E g : g = [i \in 0..n |-> IF i = 0 THEN 0 ELSE g[i - 1] + f[i]]
<1> DEFINE S == {n \in Nat : \E g : g = [i \in 0..n |-> IF i = 0 THEN 0 ELSE g[i - 1] + f[i]]}
<1>1. 0 \in S
  <2>1. [i \in 0..0 |-> 0]
          = [i \in 0..0 |-> IF i = 0 THEN 0 ELSE [j \in 0..0 |-> 0][i - 1] + f[i]]
    OBVIOUS
  <2>2. QED
    BY <2>1
<1>2. ASSUME NEW n \in Nat, n \in S
      PROVE  n + 1 \in S
  <2>1. PICK g : g = [i \in 0..n |-> IF i = 0 THEN 0 ELSE g[i - 1] + f[i]]
    BY <1>2
  <2> DEFINE h == [i \in 0..n+1 |-> IF i = n + 1 THEN g[n] + f[n + 1] ELSE g[i]]
  <2>2. \A i \in 0..n+1 : h[i] = IF i = 0 THEN 0 ELSE h[i - 1] + f[i]
    <3> TAKE i \in 0..n+1
    <3>1. CASE i = n + 1
      BY <3>1
    <3>2. CASE i \in 1..n
      <4>1. g[i] = g[i-1] + f[i]
        BY <2>1, <3>2
      <4>2. QED
        BY <4>1, <3>2
    <3>3. CASE i = 0
      <4>1. g[0] = 0
        BY <2>1
      <4>2. QED
        BY <4>1, <3>3
    <3>4. QED
      BY <3>1, <3>2, <3>3
  <2>3. h = [i \in 0..n+1 |-> IF i = 0 THEN 0 ELSE h[i - 1] + f[i]]
    BY <2>2
  <2> HIDE DEF h
  <2>4. \E e : e = [i \in 0..n+1 |-> IF i = 0 THEN 0 ELSE e[i - 1] + f[i]]
    BY <2>3
  <2>5. QED
    BY <2>4
<1>3. Nat \subseteq S
  <2> HIDE DEF S
  <2>1. QED
    BY <1>1, <1>2, SetInduction
<1>4. QED
  BY <1>3

\* So the chosen function satisfies it.
LEMMA UpToDef ==
  ASSUME NEW f, NEW n \in Nat
  PROVE  \A i \in 0..n : UpTo(n, f)[i] = IF i = 0 THEN 0 ELSE UpTo(n, f)[i - 1] + f[i]
<1> DEFINE F == UpTo(n, f)
<1>1. F = [i \in 0..n |-> IF i = 0 THEN 0 ELSE F[i - 1] + f[i]]
  BY UpToExists DEF UpTo
<1> HIDE DEF F
<1>2. \A i \in 0..n : F[i] = IF i = 0 THEN 0 ELSE F[i - 1] + f[i]
  BY <1>1
<1>3. QED
  BY <1>2 DEF F

\* Partial sums depend only on the terms they add.
LEMMA UpToAgree ==
  ASSUME NEW f, NEW h, NEW n \in Nat, NEW m \in Nat, NEW k \in Nat, k <= n, k <= m,
         \A i \in 1..k : f[i] = h[i]
  PROVE  UpTo(n, f)[k] = UpTo(m, h)[k]
<1> DEFINE F == UpTo(n, f)
           G == UpTo(m, h)
           S == {j \in Nat : j <= k => F[j] = G[j]}
<1>1. \A i \in 0..n : F[i] = IF i = 0 THEN 0 ELSE F[i - 1] + f[i]
  BY UpToDef
<1>2. \A i \in 0..m : G[i] = IF i = 0 THEN 0 ELSE G[i - 1] + h[i]
  BY UpToDef
<1> HIDE DEF F, G
<1>3. 0 \in S
  BY <1>1, <1>2
<1>4. ASSUME NEW j \in Nat, j \in S
      PROVE  j + 1 \in S
  <2> SUFFICES ASSUME j + 1 <= k PROVE F[j + 1] = G[j + 1]
    OBVIOUS
  <2>1. F[j] = G[j]
    BY <1>4
  <2>2. F[j + 1] = F[j] + f[j + 1]
    BY <1>1
  <2>3. G[j + 1] = G[j] + h[j + 1]
    BY <1>2
  <2>4. QED
    BY <2>1, <2>2, <2>3
<1>5. Nat \subseteq S
  <2> HIDE DEF S
  <2>1. QED
    BY <1>3, <1>4, SetInduction
<1>6. QED
  BY <1>5 DEF F, G

-----------------------------------------------------------------------------
(* Sum *)

\* The empty sum.
LEMMA SumZero ==
  ASSUME NEW f
  PROVE  Sum(0, f) = 0
BY SumIsUpTo, UpToDef

\* One more term.
LEMMA SumStep ==
  ASSUME NEW f, NEW n \in Nat
  PROVE  Sum(n + 1, f) = Sum(n, f) + f[n + 1]
<1>1. UpTo(n + 1, f)[n + 1] = UpTo(n + 1, f)[n] + f[n + 1]
  <2> DEFINE F == UpTo(n + 1, f)
  <2>1. \A i \in 0..n+1 : F[i] = IF i = 0 THEN 0 ELSE F[i - 1] + f[i]
    BY UpToDef
  <2> HIDE DEF F
  <2>2. F[n+1] = F[n] + f[n+1]
    BY <2>1
  <2>3. QED
    BY <2>2 DEF F
<1>2. UpTo(n + 1, f)[n] = UpTo(n, f)[n]
  BY UpToAgree
<1>3. Sum(n + 1, f) = UpTo(n + 1, f)[n + 1] /\ Sum(n, f) = UpTo(n, f)[n]
  BY SumIsUpTo
<1>4. QED
  BY <1>1, <1>2, <1>3

\* Only the first n terms count.
LEMMA SumAgree ==
  ASSUME NEW f, NEW g, NEW n \in Nat, \A i \in 1..n : f[i] = g[i]
  PROVE  Sum(n, f) = Sum(n, g)
BY SumIsUpTo, UpToAgree

\* A sum of integers is an integer.
LEMMA SumInt ==
  ASSUME NEW f, NEW n \in Nat, \A i \in 1..n : f[i] \in Int
  PROVE  Sum(n, f) \in Int
<1> DEFINE S == {j \in Nat : j <= n => Sum(j, f) \in Int}
<1>1. 0 \in S
  BY SumZero
<1>2. ASSUME NEW j \in Nat, j \in S
      PROVE  j + 1 \in S
  BY <1>2, SumStep
<1>3. Nat \subseteq S
  <2> HIDE DEF S
  <2>1. QED
    BY <1>1, <1>2, SetInduction
<1>4. QED
  BY <1>3

\* A sum of natural numbers is a natural number.
LEMMA SumNat ==
  ASSUME NEW f, NEW n \in Nat, \A i \in 1..n : f[i] \in Nat
  PROVE  Sum(n, f) \in Nat
<1> DEFINE S == {j \in Nat : j <= n => Sum(j, f) \in Nat}
<1>1. 0 \in S
  BY SumZero
<1>2. ASSUME NEW j \in Nat, j \in S
      PROVE  j + 1 \in S
  BY <1>2, SumStep
<1>3. Nat \subseteq S
  <2> HIDE DEF S
  <2>1. QED
    BY <1>1, <1>2, SetInduction
<1>4. QED
  BY <1>3

\* Sums are monotone in their terms.
LEMMA SumMonotone ==
  ASSUME NEW f, NEW g, NEW n \in Nat,
         \A i \in 1..n : f[i] \in Int /\ g[i] \in Int /\ f[i] <= g[i]
  PROVE  Sum(n, f) <= Sum(n, g)
<1> DEFINE S == {j \in Nat : j <= n =>
                   Sum(j, f) \in Int /\ Sum(j, g) \in Int /\ Sum(j, f) <= Sum(j, g)}
<1>1. 0 \in S
  BY SumZero
<1>2. ASSUME NEW j \in Nat, j \in S
      PROVE  j + 1 \in S
  <2> SUFFICES ASSUME j + 1 <= n
               PROVE  /\ Sum(j + 1, f) \in Int /\ Sum(j + 1, g) \in Int
                      /\ Sum(j + 1, f) <= Sum(j + 1, g)
    OBVIOUS
  <2>1. Sum(j, f) \in Int /\ Sum(j, g) \in Int /\ Sum(j, f) <= Sum(j, g)
    BY <1>2
  <2>2. f[j + 1] \in Int /\ g[j + 1] \in Int /\ f[j + 1] <= g[j + 1]
    OBVIOUS
  <2>3. Sum(j + 1, f) = Sum(j, f) + f[j + 1] /\ Sum(j + 1, g) = Sum(j, g) + g[j + 1]
    BY SumStep
  <2>4. QED
    BY <2>1, <2>2, <2>3
<1>3. Nat \subseteq S
  <2> HIDE DEF S
  <2>1. QED
    BY <1>1, <1>2, SetInduction
<1>4. QED
  BY <1>3

\* The sum of two functions.
LEMMA SumPlus ==
  ASSUME NEW f, NEW g, NEW h, NEW n \in Nat,
         \A i \in 1..n : f[i] \in Int /\ g[i] \in Int /\ h[i] = f[i] + g[i]
  PROVE  Sum(n, h) = Sum(n, f) + Sum(n, g)
<1> DEFINE S == {j \in Nat : j <= n =>
                   /\ Sum(j, f) \in Int /\ Sum(j, g) \in Int
                   /\ Sum(j, h) = Sum(j, f) + Sum(j, g)}
<1>1. 0 \in S
  BY SumZero
<1>2. ASSUME NEW j \in Nat, j \in S
      PROVE  j + 1 \in S
  <2> SUFFICES ASSUME j + 1 <= n
               PROVE  /\ Sum(j + 1, f) \in Int /\ Sum(j + 1, g) \in Int
                      /\ Sum(j + 1, h) = Sum(j + 1, f) + Sum(j + 1, g)
    OBVIOUS
  <2>1. Sum(j, f) \in Int /\ Sum(j, g) \in Int /\ Sum(j, h) = Sum(j, f) + Sum(j, g)
    BY <1>2
  <2>2. f[j + 1] \in Int /\ g[j + 1] \in Int /\ h[j + 1] = f[j + 1] + g[j + 1]
    OBVIOUS
  <2>3. /\ Sum(j + 1, f) = Sum(j, f) + f[j + 1]
        /\ Sum(j + 1, g) = Sum(j, g) + g[j + 1]
        /\ Sum(j + 1, h) = Sum(j, h) + h[j + 1]
    BY SumStep
  <2>4. QED
    BY <2>1, <2>2, <2>3
<1>3. Nat \subseteq S
  <2> HIDE DEF S
  <2>1. QED
    BY <1>1, <1>2, SetInduction
<1>4. QED
  BY <1>3

\* Changing one term changes the sum by the difference.
LEMMA SumUpdate ==
  ASSUME NEW f, NEW g, NEW n \in Nat, NEW k \in 1..n,
         \A i \in 1..n : f[i] \in Int /\ g[i] \in Int /\ (i # k => g[i] = f[i])
  PROVE  Sum(n, g) = Sum(n, f) - f[k] + g[k]
<1> DEFINE S == {j \in Nat : j <= n =>
                   /\ Sum(j, f) \in Int /\ Sum(j, g) \in Int
                   /\ Sum(j, g) = IF j < k THEN Sum(j, f) ELSE Sum(j, f) - f[k] + g[k]}
<1>1. 0 \in S
  BY SumZero
<1>2. ASSUME NEW j \in Nat, j \in S
      PROVE  j + 1 \in S
  <2> SUFFICES ASSUME j + 1 <= n
               PROVE  /\ Sum(j + 1, f) \in Int /\ Sum(j + 1, g) \in Int
                      /\ Sum(j + 1, g) = IF j + 1 < k THEN Sum(j + 1, f)
                                         ELSE Sum(j + 1, f) - f[k] + g[k]
    OBVIOUS
  <2>1. /\ Sum(j, f) \in Int /\ Sum(j, g) \in Int
        /\ Sum(j, g) = IF j < k THEN Sum(j, f) ELSE Sum(j, f) - f[k] + g[k]
    BY <1>2
  <2>2. /\ f[j + 1] \in Int /\ g[j + 1] \in Int
        /\ j + 1 # k => g[j + 1] = f[j + 1]
        /\ f[k] \in Int /\ g[k] \in Int
    OBVIOUS
  <2>3. /\ Sum(j + 1, f) = Sum(j, f) + f[j + 1]
        /\ Sum(j + 1, g) = Sum(j, g) + g[j + 1]
    BY SumStep
  <2>4. QED
    BY <2>1, <2>2, <2>3
<1>3. Nat \subseteq S
  <2> HIDE DEF S
  <2>1. QED
    BY <1>1, <1>2, SetInduction
<1>4. QED
  BY <1>3
=============================================================================
