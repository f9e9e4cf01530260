------------------------- MODULE ProcessesProofs -------------------------
(***************************************************************************)
(* Proofs about the parts of the platform that run MCProcesses composes:   *)
(* the payment scan (PaymentScan), the purchase panel (HedgePanel), the    *)
(* data shop (DataShop) and the checkout page that is its client           *)
(* (CheckoutPage).  Each has an inductive invariant of its own, named at   *)
(* the head of its section.                                                *)
(***************************************************************************)
EXTENDS PaymentScan, CheckoutPage, HedgePanel, PrefixSumsProofs, FiniteSetTheorems

-----------------------------------------------------------------------------
(* I. The payment scan *)

\* Every finite set of indices can be listed in increasing order.
LEMMA EnumerationExists ==
  ASSUME NEW n \in Nat, NEW S \in SUBSET (1..n)
  PROVE  \E f \in [1..Cardinality(S) -> S] :
           \A i, j \in 1..Cardinality(S) : i < j => f[i] < f[j]
<1> DEFINE Listed(m) == \A T \in SUBSET (1..m) :
                          \E f \in [1..Cardinality(T) -> T] :
                            \A i, j \in 1..Cardinality(T) : i < j => f[i] < f[j]
           A == {m \in Nat : Listed(m)}
<1>1. 0 \in A
  <2> SUFFICES ASSUME NEW T \in SUBSET (1..0)
               PROVE  \E f \in [1..Cardinality(T) -> T] :
                        \A i, j \in 1..Cardinality(T) : i < j => f[i] < f[j]
    OBVIOUS
  <2>1. 1..0 = {}
    OBVIOUS
  <2>2. T = {} /\ Cardinality(T) = 0
    BY <2>1, FS_EmptySet, Zenon
  <2>3. [i \in 1..0 |-> i] \in [1..0 -> {}]
    BY <2>1
  <2>4. QED
    BY <2>2, <2>1, <2>3
<1>2. ASSUME NEW m \in Nat, m \in A
      PROVE  m + 1 \in A
  <2> HIDE DEF Listed
  <2> SUFFICES Listed(m + 1)
    OBVIOUS
  <2>0. Listed(m)
    BY <1>2
  <2> USE DEF Listed
  <2> TAKE T \in SUBSET (1..m+1)
  <2>1. CASE m + 1 \notin T
    <3>1. T \in SUBSET (1..m)
      BY <2>1
    <3>2. QED
      BY <2>0, <3>1, Zenon
  <2>2. CASE m + 1 \in T
    <3> DEFINE U == T \ {m + 1}
               c == Cardinality(U)
    <3>1. IsFiniteSet(1..m) /\ U \in SUBSET (1..m)
      BY FS_Interval
    <3>2. IsFiniteSet(U) /\ c \in Nat
      <4>1. IsFiniteSet(U)
        BY <3>1, FS_Subset
      <4>2. QED
        BY <4>1, FS_CardinalityType
    <3>3. Cardinality(T) = c + 1
      <4>1. T = U \cup {m + 1} /\ m + 1 \notin U
        BY <2>2
      <4>2. QED
        BY <3>2, <4>1, FS_AddElement, Zenon
    <3>4. PICK g \in [1..c -> U] : \A i, j \in 1..c : i < j => g[i] < g[j]
      BY <2>0, <3>1
    <3> HIDE DEF c
    <3> DEFINE f == [i \in 1..c+1 |-> IF i = c + 1 THEN m + 1 ELSE g[i]]
    <3>5. f \in [1..c+1 -> T]
      BY <2>2, <3>2, <3>4
    <3>6. ASSUME NEW i \in 1..c+1, NEW j \in 1..c+1, i < j
          PROVE  f[i] < f[j]
      <4>1. i \in 1..c /\ f[i] = g[i] /\ g[i] \in U
        BY <3>2, <3>4, <3>6
      <4>2. CASE j = c + 1
        <5>1. f[j] = m + 1 /\ f[i] \in 1..m
          BY <3>1, <4>1, <4>2
        <5>2. QED
          BY <5>1
      <4>3. CASE j \in 1..c
        BY <3>2, <3>4, <3>6, <4>1, <4>3
      <4>4. QED
        BY <3>2, <4>2, <4>3
    <3>7. QED
      BY <3>3, <3>5, <3>6
  <2>3. QED
    BY <2>1, <2>2
<1>3. Nat \subseteq A
  <2> HIDE DEF A
  <2>1. QED
    BY <1>1, <1>2, SetInduction
<1>4. QED
  BY <1>3

\* OldestFirst lists every element of the set, once and in increasing order.
LEMMA OldestFirstLists ==
  ASSUME NEW n \in Nat, NEW S \in SUBSET (1..n)
  PROVE  /\ OldestFirst(S) \in Seq(S)
         /\ \A i, j \in DOMAIN OldestFirst(S) : i < j => OldestFirst(S)[i] < OldestFirst(S)[j]
         /\ \A s \in S : \E i \in DOMAIN OldestFirst(S) : OldestFirst(S)[i] = s
<1> DEFINE c == Cardinality(S)
           f == OldestFirst(S)
<1>0. S \subseteq Nat
  OBVIOUS
<1>1. IsFiniteSet(S) /\ c \in Nat
  <2>1. IsFiniteSet(1..n)
    BY FS_Interval
  <2>2. IsFiniteSet(S)
    BY <2>1, FS_Subset
  <2>3. QED
    BY <2>2, FS_CardinalityType
<1>2. f \in [1..c -> S] /\ \A i, j \in 1..c : i < j => f[i] < f[j]
  BY EnumerationExists DEF OldestFirst
<1> HIDE DEF c, f
<1>3. Cardinality(1..c) = c
  BY <1>1, FS_Interval
<1>4. f \in Injection(1..c, S)
  <2>1. \A i, j \in 1..c : f[i] = f[j] => i = j
    <3> SUFFICES ASSUME NEW i \in 1..c, NEW j \in 1..c, f[i] = f[j], i # j PROVE FALSE
      OBVIOUS
    <3>1. f[i] \in Nat /\ f[j] \in Nat
      <4>1. f[i] \in S /\ f[j] \in S
        BY <1>2
      <4>2. QED
        BY <1>0, <4>1, Zenon
    <3>2. i < j \/ j < i
      BY <1>1
    <3>3. f[i] < f[j] \/ f[j] < f[i]
      BY <1>2, <3>2
    <3>4. QED
      BY <3>1, <3>3
  <2>2. QED
    BY <1>2, <2>1 DEF Injection, IsInjective
<1>5. f \in Surjection(1..c, S)
  BY <1>1, <1>3, <1>4, FS_Injection, Zenon DEF c
<1>6. \A s \in S : \E i \in 1..c : f[i] = s
  BY <1>5 DEF Surjection
<1>7. f \in Seq(S) /\ DOMAIN f = 1..c
  BY <1>1, <1>2
<1>8. QED
  BY <1>2, <1>6, <1>7 DEF f

-----------------------------------------------------------------------------
(* The payment scan *)

\* Up to some place of the chain the ledger has every payment, beyond it none;
\* cursor and last scan are no further, and the rest fits the next window.
ScannedUpTo(h) ==
  /\ Credited = {i \in 1..h : IsPayment(history[i])}
  /\ cursor <= h /\ Len(history) - since <= h
  /\ Len(history) - h <= MaxBurst

ScanTypes == ScanTypeOK /\ credited \in Seq(Nat)

ScanInv == ChainOrder /\ \E h \in 0..Len(history) : ScannedUpTo(h)

LEMMA ScanTypesInit == ScanInit => ScanTypes
BY ScanAssumption DEF ScanInit, ScanTypes, ScanTypeOK

\* What a scan may find lies in the history.
LEMMA ScanFinds ==
  ASSUME ScanTypes, NEW tip \in Tips, NEW missing
  PROVE  /\ tip \in 0..Len(history) /\ Len(history) \in Nat
         /\ Window(tip) \subseteq 1..Len(history)
         /\ IsFiniteSet(Window(tip))
<1>1. Len(history) \in Nat /\ cursor \in Nat
  BY DEF ScanTypes, ScanTypeOK
<1>2. tip \in 0..Len(history)
  BY <1>1 DEF Tips
<1>3. Window(tip) \subseteq 1..Len(history)
  BY <1>1, <1>2, ScanAssumption DEF Window, MaxOf
<1>4. IsFiniteSet(1..Len(history))
  BY <1>1, FS_Interval
<1>5. QED
  BY <1>1, <1>2, <1>3, <1>4, FS_Subset

LEMMA ScanTypesNext == ScanTypes /\ [ScanNext]_scanVars => ScanTypes'
<1> SUFFICES ASSUME ScanTypes, [ScanNext]_scanVars PROVE ScanTypes'
  OBVIOUS
<1>1. ASSUME NEW tip \in Tips, NEW missing \in SUBSET Window(tip), Scan(tip, missing)
      PROVE  ScanTypes'
  <2> DEFINE found == {i \in Window(tip) \ missing : IsPayment(history[i])}
             L == OldestFirst(found \ Credited)
  <2>1. /\ tip \in 0..Len(history) /\ Len(history) \in Nat
        /\ Window(tip) \subseteq 1..Len(history) /\ IsFiniteSet(Window(tip))
    BY ScanFinds
  <2>2. found \ Credited \in SUBSET (1..Len(history))
    BY <2>1
  <2>3. /\ L \in Seq(found \ Credited)
        /\ \A i, j \in DOMAIN L : i < j => L[i] < L[j]
    BY <2>1, <2>2, OldestFirstLists
  <2>4. Cardinality(missing) \in Nat
    <3>1. IsFiniteSet(missing)
      BY <2>1, FS_Subset
    <3>2. QED
      BY <3>1, FS_CardinalityType
  <2>5. /\ credited' = credited \o L /\ history' = history /\ cursor' = tip
        /\ since' = Len(history) - tip /\ reboots' = reboots
    BY <1>1 DEF Scan
  <2>6. pruned' \in 0..MaxPruned
    <3>1. pruned' = pruned + Cardinality(missing) /\ Cardinality(missing) <= MaxPruned - pruned
      BY <1>1 DEF Scan
    <3>2. pruned \in 0..MaxPruned
      BY DEF ScanTypes, ScanTypeOK
    <3>3. QED
      BY <2>4, <3>1, <3>2, ScanAssumption
  <2> DEFINE S == found \ Credited
  <2>7. \A i \in DOMAIN L : L[i] \in 1..Len(history) /\ L[i] \notin Credited
    <3>1. \A i \in DOMAIN L : L[i] \in S
      BY <2>3
    <3> HIDE DEF L
    <3>2. QED
      BY <2>2, <3>1
  <2>8. \A i, j \in DOMAIN L : L[i] = L[j] => i = j
    <3> HIDE DEF L
    <3>1. L \in Seq(Nat)
      BY <2>2, <2>3
    <3>2. QED
      BY <2>3, <2>7, <3>1
  <2>9. L \in Seq(Nat)
    BY <2>2, <2>3
  <2> HIDE DEF L
  <2>10. /\ credited \in Seq(Nat)
         /\ \A i \in DOMAIN credited : credited[i] \in DOMAIN history
         /\ \A i, j \in DOMAIN credited : credited[i] = credited[j] => i = j
    BY DEF ScanTypes, ScanTypeOK
  <2>11. \A i \in DOMAIN credited' :
           \/ i \in DOMAIN credited /\ credited'[i] = credited[i]
           \/ /\ i - Len(credited) \in DOMAIN L /\ i \notin DOMAIN credited
              /\ credited'[i] = L[i - Len(credited)]
    BY <2>5, <2>9, <2>10
  <2>12. history \in Seq(Txs) /\ DOMAIN history = 1..Len(history)
    BY DEF ScanTypes, ScanTypeOK
  <2>13. \A i \in DOMAIN credited' : credited'[i] \in DOMAIN history
    BY <2>7, <2>10, <2>11, <2>12
  <2>14. \A i, j \in DOMAIN credited' : credited'[i] = credited'[j] => i = j
    <3> SUFFICES ASSUME NEW i \in DOMAIN credited', NEW j \in DOMAIN credited',
                        credited'[i] = credited'[j]
                 PROVE  i = j
      OBVIOUS
    <3>0. i \in Nat /\ j \in Nat /\ Len(credited) \in Nat
      BY <2>5, <2>9, <2>10
    <3>1. \A k \in DOMAIN credited : credited[k] \in Credited
      BY DEF Credited
    <3>2. CASE i \in DOMAIN credited /\ j \in DOMAIN credited
      BY <2>10, <2>11, <3>2
    <3>3. CASE i \in DOMAIN credited /\ j \notin DOMAIN credited
      BY <2>7, <2>11, <3>1, <3>3
    <3>4. CASE i \notin DOMAIN credited /\ j \in DOMAIN credited
      BY <2>7, <2>11, <3>1, <3>4
    <3>5. CASE i \notin DOMAIN credited /\ j \notin DOMAIN credited
      <4>1. L[i - Len(credited)] = L[j - Len(credited)]
            /\ i - Len(credited) \in DOMAIN L /\ j - Len(credited) \in DOMAIN L
        BY <2>11, <3>5
      <4>2. i - Len(credited) = j - Len(credited)
        BY <2>8, <4>1
      <4>3. QED
        BY <3>0, <4>2
    <3>6. QED
      BY <3>2, <3>3, <3>4, <3>5
  <2>15. credited' \in Seq(Nat)
    BY <2>5, <2>9, <2>10
  <2>16. since' \in 0..Len(history') /\ cursor' \in 0..Len(history')
    BY <2>1, <2>5
  <2>17. reboots \in 0..MaxReboots
    BY DEF ScanTypes, ScanTypeOK
  <2>18. QED
    BY <2>5, <2>6, <2>12, <2>13, <2>14, <2>15, <2>16, <2>17 DEF ScanTypes, ScanTypeOK
<1>2. ASSUME NEW tx \in Txs, Finalize(tx)
      PROVE  ScanTypes'
  BY <1>2 DEF Finalize, ScanTypes, ScanTypeOK
<1>3. CASE RestartScanner
  BY <1>3, ScanAssumption DEF RestartScanner, ScanTypes, ScanTypeOK
<1>4. CASE UNCHANGED scanVars
  BY <1>4 DEF scanVars, ScanTypes, ScanTypeOK
<1>5. QED
  BY <1>1, <1>2, <1>3, <1>4 DEF ScanNext, ScanAny

LEMMA ScanInvInit == ScanInit => ScanInv
<1> SUFFICES ASSUME ScanInit PROVE ScanInv
  OBVIOUS
<1>1. Len(history) = 0 /\ since = 0 /\ cursor = 0 /\ credited = <<>>
  BY DEF ScanInit
<1>2. Credited = {} /\ 1..0 = {}
  BY <1>1 DEF Credited
<1>3. ScannedUpTo(0)
  BY <1>1, <1>2, ScanAssumption DEF ScannedUpTo
<1>4. QED
  BY <1>1, <1>3 DEF ScanInv, ChainOrder

\* A scan as far as h or less finds nothing new; one that goes further lists
\* what lies between, and nothing of it is hidden by the window's length.
LEMMA ScanInvScan ==
  ASSUME MaxPruned = 0, MaxBurst <= Limit, ScanTypes, ScanInv,
         NEW tip \in Tips, NEW missing \in SUBSET Window(tip), Scan(tip, missing)
  PROVE  ScanInv'
<1> DEFINE n == Len(history)
           found == {i \in Window(tip) : IsPayment(history[i])}
           L == OldestFirst(found \ Credited)
<1>1. /\ tip \in 0..n /\ n \in Nat
      /\ Window(tip) \subseteq 1..n /\ IsFiniteSet(Window(tip))
  BY ScanFinds
<1>2. missing = {}
  <2>1. IsFiniteSet(missing)
    BY <1>1, FS_Subset
  <2>2. Cardinality(missing) \in Nat
    BY <2>1, FS_CardinalityType
  <2>3. Cardinality(missing) <= 0 - pruned /\ pruned \in 0..0
    BY DEF Scan, ScanTypes, ScanTypeOK
  <2>4. Cardinality(missing) = 0
    BY <2>2, <2>3
  <2>5. QED
    BY <2>1, <2>4, FS_EmptySet
<1>3. /\ credited' = credited \o L /\ history' = history /\ cursor' = tip
      /\ since' = n - tip
  BY <1>2 DEF Scan
<1>4. found \ Credited \in SUBSET (1..n)
  BY <1>1
<1>5. /\ L \in Seq(found \ Credited)
      /\ \A i, j \in DOMAIN L : i < j => L[i] < L[j]
      /\ \A s \in found \ Credited : \E i \in DOMAIN L : L[i] = s
  BY <1>1, <1>4, OldestFirstLists
<1>6. PICK h \in 0..n : ScannedUpTo(h)
  BY DEF ScanInv
<1>7. credited \in Seq(Nat) /\ ChainOrder
  BY DEF ScanTypes, ScanInv
<1> HIDE DEF L
<1>8. L \in Seq(Nat) /\ \A i \in DOMAIN L : L[i] \in found \ Credited
  BY <1>4, <1>5
<1>9. Credited' = Credited \cup (found \ Credited)
  <2>1. Credited' = {credited'[i] : i \in DOMAIN credited'}
    BY DEF Credited
  <2>2. \A i \in DOMAIN credited' :
          \/ i \in DOMAIN credited /\ credited'[i] = credited[i]
          \/ /\ i - Len(credited) \in DOMAIN L
             /\ credited'[i] = L[i - Len(credited)]
    BY <1>3, <1>7, <1>8
  <2>3. \A i \in DOMAIN credited : i \in DOMAIN credited' /\ credited'[i] = credited[i]
    BY <1>3, <1>7, <1>8
  <2>4. \A i \in DOMAIN L : /\ i + Len(credited) \in DOMAIN credited'
                            /\ credited'[i + Len(credited)] = L[i]
    BY <1>3, <1>7, <1>8
  <2>5. Credited' \subseteq Credited \cup (found \ Credited)
    BY <1>8, <2>1, <2>2 DEF Credited
  <2>6. Credited \subseteq Credited'
    BY <2>1, <2>3 DEF Credited
  <2>7. found \ Credited \subseteq Credited'
    BY <1>5, <2>1, <2>4
  <2>8. QED
    BY <2>5, <2>6, <2>7
<1>10. Credited = {i \in 1..h : IsPayment(history[i])} /\ cursor <= h /\ n - since <= h
       /\ n - h <= MaxBurst
  BY <1>6 DEF ScannedUpTo
<1>11. cursor \in Nat /\ since \in Nat
  BY DEF ScanTypes, ScanTypeOK
<1>12. CASE tip <= h
  <2>1. \A i \in Window(tip) : i \in 1..h
    BY <1>1, <1>11, <1>12, ScanAssumption DEF Window, MaxOf
  <2>2. found \ Credited = {}
    BY <1>10, <2>1
  <2>3. L = <<>>
    BY <1>8, <2>2
  <2>4. credited' = credited
    BY <1>3, <1>7, <2>3
  <2>5. Credited' = Credited
    BY <1>9, <2>2
  <2>6. n - since' = tip
    BY <1>1, <1>3
  <2>7. ScannedUpTo(h)'
    BY <1>3, <1>10, <1>12, <2>5, <2>6 DEF ScannedUpTo
  <2>8. ChainOrder'
    BY <1>7, <2>4 DEF ChainOrder
  <2>9. QED
    BY <1>3, <1>6, <2>7, <2>8 DEF ScanInv
<1>13. CASE h < tip
  <2>1. \A i \in h+1..tip : i \in Window(tip)
    BY <1>1, <1>6, <1>10, <1>11, <1>13, ScanAssumption DEF Window, MaxOf
  <2>2. \A i \in Window(tip) : i \in 1..tip
    BY <1>1, <1>11, ScanAssumption DEF Window, MaxOf
  <2>3. \A i \in found \ Credited : i \in h+1..tip
    BY <1>1, <1>6, <1>10, <2>2
  <2>4. Credited' = {i \in 1..tip : IsPayment(history[i])}
    <3>1. \A i \in 1..tip : i \in 1..h \/ i \in h+1..tip
      BY <1>1, <1>6
    <3>2. \A i \in 1..h : i \in 1..tip
      BY <1>1, <1>6, <1>13
    <3>3. QED
      BY <1>9, <1>10, <2>1, <2>2, <3>1, <3>2
  <2>5. n - since' = tip /\ n - tip <= MaxBurst
    BY <1>1, <1>3, <1>6, <1>10, <1>13, ScanAssumption
  <2>6. ScannedUpTo(tip)'
    BY <1>1, <1>3, <2>4, <2>5 DEF ScannedUpTo
  <2>7. ChainOrder'
    <3> SUFFICES ASSUME NEW i \in DOMAIN credited', NEW j \in DOMAIN credited', i < j
                 PROVE  credited'[i] < credited'[j]
      BY DEF ChainOrder
    <3>1. \A k \in DOMAIN credited : credited[k] \in 1..h
      BY <1>10 DEF Credited
    <3>2. \A k \in DOMAIN L : L[k] \in h+1..tip
      BY <1>8, <2>3
    <3>3. i \in Nat /\ j \in Nat /\ Len(credited) \in Nat
      BY <1>3, <1>7, <1>8
    <3>4. CASE j \in DOMAIN credited
      <4>1. i \in DOMAIN credited /\ credited'[i] = credited[i] /\ credited'[j] = credited[j]
        BY <1>3, <1>7, <1>8, <3>3, <3>4
      <4>2. QED
        BY <1>7, <3>4, <4>1 DEF ChainOrder
    <3>5. CASE i \in DOMAIN credited /\ j \notin DOMAIN credited
      <4>1. credited'[i] = credited[i] /\ credited'[j] = L[j - Len(credited)]
            /\ j - Len(credited) \in DOMAIN L
        BY <1>3, <1>7, <1>8, <3>3, <3>5
      <4>2. credited'[i] \in 1..h /\ credited'[j] \in h+1..tip
        BY <3>1, <3>2, <3>5, <4>1
      <4>3. QED
        BY <1>1, <1>6, <4>2
    <3>6. CASE i \notin DOMAIN credited
      <4> DEFINE a == i - Len(credited)
                 b == j - Len(credited)
      <4>1. credited'[i] = L[a] /\ credited'[j] = L[b] /\ a \in DOMAIN L /\ b \in DOMAIN L
            /\ a < b
        BY <1>3, <1>7, <1>8, <3>3, <3>6
      <4>2. QED
        BY <1>5, <4>1
    <3>7. QED
      BY <3>4, <3>5, <3>6
  <2>8. QED
    BY <1>1, <1>3, <2>6, <2>7 DEF ScanInv
<1>14. QED
  BY <1>1, <1>6, <1>12, <1>13

LEMMA ScanInvNext ==
  ASSUME MaxPruned = 0, MaxBurst <= Limit
  PROVE  ScanTypes /\ ScanInv /\ [ScanNext]_scanVars => ScanInv'
<1> SUFFICES ASSUME ScanTypes, ScanInv, [ScanNext]_scanVars PROVE ScanInv'
  OBVIOUS
<1>1. PICK h \in 0..Len(history) : ScannedUpTo(h)
  BY DEF ScanInv
<1>2. /\ Credited = {i \in 1..h : IsPayment(history[i])}
      /\ cursor <= h /\ Len(history) - since <= h /\ Len(history) - h <= MaxBurst
  BY <1>1 DEF ScannedUpTo
<1>3. history \in Seq(Txs) /\ since \in Nat /\ cursor \in Nat /\ Len(history) \in Nat
  BY DEF ScanTypes, ScanTypeOK
<1>4. ASSUME NEW tip \in Tips, NEW missing \in SUBSET Window(tip), Scan(tip, missing)
      PROVE  ScanInv'
  BY <1>4, ScanInvScan
<1>5. ASSUME NEW tx \in Txs, Finalize(tx)
      PROVE  ScanInv'
  <2>1. history' = Append(history, tx) /\ since' = since + 1 /\ since < MaxBurst
        /\ cursor' = cursor /\ credited' = credited
    BY <1>5 DEF Finalize
  <2>2. Len(history') = Len(history) + 1 /\ \A i \in 1..h : history'[i] = history[i]
    BY <1>1, <1>3, <2>1
  <2>3. Credited' = Credited
    BY <2>1 DEF Credited
  <2>4. {i \in 1..h : IsPayment(history'[i])} = {i \in 1..h : IsPayment(history[i])}
    BY <2>2
  <2>5. ScannedUpTo(h)'
    BY <1>1, <1>2, <1>3, <2>1, <2>2, <2>3, <2>4, ScanAssumption DEF ScannedUpTo
  <2>6. h \in 0..Len(history')
    BY <1>3, <2>2
  <2>7. ChainOrder'
    BY <2>1 DEF ScanInv, ChainOrder
  <2>8. QED
    BY <2>5, <2>6, <2>7 DEF ScanInv
<1>6. CASE RestartScanner
  <2>1. cursor' = 0 /\ history' = history /\ since' = since /\ credited' = credited
    BY <1>6 DEF RestartScanner
  <2>2. Credited' = Credited
    BY <2>1 DEF Credited
  <2>3. ScannedUpTo(h)'
    BY <1>1, <1>2, <1>3, <2>1, <2>2 DEF ScannedUpTo
  <2>4. QED
    BY <1>1, <2>1, <2>3 DEF ScanInv, ChainOrder
<1>7. CASE UNCHANGED scanVars
  <2>1. cursor' = cursor /\ history' = history /\ since' = since /\ credited' = credited
    BY <1>7 DEF scanVars
  <2>2. Credited' = Credited
    BY <2>1 DEF Credited
  <2>3. ScannedUpTo(h)'
    BY <1>2, <2>1, <2>2 DEF ScannedUpTo
  <2>4. QED
    BY <1>1, <2>1, <2>3 DEF ScanInv, ChainOrder
<1>8. QED
  BY <1>4, <1>5, <1>6, <1>7 DEF ScanNext, ScanAny

\* No scan credits a transfer that an earlier one has credited, whatever the
\* window, the node that answers and the cursor: the ledger's own check on the
\* signature (payment-watcher.ts hands it everything the window holds).
THEOREM ScanCreditsOnce == ScanSpec => []ScanTypeOK
<1>1. ScanTypes => ScanTypeOK
  BY DEF ScanTypes
<1>2. QED
  BY <1>1, ScanTypesInit, ScanTypesNext, PTL DEF ScanSpec

\* With a node that has every transaction it lists, and no more signatures
\* between two scans than one window holds, the ledger sees payments in chain
\* order, through nodes that lag and scanners that forget their cursor.
THEOREM ScanInOrder ==
  ASSUME MaxPruned = 0, MaxBurst <= Limit
  PROVE  ScanSpec => []ChainOrder
<1>1. ScanInv => ChainOrder
  BY DEF ScanInv
<1>2. QED
  BY <1>1, ScanTypesInit, ScanTypesNext, ScanInvInit, ScanInvNext, PTL DEF ScanSpec

-----------------------------------------------------------------------------
(* II. The purchase panel *)

PanelTypes ==
  /\ PanelTypeOK
  /\ minted \in 0..MaxChallenges
  /\ nonces \cup posts \cup checked \subseteq 1..minted
  /\ answers \subseteq [nonce : Nat, quote : 0..Len(quotes)]
  /\ panel.quote <= Len(quotes) /\ \A k \in Looks : looks[k].quote <= Len(quotes)
  /\ panel.task \in {"sign", "post"} => panel.nonce \in 1..minted

\* A nonce is outstanding, or in the hands of a request that is being priced, or
\* the proof of one quote, or none of it any more.
ProofsAreSpent ==
  /\ checked \subseteq posts
  /\ checked \cap nonces = {}
  /\ \A q \in DOMAIN quotes : quotes[q].proof \in posts \ (nonces \cup checked)
  /\ \A q, r \in DOMAIN quotes : q # r => quotes[q].proof # quotes[r].proof

\* What is on display belongs together, also with the answers under way.
DisplayAgrees ==
  /\ panel.phase = "loading" <=> panel.task # "none"
  /\ panel.cert # 0 <=> panel.phase \in {"active", "done"}
  /\ panel.cert # 0 => panel.cert = panel.quote /\ quotes[panel.cert].cert # "none"
  /\ panel.look # NoLook =>
       panel.phase \in {"payment", "active"} /\ looks[panel.look].quote = panel.quote
  /\ \A k \in Looks : looks[k].served =>
       /\ looks[k].quote # 0
       /\ looks[k].cert # "none" => quotes[looks[k].quote].cert # "none"

PanelInv == PanelTypes /\ ProofsAreSpent /\ DisplayAgrees

\* A set of numbers with an upper bound has a greatest element.
LEMMA GreatestElement ==
  ASSUME NEW n \in Nat, NEW S, S \subseteq 1..n, S # {}
  PROVE  \E m \in S : \A k \in S : k <= m
<1> DEFINE B == {b \in Nat : \A k \in S : k <= b}
<1>1. B \subseteq Nat /\ n \in B
  OBVIOUS
<1>2. PICK b \in B : \A c \in B : b <= c
  <2> HIDE DEF B
  <2>1. QED
    BY <1>1, LeastElement
<1>3. b \in Nat /\ \A k \in S : k <= b
  BY <1>2
<1>4. b \in S
  <2> SUFFICES ASSUME b \notin S PROVE FALSE
    OBVIOUS
  <2>1. \A k \in S : k <= b - 1
    BY <1>3
  <2>2. b # 0
    <3>1. PICK k \in S : TRUE
      OBVIOUS
    <3>2. k \in Nat /\ k >= 1 /\ k <= b
      BY <1>3
    <3>3. QED
      BY <1>3, <3>2
  <2>3. b - 1 \in B
    BY <1>3, <2>1, <2>2
  <2>4. QED
    BY <1>2, <1>3, <2>3
<1>5. QED
  BY <1>3, <1>4

\* The route's choice for the position is a quote of the ledger, or none.
LEMMA RelevantIsQuote ==
  ASSUME NEW qs \in Seq(Quote)
  PROVE  Relevant(qs) \in 0..Len(qs)
<1> DEFINE active == {q \in DOMAIN qs : qs[q].cert = "active"}
           open   == {q \in DOMAIN qs : qs[q].status = "open"}
<1>1. ASSUME NEW S \in SUBSET (1..Len(qs)), S # {}
      PROVE  Latest(S) \in 1..Len(qs)
  <2>1. \E q \in S : \A r \in S : r <= q
    <3>1. Len(qs) \in Nat /\ S \subseteq 1..Len(qs)
      OBVIOUS
    <3>2. QED
      BY <1>1, <3>1, GreatestElement, Zenon
  <2>2. Latest(S) \in S
    BY <1>1, <2>1 DEF Latest
  <2>3. QED
    BY <2>2
<1>2. active \in SUBSET (1..Len(qs)) /\ open \in SUBSET (1..Len(qs))
  OBVIOUS
<1>3. Relevant(qs) = IF active # {} THEN Latest(active)
                     ELSE IF open # {} THEN Latest(open) ELSE Len(qs)
  BY DEF Relevant
<1> HIDE DEF active, open
<1>4. QED
  BY <1>1, <1>2, <1>3

\* A lapsed quote keeps everything but its status.
LEMMA LapsedKeeps ==
  ASSUME quotes \in Seq(Quote)
  PROVE  /\ Lapsed(quotes) \in Seq(Quote) /\ Len(Lapsed(quotes)) = Len(quotes)
         /\ \A q \in DOMAIN quotes : /\ Lapsed(quotes)[q].cert = quotes[q].cert
                                     /\ Lapsed(quotes)[q].proof = quotes[q].proof
<1> DEFINE qs == Lapsed(quotes)
<1>1. DOMAIN qs = 1..Len(quotes)
  BY DEF Lapsed
<1>2. \A q \in 1..Len(quotes) : qs[q] \in Quote /\ qs[q].cert = quotes[q].cert
                                /\ qs[q].proof = quotes[q].proof
  <2> SUFFICES ASSUME NEW q \in 1..Len(quotes)
               PROVE  qs[q] \in Quote /\ qs[q].cert = quotes[q].cert
                      /\ qs[q].proof = quotes[q].proof
    BY Zenon
  <2>1. quotes[q] \in Quote
    OBVIOUS
  <2>2. qs[q] = IF quotes[q].status = "open" /\ q \in past
                  THEN [quotes[q] EXCEPT !.status = "lapsed"] ELSE quotes[q]
    BY DEF Lapsed
  <2> HIDE DEF qs
  <2>3. QED
    BY <2>1, <2>2 DEF Quote
<1>3. qs = [q \in 1..Len(quotes) |-> qs[q]]
  BY DEF Lapsed
<1> HIDE DEF qs
<1>4. qs \in Seq(Quote) /\ Len(qs) = Len(quotes)
  BY <1>1, <1>2, <1>3
<1>5. QED
  BY <1>2, <1>4 DEF qs

LEMMA PanelInvInit == PanelInit => PanelInv
<1> SUFFICES ASSUME PanelInit PROVE PanelInv
  OBVIOUS
<1> USE PanelAssumption DEF PanelInit
<1>1. quotes = <<>> /\ Len(quotes) = 0 /\ DOMAIN quotes = {}
  OBVIOUS
<1>2. panel \in Panel /\ panel.task = "none" /\ panel.phase = "idle" /\ panel.quote = 0
      /\ panel.cert = 0 /\ panel.look = NoLook
  BY DEF ClosedPanel, Panel, Phases
<1>3. looks \in [Looks -> Look] /\ \A k \in Looks : looks[k].quote = 0 /\ ~looks[k].served
  BY DEF NoRequest, Look
<1>4. PanelTypes
  BY <1>1, <1>2, <1>3 DEF PanelTypes, PanelTypeOK
<1>5. ProofsAreSpent
  BY <1>1 DEF ProofsAreSpent
<1>6. DisplayAgrees
  BY <1>2, <1>3 DEF DisplayAgrees
<1>7. QED
  BY <1>4, <1>5, <1>6 DEF PanelInv

-----------------------------------------------------------------------------
(* Steps of the component alone *)

\* What a step must keep that changes only the component's state and loses
\* answers: its type, and what is on display.
LEMMA PanelAlone ==
  ASSUME PanelInv, UNCHANGED <<looks, quotes, past, nonces, stale, minted, posts, checked>>,
         answers' \subseteq answers,
         panel' \in Panel, panel'.quote <= Len(quotes),
         panel'.task \in {"sign", "post"} => panel'.nonce \in 1..minted,
         panel'.phase = "loading" <=> panel'.task # "none",
         panel'.cert # 0 <=> panel'.phase \in {"active", "done"},
         panel'.cert # 0 => panel'.cert = panel'.quote /\ quotes[panel'.cert].cert # "none",
         panel'.look # NoLook =>
           panel'.phase \in {"payment", "active"} /\ looks[panel'.look].quote = panel'.quote
  PROVE  PanelInv'
<1>1. PanelTypes'
  BY DEF PanelInv, PanelTypes, PanelTypeOK
<1>2. ProofsAreSpent'
  BY DEF PanelInv, ProofsAreSpent
<1>3. DisplayAgrees'
  BY DEF PanelInv, DisplayAgrees
<1>4. QED
  BY <1>1, <1>2, <1>3 DEF PanelInv

\* What PanelInv says of the component, to be cited when its fields change.
LEMMA PanelFields ==
  ASSUME PanelInv
  PROVE  /\ panel \in Panel /\ panel.quote <= Len(quotes)
         /\ Len(quotes) \in 0..MaxQuotes
         /\ panel.task \in {"sign", "post"} => panel.nonce \in 1..minted
         /\ panel.phase = "loading" <=> panel.task # "none"
         /\ panel.cert # 0 <=> panel.phase \in {"active", "done"}
         /\ panel.cert # 0 => panel.cert = panel.quote /\ quotes[panel.cert].cert # "none"
         /\ panel.look # NoLook =>
              panel.phase \in {"payment", "active"} /\ looks[panel.look].quote = panel.quote
BY PanelAssumption DEF PanelInv, PanelTypes, PanelTypeOK, DisplayAgrees

LEMMA InvOpenPanel == PanelInv /\ OpenPanel => PanelInv'
<1> SUFFICES ASSUME PanelInv, OpenPanel PROVE PanelInv'
  OBVIOUS
<1>1. UNCHANGED <<looks, quotes, past, nonces, stale, minted, posts, checked, answers>>
  BY DEF OpenPanel, server
<1>2. panel' = IF panel.phase \in {"idle", "error"}
                 THEN [panel EXCEPT !.open = TRUE, !.phase = "loading", !.task = "resume"]
                 ELSE [panel EXCEPT !.open = TRUE]
  BY DEF OpenPanel
<1>3. /\ panel' \in Panel /\ panel'.quote = panel.quote /\ panel'.nonce = panel.nonce
      /\ panel'.cert = panel.cert /\ panel'.look = panel.look
      /\ \/ panel'.phase = panel.phase /\ panel'.task = panel.task
         \/ /\ panel.phase \in {"idle", "error"}
            /\ panel'.phase = "loading" /\ panel'.task = "resume"
  BY <1>2, PanelFields DEF Panel, Phases
<1>4. QED
  BY <1>1, <1>3, PanelFields, PanelAlone

\* A new request starts from a component with no certificate and no poll.
LEMMA RequestingFields ==
  ASSUME PanelInv
  PROVE  /\ Requesting(panel) \in Panel
         /\ Requesting(panel).phase = "loading" /\ Requesting(panel).task = "challenge"
         /\ Requesting(panel).cert = 0 /\ Requesting(panel).look = NoLook
         /\ Requesting(panel).quote = panel.quote
<1>1. panel \in Panel /\ 0 \in 0..MaxQuotes
  BY PanelFields, PanelAssumption
<1>2. Requesting(panel) = [panel EXCEPT !.phase = "loading", !.task = "challenge", !.cert = 0,
                                        !.look = NoLook]
  BY DEF Requesting
<1>3. QED
  BY <1>1, <1>2 DEF Panel, Phases

LEMMA InvRequest == PanelInv /\ Request => PanelInv'
<1> SUFFICES ASSUME PanelInv, Request PROVE PanelInv'
  OBVIOUS
<1>1. /\ UNCHANGED <<looks, quotes, past, nonces, stale, minted, posts, checked, answers>>
      /\ panel' = Requesting(panel)
  BY DEF Request, server
<1>2. QED
  BY <1>1, PanelFields, RequestingFields, PanelAlone

LEMMA InvResumeFails == PanelInv /\ ResumeFails => PanelInv'
<1> SUFFICES ASSUME PanelInv, ResumeFails PROVE PanelInv'
  OBVIOUS
<1>1. /\ UNCHANGED <<looks, quotes, past, nonces, stale, minted, posts, checked, answers>>
      /\ panel.task = "resume"
  BY DEF ResumeFails, server
<1>2. CASE panel' = Requesting(panel)
  BY <1>1, <1>2, PanelFields, RequestingFields, PanelAlone
<1>3. CASE panel' = [panel EXCEPT !.phase = "error", !.task = "none"]
  <2>1. /\ panel' \in Panel /\ panel'.quote = panel.quote /\ panel'.cert = panel.cert
        /\ panel'.look = panel.look /\ panel'.phase = "error" /\ panel'.task = "none"
    BY <1>3, PanelFields DEF Panel, Phases
  <2>2. QED
    BY <1>1, <2>1, PanelFields, PanelAlone
<1>4. QED
  BY <1>2, <1>3 DEF ResumeFails

LEMMA InvRequestFails == PanelInv /\ RequestFails => PanelInv'
<1> SUFFICES ASSUME PanelInv, RequestFails PROVE PanelInv'
  OBVIOUS
<1>1. /\ UNCHANGED <<looks, quotes, past, nonces, stale, minted, posts, checked>>
      /\ answers' = {} /\ panel.task # "none"
      /\ panel' = [panel EXCEPT !.phase = "error", !.task = "none"]
  BY DEF RequestFails
<1>2. /\ panel' \in Panel /\ panel'.quote = panel.quote /\ panel'.cert = panel.cert
      /\ panel'.look = panel.look /\ panel'.phase = "error" /\ panel'.task = "none"
  BY <1>1, PanelFields DEF Panel, Phases
<1>3. QED
  BY <1>1, <1>2, PanelFields, PanelAlone

LEMMA InvQuoteArrives == PanelInv /\ QuoteArrives => PanelInv'
<1> SUFFICES ASSUME PanelInv, QuoteArrives PROVE PanelInv'
  OBVIOUS
<1>1. PICK a \in answers :
        /\ answers' = answers \ {a}
        /\ panel' = IF a.quote = 0
                      THEN [panel EXCEPT !.phase = "error", !.task = "none"]
                      ELSE [panel EXCEPT !.phase = "quote", !.task = "none", !.quote = a.quote]
  BY DEF QuoteArrives
<1>2. /\ UNCHANGED <<looks, quotes, past, nonces, stale, minted, posts, checked>>
      /\ panel.task = "post"
  BY DEF QuoteArrives
<1>3. a.quote \in 0..Len(quotes) /\ a.quote \in 0..MaxQuotes
  <2>1. a.quote \in 0..Len(quotes)
    BY DEF PanelInv, PanelTypes
  <2>2. QED
    BY <2>1, PanelFields, PanelAssumption
<1>4. /\ panel' \in Panel /\ panel'.quote <= Len(quotes) /\ panel'.cert = panel.cert
      /\ panel'.look = panel.look /\ panel'.phase \in {"error", "quote"}
      /\ panel'.task = "none"
  <2>1. panel \in Panel /\ panel.quote <= Len(quotes)
    BY PanelFields
  <2>2. CASE a.quote = 0
    BY <1>1, <2>1, <2>2 DEF Panel, Phases
  <2>3. CASE a.quote # 0
    <3> DEFINE q == a.quote
    <3>1. q \in 0..MaxQuotes /\ q <= Len(quotes)
      BY <1>3, PanelFields
    <3>2. panel' = [panel EXCEPT !.phase = "quote", !.task = "none", !.quote = q]
      BY <1>1, <2>3
    <3> HIDE DEF q
    <3>3. QED
      BY <2>1, <3>1, <3>2 DEF Panel, Phases
  <2>4. QED
    BY <2>2, <2>3
<1>5. QED
  BY <1>1, <1>2, <1>4, PanelFields, PanelAlone

\* Continue and Back.
LEMMA InvGo ==
  ASSUME PanelInv, NEW from \in {"quote", "payment"}, NEW to \in {"quote", "payment"},
         Go(from, to)
  PROVE  PanelInv'
<1>1. /\ UNCHANGED <<looks, quotes, past, nonces, stale, minted, posts, checked, answers>>
      /\ panel.phase = from /\ panel' = [panel EXCEPT !.phase = to, !.look = NoLook]
  BY DEF Go, server
<1>2. /\ panel' \in Panel /\ panel'.quote = panel.quote /\ panel'.cert = panel.cert
      /\ panel'.look = NoLook /\ panel'.phase = to /\ panel'.task = panel.task
  BY <1>1, PanelFields DEF Panel, Phases
<1>3. QED
  BY <1>1, <1>2, PanelFields, PanelAlone

LEMMA InvClose == PanelInv /\ Close => PanelInv'
<1> SUFFICES ASSUME PanelInv, Close PROVE PanelInv'
  OBVIOUS
<1>1. /\ UNCHANGED <<looks, quotes, past, nonces, stale, minted, posts, checked, answers>>
      /\ panel' = [panel EXCEPT !.open = FALSE, !.look = NoLook]
  BY DEF Close, server
<1>2. /\ panel' \in Panel /\ panel'.quote = panel.quote /\ panel'.cert = panel.cert
      /\ panel'.look = NoLook /\ panel'.phase = panel.phase /\ panel'.task = panel.task
      /\ panel'.nonce = panel.nonce
  BY <1>1, PanelFields DEF Panel, Phases
<1>3. QED
  BY <1>1, <1>2, PanelFields, PanelAlone

LEMMA InvUnmount == PanelInv /\ Unmount => PanelInv'
<1> SUFFICES ASSUME PanelInv, Unmount PROVE PanelInv'
  OBVIOUS
<1>1. /\ UNCHANGED <<looks, quotes, past, nonces, stale, minted, posts, checked>>
      /\ panel' = ClosedPanel /\ answers' = {}
  BY DEF Unmount
<1>2. /\ panel' \in Panel /\ panel'.quote = 0 /\ panel'.cert = 0
      /\ panel'.look = NoLook /\ panel'.phase = "idle" /\ panel'.task = "none"
  BY <1>1, PanelFields, PanelAssumption DEF ClosedPanel, Panel, Phases
<1>3. QED
  BY <1>1, <1>2, PanelFields, PanelAlone

-----------------------------------------------------------------------------
(* Challenges, proofs and quotes *)

\* The display does not depend on what the server knows of challenges, nor on a
\* new quote, nor on the status of an old one.
LEMMA DisplayKept ==
  ASSUME PanelInv, UNCHANGED <<panel, looks>>,
         \A q \in DOMAIN quotes : quotes[q].cert # "none" => quotes'[q].cert # "none"
  PROVE  DisplayAgrees'
<1>1. /\ panel \in Panel /\ looks \in [Looks -> Look] /\ Len(quotes) \in Nat
      /\ DOMAIN quotes = 1..Len(quotes)
      /\ panel.quote <= Len(quotes) /\ \A k \in Looks : looks[k].quote <= Len(quotes)
  BY DEF PanelInv, PanelTypes, PanelTypeOK
<1>2. \A k \in Looks : looks[k].quote \in Nat
  BY <1>1 DEF Look
<1>3. \A k \in Looks : looks[k].quote # 0 => looks[k].quote \in DOMAIN quotes
  BY <1>1, <1>2
<1>4. panel.cert # 0 => panel.cert \in DOMAIN quotes
  BY <1>1 DEF PanelInv, DisplayAgrees, Panel
<1>5. QED
  BY <1>3, <1>4 DEF PanelInv, DisplayAgrees

\* The types, when quotes are changed and none is taken back.
LEMMA TypesKept ==
  ASSUME PanelInv, UNCHANGED <<panel, looks, minted>>, stale' \subseteq Challenges,
         quotes' \in Seq(Quote), Len(quotes') \in Len(quotes)..MaxQuotes,
         past' \subseteq 1..MaxQuotes,
         nonces' \cup posts' \cup checked' \subseteq 1..minted,
         answers' \subseteq [nonce : Nat, quote : 0..Len(quotes')]
  PROVE  PanelTypes'
<1>1. /\ panel \in Panel /\ looks \in [Looks -> Look] /\ Len(quotes) \in Nat
      /\ panel.quote <= Len(quotes) /\ \A k \in Looks : looks[k].quote <= Len(quotes)
      /\ minted \in 0..MaxChallenges
  BY DEF PanelInv, PanelTypes, PanelTypeOK
<1>2. panel.quote <= Len(quotes') /\ \A k \in Looks : looks[k].quote <= Len(quotes')
  BY <1>1 DEF Panel, Look
<1>3. nonces' \cup posts' \cup checked' \subseteq Challenges
  BY <1>1, PanelAssumption DEF Challenges
<1>4. QED
  BY <1>2, <1>3, PanelAssumption DEF PanelInv, PanelTypes, PanelTypeOK

\* The facts of ServerTypes are cited when the server's part changes.
LEMMA ServerTypes ==
  ASSUME PanelInv
  PROVE  /\ quotes \in Seq(Quote) /\ Len(quotes) \in 0..MaxQuotes
         /\ DOMAIN quotes = 1..Len(quotes)
         /\ past \subseteq 1..MaxQuotes /\ stale \subseteq Challenges
         /\ minted \in 0..MaxChallenges
         /\ nonces \cup posts \cup checked \subseteq 1..minted
         /\ answers \subseteq [nonce : Nat, quote : 0..Len(quotes)]
         /\ looks \in [Looks -> Look] /\ \A k \in Looks : looks[k].quote \in 0..Len(quotes)
<1>1. /\ quotes \in Seq(Quote) /\ Len(quotes) <= MaxQuotes
      /\ past \subseteq 1..MaxQuotes /\ stale \subseteq Challenges
      /\ minted \in 0..MaxChallenges
      /\ nonces \cup posts \cup checked \subseteq 1..minted
      /\ answers \subseteq [nonce : Nat, quote : 0..Len(quotes)]
      /\ looks \in [Looks -> Look] /\ \A k \in Looks : looks[k].quote <= Len(quotes)
  BY DEF PanelInv, PanelTypes, PanelTypeOK
<1>2. Len(quotes) \in 0..MaxQuotes /\ DOMAIN quotes = 1..Len(quotes)
  BY <1>1, PanelAssumption
<1>3. \A k \in Looks : looks[k].quote \in 0..Len(quotes)
  BY <1>1, <1>2 DEF Look
<1>4. QED
  BY <1>1, <1>2, <1>3

LEMMA InvChallenge == PanelInv /\ Challenge => PanelInv'
<1> SUFFICES ASSUME PanelInv, Challenge PROVE PanelInv'
  OBVIOUS
<1>1. /\ UNCHANGED <<looks, quotes, past, posts, checked, answers>>
      /\ panel.task = "challenge" /\ minted < MaxChallenges /\ minted' = minted + 1
      /\ nonces' = SweptNonces \cup {minted + 1} /\ stale' = stale \cap SweptNonces
      /\ panel' = [panel EXCEPT !.task = "sign", !.nonce = minted + 1]
  BY DEF Challenge
<1>2. SweptNonces \subseteq nonces
  BY DEF SweptNonces
<1>3. minted + 1 \in 1..MaxChallenges /\ minted + 1 \in 1..minted' /\ 1..minted \subseteq 1..minted'
      /\ minted' \in 0..MaxChallenges /\ 1..minted' \subseteq Challenges
      /\ minted + 1 \notin 1..minted /\ minted + 1 \in 0..MaxChallenges
  BY <1>1, ServerTypes, PanelAssumption DEF Challenges
<1>4. /\ panel' \in Panel /\ panel'.quote = panel.quote /\ panel'.cert = panel.cert
      /\ panel'.look = panel.look /\ panel'.phase = panel.phase /\ panel'.task = "sign"
      /\ panel'.nonce = minted + 1
  BY <1>1, <1>3, PanelFields DEF Panel
<1>5. nonces' \cup posts' \cup checked' \subseteq 1..minted'
  BY <1>1, <1>2, <1>3, ServerTypes
<1>6. PanelTypes'
  BY <1>1, <1>3, <1>4, <1>5 DEF PanelInv, PanelTypes, PanelTypeOK
<1>7. ProofsAreSpent'
  <2>1. posts \subseteq 1..minted /\ checked \subseteq 1..minted
    BY ServerTypes
  <2>2. QED
    BY <1>1, <1>2, <1>3, <2>1 DEF PanelInv, ProofsAreSpent
<1>8. DisplayAgrees'
  BY <1>1, <1>4 DEF PanelInv, DisplayAgrees
<1>9. QED
  BY <1>6, <1>7, <1>8 DEF PanelInv

LEMMA InvSign == PanelInv /\ Sign => PanelInv'
<1> SUFFICES ASSUME PanelInv, Sign PROVE PanelInv'
  OBVIOUS
<1>1. /\ UNCHANGED <<looks, quotes, past, nonces, stale, minted, checked, answers>>
      /\ panel.task = "sign" /\ posts' = posts \cup {panel.nonce}
      /\ panel' = [panel EXCEPT !.task = "post"]
  BY DEF Sign
<1>2. /\ panel' \in Panel /\ panel'.quote = panel.quote /\ panel'.cert = panel.cert
      /\ panel'.look = panel.look /\ panel'.phase = panel.phase /\ panel'.task = "post"
      /\ panel'.nonce = panel.nonce
  BY <1>1, PanelFields DEF Panel
<1>3. panel.nonce \in 1..minted
  BY <1>1, PanelFields
<1>4. posts' \subseteq 1..minted /\ posts' \subseteq Challenges
  BY <1>1, <1>3, ServerTypes, PanelAssumption DEF Challenges
<1>5. PanelTypes'
  BY <1>1, <1>2, <1>3, <1>4 DEF PanelInv, PanelTypes, PanelTypeOK
<1>6. ProofsAreSpent'
  BY <1>1 DEF PanelInv, ProofsAreSpent
<1>7. DisplayAgrees'
  BY <1>1, <1>2 DEF PanelInv, DisplayAgrees
<1>8. QED
  BY <1>5, <1>6, <1>7 DEF PanelInv

\* An answer is about a quote of the ledger.
LEMMA AnswersTyped ==
  ASSUME NEW n \in Nat, NEW m \in Nat, NEW q \in 0..m,
         answers \subseteq [nonce : Nat, quote : 0..m]
  PROVE  Answers(n, q) \subseteq [nonce : Nat, quote : 0..m]
BY DEF Answers

\* The proof of a request is accepted once: its nonce leaves the outstanding ones.
LEMMA InvCheckProof ==
  ASSUME PanelInv, NEW n \in Challenges, CheckProof(n)
  PROVE  PanelInv'
<1>1. /\ UNCHANGED <<panel, looks, quotes, past, minted, posts>>
      /\ n \in posts /\ nonces' = nonces \ {n} /\ stale' \subseteq stale
      /\ \/ n \in nonces /\ checked' = checked \cup {n} /\ answers' = answers
         \/ checked' = checked /\ answers' = Answers(n, 0)
  BY DEF CheckProof, Burnt, Proven
<1>2. answers' \subseteq [nonce : Nat, quote : 0..Len(quotes)]
  <2>1. 0 \in 0..Len(quotes) /\ n \in Nat /\ Len(quotes) \in Nat
    BY ServerTypes, PanelAssumption DEF Challenges
  <2>2. answers \subseteq [nonce : Nat, quote : 0..Len(quotes)]
    BY ServerTypes
  <2>3. QED
    BY <1>1, <2>1, <2>2, AnswersTyped, Zenon
<1>3. PanelTypes'
  <2>1. nonces' \cup posts' \cup checked' \subseteq 1..minted
    BY <1>1, ServerTypes
  <2>2. quotes' \in Seq(Quote) /\ Len(quotes') \in Len(quotes)..MaxQuotes
        /\ past' \subseteq 1..MaxQuotes /\ stale' \subseteq Challenges
    BY <1>1, ServerTypes, PanelAssumption
  <2>3. QED
    BY <1>1, <1>2, <2>1, <2>2, TypesKept
<1>4. ProofsAreSpent'
  BY <1>1 DEF PanelInv, ProofsAreSpent
<1>5. DisplayAgrees'
  BY <1>1, DisplayKept
<1>6. QED
  BY <1>3, <1>4, <1>5 DEF PanelInv

\* A priced request ends, as a quote with its nonce or as an error.
LEMMA InvIssueQuote ==
  ASSUME PanelInv, NEW n \in Challenges, IssueQuote(n)
  PROVE  PanelInv'
<1> DEFINE qs == Lapsed(quotes)
           new == [status |-> "open", cert |-> "none", proof |-> n]
<1>1. /\ UNCHANGED <<panel, looks, past, nonces, stale, minted, posts>>
      /\ n \in checked /\ checked' = checked \ {n}
      /\ \/ /\ Len(qs) < MaxQuotes /\ quotes' = Append(qs, new)
            /\ answers' = Answers(n, Len(qs) + 1)
         \/ quotes' \in {qs, quotes} /\ answers' = Answers(n, 0)
  BY DEF IssueQuote
<1>2. /\ quotes \in Seq(Quote) /\ Len(quotes) \in 0..MaxQuotes
      /\ DOMAIN quotes = 1..Len(quotes)
      /\ past \subseteq 1..MaxQuotes /\ stale \subseteq Challenges
      /\ answers \subseteq [nonce : Nat, quote : 0..Len(quotes)]
  BY ServerTypes
<1>3. /\ qs \in Seq(Quote) /\ Len(qs) = Len(quotes)
      /\ \A q \in DOMAIN quotes : qs[q].cert = quotes[q].cert /\ qs[q].proof = quotes[q].proof
  BY <1>2, LapsedKeeps
<1>4. new \in Quote /\ new.proof = n /\ n \in Nat
  BY PanelAssumption DEF Quote, Challenges
<1> HIDE DEF qs, new
<1>5. /\ quotes' \in Seq(Quote) /\ Len(quotes') \in Len(quotes)..MaxQuotes
      /\ \A q \in DOMAIN quotes : /\ quotes'[q].cert = quotes[q].cert
                                  /\ quotes'[q].proof = quotes[q].proof
      /\ \A q \in DOMAIN quotes' : \/ q \in DOMAIN quotes
                                   \/ q = Len(quotes) + 1 /\ quotes'[q] = new
  <2>1. CASE Len(qs) < MaxQuotes /\ quotes' = Append(qs, new)
    BY <1>2, <1>3, <1>4, <2>1, PanelAssumption
  <2>2. CASE quotes' \in {qs, quotes}
    BY <1>2, <1>3, <2>2, PanelAssumption
  <2>3. QED
    BY <1>1, <2>1, <2>2
<1>6. answers' \subseteq [nonce : Nat, quote : 0..Len(quotes')]
  <2>1. \A a \in answers : a \in [nonce : Nat, quote : 0..Len(quotes')]
    <3>1. 0..Len(quotes) \subseteq 0..Len(quotes')
      BY <1>2, <1>5, PanelAssumption
    <3>2. QED
      BY <1>2, <3>1
  <2>2. CASE Len(qs) < MaxQuotes /\ quotes' = Append(qs, new)
             /\ answers' = Answers(n, Len(qs) + 1)
    <3>1. Len(qs) + 1 \in 0..Len(quotes') /\ Len(quotes') \in Nat
      BY <1>2, <1>3, <2>2
    <3>2. QED
      BY <1>4, <2>1, <2>2, <3>1, AnswersTyped
  <2>3. CASE answers' = Answers(n, 0)
    <3>1. 0 \in 0..Len(quotes') /\ Len(quotes') \in Nat
      BY <1>5
    <3>2. QED
      BY <1>4, <2>1, <2>3, <3>1, AnswersTyped
  <2>4. QED
    BY <1>1, <2>2, <2>3
<1>7. PanelTypes'
  <2>1. nonces' \cup posts' \cup checked' \subseteq 1..minted
    BY <1>1, ServerTypes
  <2>2. QED
    BY <1>1, <1>2, <1>5, <1>6, <2>1, TypesKept
<1>8. ProofsAreSpent'
  <2>1. /\ checked \subseteq posts /\ checked \cap nonces = {}
        /\ \A q \in DOMAIN quotes : quotes[q].proof \in posts \ (nonces \cup checked)
        /\ \A q, r \in DOMAIN quotes : q # r => quotes[q].proof # quotes[r].proof
    BY DEF PanelInv, ProofsAreSpent
  <2>2. \A q \in DOMAIN quotes : quotes[q].proof # n
    BY <1>1, <2>1
  <2>3. \A q \in DOMAIN quotes' : quotes'[q].proof \in posts \ (nonces \cup (checked \ {n}))
    BY <1>1, <1>4, <1>5, <2>1
  <2>4. \A q, r \in DOMAIN quotes' : q # r => quotes'[q].proof # quotes'[r].proof
    BY <1>4, <1>5, <2>1, <2>2
  <2>5. QED
    BY <1>1, <2>1, <2>3, <2>4 DEF ProofsAreSpent
<1>9. DisplayAgrees'
  BY <1>1, <1>5, DisplayKept
<1>10. QED
  BY <1>7, <1>8, <1>9 DEF PanelInv

\* Steps that change the status of quotes, and perhaps give one a certificate.
LEMMA InvQuotesChange ==
  ASSUME PanelInv, UNCHANGED <<panel, looks, nonces, stale, minted, posts, checked, answers>>,
         past' \subseteq 1..MaxQuotes,
         quotes' \in Seq(Quote), Len(quotes') = Len(quotes),
         \A q \in DOMAIN quotes : /\ quotes'[q].proof = quotes[q].proof
                                  /\ quotes[q].cert # "none" => quotes'[q].cert # "none"
  PROVE  PanelInv'
<1>1. DOMAIN quotes' = DOMAIN quotes /\ Len(quotes') \in Len(quotes)..MaxQuotes
  BY ServerTypes, PanelAssumption
<1>2. PanelTypes'
  BY <1>1, ServerTypes, TypesKept
<1>3. ProofsAreSpent'
  BY <1>1 DEF PanelInv, ProofsAreSpent
<1>4. DisplayAgrees'
  BY DisplayKept
<1>5. QED
  BY <1>2, <1>3, <1>4 DEF PanelInv

LEMMA InvWorld ==
  ASSUME PanelInv, NEW q \in 1..MaxQuotes, QuoteExpires(q) \/ Activated(q) \/ Settled(q)
  PROVE  PanelInv'
<1>1. quotes \in Seq(Quote) /\ past \subseteq 1..MaxQuotes
  BY ServerTypes
<1>2. CASE QuoteExpires(q)
  <2>1. /\ UNCHANGED <<panel, looks, quotes, nonces, stale, minted, posts, checked, answers>>
        /\ past' \subseteq 1..MaxQuotes
    BY <1>1, <1>2 DEF QuoteExpires
  <2>2. QED
    BY <1>1, <2>1, InvQuotesChange
<1>3. CASE Activated(q)
  <2>1. /\ UNCHANGED <<panel, looks, past, nonces, stale, minted, posts, checked, answers>>
        /\ quotes' = [quotes EXCEPT ![q].status = "consumed", ![q].cert = "active"]
    BY <1>3 DEF Activated
  <2>2. quotes[q] \in Quote /\ q \in DOMAIN quotes
    BY <1>1, <1>3 DEF Activated
  <2> DEFINE new == [quotes[q] EXCEPT !.status = "consumed", !.cert = "active"]
  <2>3. new \in Quote /\ new.proof = quotes[q].proof /\ new.cert # "none"
    BY <2>2 DEF Quote
  <2>4. quotes' = [quotes EXCEPT ![q] = new]
    BY <1>1, <2>1, <2>2
  <2> HIDE DEF new
  <2>5. /\ quotes' \in Seq(Quote) /\ Len(quotes') = Len(quotes)
        /\ \A r \in DOMAIN quotes : quotes'[r] = IF r = q THEN new ELSE quotes[r]
    BY <1>1, <2>2, <2>3, <2>4
  <2>6. QED
    BY <1>1, <2>1, <2>3, <2>5, InvQuotesChange
<1>4. CASE Settled(q)
  <2>1. /\ UNCHANGED <<panel, looks, past, nonces, stale, minted, posts, checked, answers>>
        /\ quotes' = [quotes EXCEPT ![q].cert = "settled"]
    BY <1>4 DEF Settled
  <2>2. quotes[q] \in Quote /\ q \in DOMAIN quotes
    BY <1>1, <1>4 DEF Settled
  <2> DEFINE new == [quotes[q] EXCEPT !.cert = "settled"]
  <2>3. new \in Quote /\ new.proof = quotes[q].proof /\ new.cert # "none"
    BY <2>2 DEF Quote
  <2>4. quotes' = [quotes EXCEPT ![q] = new]
    BY <1>1, <2>1, <2>2
  <2> HIDE DEF new
  <2>5. /\ quotes' \in Seq(Quote) /\ Len(quotes') = Len(quotes)
        /\ \A r \in DOMAIN quotes : quotes'[r] = IF r = q THEN new ELSE quotes[r]
    BY <1>1, <2>2, <2>3, <2>4
  <2>6. QED
    BY <1>1, <2>1, <2>3, <2>5, InvQuotesChange
<1>5. QED
  BY <1>2, <1>3, <1>4

LEMMA InvNonceExpires ==
  ASSUME PanelInv, NEW n \in Challenges, NonceExpires(n)
  PROVE  PanelInv'
<1>1. /\ UNCHANGED <<panel, looks, quotes, past, nonces, minted, posts, checked, answers>>
      /\ stale' \subseteq Challenges
  BY ServerTypes DEF NonceExpires
<1>2. PanelTypes'
  BY <1>1 DEF PanelInv, PanelTypes, PanelTypeOK
<1>3. ProofsAreSpent'
  BY <1>1 DEF PanelInv, ProofsAreSpent
<1>4. DisplayAgrees'
  BY <1>1, DisplayKept
<1>5. QED
  BY <1>2, <1>3, <1>4 DEF PanelInv

-----------------------------------------------------------------------------
(* The status route and its answers *)

\* Opening the panel: the answer shows the position's certificate or quote, or
\* starts a request.
LEMMA InvResumeArrives == PanelInv /\ ResumeArrives => PanelInv'
<1> SUFFICES ASSUME PanelInv, ResumeArrives PROVE PanelInv'
  OBVIOUS
<1> DEFINE qs == Lapsed(quotes)
           q  == Relevant(qs)
<1>1. /\ UNCHANGED <<looks, past, nonces, stale, minted, posts, checked, answers>>
      /\ panel.task = "resume" /\ quotes' = qs
      /\ panel' =
           IF q # 0 /\ qs[q].cert # "none"
             THEN [Shown(panel, q, qs[q].cert) EXCEPT !.task = "none"]
           ELSE IF q # 0 /\ qs[q].status = "open"
             THEN [panel EXCEPT !.quote = q, !.phase = "quote", !.task = "none"]
           ELSE Requesting(panel)
  BY DEF ResumeArrives
<1>2. /\ qs \in Seq(Quote) /\ Len(qs) = Len(quotes)
      /\ \A r \in DOMAIN quotes : qs[r].cert = quotes[r].cert /\ qs[r].proof = quotes[r].proof
  BY ServerTypes, LapsedKeeps
<1>3. q \in 0..Len(quotes) /\ q \in 0..MaxQuotes /\ (q # 0 => qs[q] \in Quote)
  <2>1. q \in 0..Len(qs)
    BY <1>2, RelevantIsQuote
  <2> HIDE DEF q, qs
  <2>2. QED
    BY <1>2, <2>1, ServerTypes, PanelAssumption
<1> HIDE DEF q, qs
<1> DEFINE cert == qs[q].cert
<1>4. q # 0 => cert \in {"none", "active", "settled"}
  BY <1>3 DEF Quote
<1>5. panel.phase = "loading" /\ panel.cert = 0 /\ panel.look = NoLook
  BY <1>1, PanelFields
<1>6. /\ panel' \in Panel /\ panel'.quote \in 0..Len(quotes)
      /\ panel'.look = NoLook
      /\ panel'.task \in {"none", "challenge"}
      /\ panel'.phase = "loading" <=> panel'.task # "none"
      /\ panel'.cert # 0 <=> panel'.phase \in {"active", "done"}
      /\ panel'.cert # 0 => panel'.cert = panel'.quote /\ qs[panel'.cert].cert # "none"
  <2>1. panel \in Panel /\ panel.quote \in 0..Len(quotes)
    BY PanelFields, PanelAssumption DEF Panel
  <2>2. CASE q # 0 /\ cert # "none"
    <3>1. panel' = [panel EXCEPT !.quote = q, !.cert = q, !.look = NoLook, !.task = "none",
                                 !.phase = IF cert = "active" THEN "active" ELSE "done"]
      BY <1>1, <1>4, <2>2 DEF Shown
    <3>2. /\ panel'.cert = q /\ panel'.quote = q /\ panel'.look = NoLook
          /\ panel'.task = "none" /\ panel'.phase \in {"active", "done"}
          /\ panel' \in Panel
      BY <1>3, <2>1, <3>1 DEF Panel, Phases
    <3>3. QED
      BY <1>3, <2>2, <3>2
  <2>3. CASE ~(q # 0 /\ cert # "none") /\ q # 0 /\ qs[q].status = "open"
    <3>1. panel' = [panel EXCEPT !.quote = q, !.phase = "quote", !.task = "none"]
      BY <1>1, <2>3
    <3>2. /\ panel'.cert = 0 /\ panel'.quote = q /\ panel'.look = NoLook
          /\ panel'.task = "none" /\ panel'.phase = "quote"
          /\ panel' \in Panel
      BY <1>3, <1>5, <2>1, <3>1 DEF Panel, Phases
    <3>3. QED
      BY <1>3, <3>2
  <2>4. CASE ~(q # 0 /\ cert # "none") /\ ~(q # 0 /\ qs[q].status = "open")
    <3>1. panel' = Requesting(panel)
      BY <1>1, <2>4
    <3>2. QED
      BY <2>1, <3>1, RequestingFields
  <2>5. QED
    BY <2>2, <2>3, <2>4
<1>7. \A k \in Looks : looks[k].quote \in DOMAIN quotes \cup {0}
  BY ServerTypes
<1>8. PanelTypes'
  <2>1. Len(quotes) \in 0..MaxQuotes /\ \A k \in Looks : looks[k].quote <= Len(quotes)
    BY ServerTypes
  <2>2. panel'.quote <= Len(quotes)
    BY <1>6, <2>1
  <2>3. quotes' \in Seq(Quote) /\ Len(quotes') <= MaxQuotes /\ Len(quotes') = Len(quotes)
    BY <1>1, <1>2, <2>1, PanelAssumption
  <2>4. QED
    BY <1>1, <1>6, <2>1, <2>2, <2>3 DEF PanelInv, PanelTypes, PanelTypeOK
<1>9. ProofsAreSpent'
  <2>1. DOMAIN quotes' = DOMAIN quotes
    BY <1>1, <1>2, ServerTypes
  <2>2. QED
    BY <1>1, <1>2, <2>1 DEF PanelInv, ProofsAreSpent
<1>10. DisplayAgrees'
  BY <1>1, <1>2, <1>6, <1>7 DEF PanelInv, DisplayAgrees
<1>11. QED
  BY <1>8, <1>9, <1>10 DEF PanelInv

LEMMA InvAskStatus ==
  ASSUME PanelInv, NEW k \in Looks, AskStatus(k)
  PROVE  PanelInv'
<1>1. /\ UNCHANGED <<quotes, past, nonces, stale, minted, posts, checked, answers>>
      /\ panel.phase \in {"payment", "active"}
      /\ looks' = [looks EXCEPT ![k] = [NoRequest EXCEPT !.quote = panel.quote]]
      /\ panel' = [panel EXCEPT !.look = k]
  BY DEF AskStatus, Polling, server
<1>2. /\ panel' \in Panel /\ panel'.quote = panel.quote /\ panel'.cert = panel.cert
      /\ panel'.look = k /\ panel'.phase = panel.phase /\ panel'.task = panel.task
      /\ panel'.nonce = panel.nonce
  BY <1>1, PanelFields DEF Panel
<1>3. panel.quote \in 0..MaxQuotes /\ panel.quote <= Len(quotes)
  BY PanelFields DEF Panel
<1> DEFINE look == [NoRequest EXCEPT !.quote = panel.quote]
<1>4. /\ look \in Look /\ look.quote = panel.quote /\ ~look.served
      /\ looks' = [looks EXCEPT ![k] = look]
  <2>1. look \in Look /\ look.quote = panel.quote /\ ~look.served
    BY <1>3 DEF Look, NoRequest
  <2>2. QED
    BY <1>1, <2>1
<1> HIDE DEF look
<1>5. /\ looks' \in [Looks -> Look] /\ looks'[k] = look
      /\ \A j \in Looks : j # k => looks'[j] = looks[j]
  BY <1>4, ServerTypes
<1>6. PanelTypes'
  BY <1>1, <1>2, <1>3, <1>4, <1>5 DEF PanelInv, PanelTypes, PanelTypeOK
<1>7. ProofsAreSpent'
  BY <1>1 DEF PanelInv, ProofsAreSpent
<1>8. DisplayAgrees'
  BY <1>1, <1>2, <1>4, <1>5 DEF PanelInv, DisplayAgrees
<1>9. QED
  BY <1>6, <1>7, <1>8 DEF PanelInv

LEMMA InvServeLook ==
  ASSUME PanelInv, NEW k \in Looks, ServeLook(k)
  PROVE  PanelInv'
<1> DEFINE q == looks[k].quote
           look == [looks[k] EXCEPT !.served = TRUE, !.cert = quotes[q].cert]
<1>1. /\ UNCHANGED <<panel, past, nonces, stale, minted, posts, checked, answers>>
      /\ q # 0 /\ quotes' = Lapsed(quotes)
      /\ looks' = [looks EXCEPT ![k].served = TRUE, ![k].cert = quotes[q].cert]
  BY DEF ServeLook
<1>2. /\ quotes \in Seq(Quote) /\ looks[k] \in Look /\ looks \in [Looks -> Look]
      /\ q \in 1..Len(quotes) /\ Len(quotes) \in 0..MaxQuotes
  BY <1>1, ServerTypes, PanelAssumption
<1>3. /\ quotes' \in Seq(Quote) /\ Len(quotes') = Len(quotes)
      /\ \A r \in DOMAIN quotes : /\ quotes'[r].cert = quotes[r].cert
                                  /\ quotes'[r].proof = quotes[r].proof
  BY <1>1, <1>2, LapsedKeeps
<1>4. quotes[q].cert \in {"none", "active", "settled"}
  <2>1. quotes[q] \in Quote
    <3> HIDE DEF q
    <3>1. QED
      BY <1>2
  <2>2. QED
    BY <2>1 DEF Quote
<1>5. /\ look \in Look /\ look.quote = q /\ look.served /\ look.cert = quotes[q].cert
  BY <1>2, <1>4 DEF Look
<1>6. looks' = [looks EXCEPT ![k] = look]
  BY <1>1, <1>2
<1> HIDE DEF look
<1>7. /\ looks' \in [Looks -> Look] /\ looks'[k] = look
      /\ \A j \in Looks : j # k => looks'[j] = looks[j]
  BY <1>2, <1>5, <1>6
<1>8. /\ \A j \in Looks : looks'[j].quote = looks[j].quote
      /\ \A j \in Looks : looks[j].quote \in DOMAIN quotes \cup {0}
  BY <1>2, <1>5, <1>7, ServerTypes
<1>9. PanelTypes'
  BY <1>1, <1>2, <1>3, <1>7, <1>8, PanelAssumption DEF PanelInv, PanelTypes, PanelTypeOK
<1>10. ProofsAreSpent'
  <2>1. DOMAIN quotes' = DOMAIN quotes
    BY <1>2, <1>3
  <2>2. QED
    BY <1>1, <1>3, <2>1 DEF PanelInv, ProofsAreSpent
<1>11. DisplayAgrees'
  <2>1. panel.cert # 0 => panel.cert \in DOMAIN quotes
    BY <1>2, PanelFields DEF Panel
  <2>2. panel.look \in Looks \cup {NoLook}
    BY PanelFields DEF Panel
  <2>3. \A j \in Looks : looks'[j].served =>
          /\ looks'[j].quote # 0
          /\ looks'[j].cert # "none" => quotes'[looks'[j].quote].cert # "none"
    <3> SUFFICES ASSUME NEW j \in Looks, looks'[j].served
                 PROVE  /\ looks'[j].quote # 0
                        /\ looks'[j].cert # "none" => quotes'[looks'[j].quote].cert # "none"
      OBVIOUS
    <3>1. CASE j = k
      BY <1>1, <1>2, <1>3, <1>5, <1>7, <3>1
    <3>2. CASE j # k
      BY <1>3, <1>7, <1>8, <3>2 DEF PanelInv, DisplayAgrees
    <3>3. QED
      BY <3>1, <3>2
  <2>4. QED
    BY <1>1, <1>3, <1>8, <2>1, <2>2, <2>3 DEF PanelInv, DisplayAgrees
<1>12. QED
  BY <1>9, <1>10, <1>11 DEF PanelInv

\* The request ends, and the panel shows at most what it says of its own quote.
LEMMA InvLookEnds ==
  ASSUME PanelInv, NEW k \in Looks, LookArrives(k) \/ LookFails(k)
  PROVE  PanelInv'
<1>1. /\ UNCHANGED <<quotes, past, nonces, stale, minted, posts, checked, answers>>
      /\ looks' = [looks EXCEPT ![k] = NoRequest]
  BY DEF LookArrives, LookFails, server
<1>2. NoRequest \in Look /\ NoRequest.quote = 0 /\ ~NoRequest.served
  BY PanelAssumption DEF NoRequest, Look
<1>3. /\ looks' \in [Looks -> Look] /\ looks'[k] = NoRequest
      /\ \A j \in Looks : j # k => looks'[j] = looks[j]
  BY <1>1, <1>2, ServerTypes
<1>4. panel \in Panel /\ panel.quote \in 0..MaxQuotes
  BY PanelFields DEF Panel
<1>5. /\ panel' \in Panel /\ panel'.quote = panel.quote
      /\ panel'.look # k
      /\ panel'.look # NoLook => panel'.look = panel.look
      /\ panel'.task = panel.task /\ panel'.nonce = panel.nonce
      /\ \/ panel'.phase = panel.phase /\ panel'.cert = panel.cert
         \/ /\ panel'.phase \in {"active", "done"} /\ panel'.cert = panel'.quote
            /\ panel.phase \in {"payment", "active"} /\ panel'.look = NoLook
            /\ panel.quote # 0 /\ quotes[panel.quote].cert # "none"
  <2>1. CASE panel.look # k
    <3>1. panel' = panel
      BY <2>1 DEF LookArrives, LookFails, Taken
    <3>2. QED
      BY <1>4, <2>1, <3>1
  <2>2. CASE panel.look = k /\ LookFails(k)
    <3>1. panel' = [panel EXCEPT !.look = NoLook]
      BY <2>2 DEF LookFails
    <3>2. QED
      BY <1>4, <3>1, PanelAssumption DEF Panel
  <2>3. CASE panel.look = k /\ LookArrives(k)
    <3> DEFINE cert == looks[k].cert
    <3>1. looks[k].served /\ panel' = Shown(panel, looks[k].quote, cert)
      BY <2>3 DEF LookArrives, Taken
    <3>2. /\ looks[k].quote = panel.quote /\ panel.phase \in {"payment", "active"}
          /\ panel.quote # 0 /\ cert # "none" => quotes[panel.quote].cert # "none"
          /\ cert \in {"none", "active", "settled"}
      <4>1. panel.look # NoLook
        BY <2>3, PanelAssumption
      <4>2. looks[k] \in Look
        BY ServerTypes
      <4>3. QED
        BY <2>3, <3>1, <4>1, <4>2 DEF PanelInv, DisplayAgrees, Look
    <3> HIDE DEF cert
    <3>3. panel.quote # 0
      BY <3>1, <3>2 DEF PanelInv, DisplayAgrees
    <3>4. CASE cert = "none"
      <4>1. panel' = [panel EXCEPT !.look = NoLook]
        BY <1>4, <3>1, <3>2, <3>4 DEF Shown, Panel
      <4>2. QED
        BY <1>4, <4>1, PanelAssumption DEF Panel
    <3>5. CASE cert # "none"
      <4>1. panel' = [panel EXCEPT !.quote = panel.quote, !.cert = panel.quote, !.look = NoLook,
                                   !.phase = IF cert = "active" THEN "active" ELSE "done"]
        BY <3>1, <3>2, <3>5 DEF Shown
      <4>2. /\ panel' \in Panel /\ panel'.quote = panel.quote /\ panel'.cert = panel.quote
            /\ panel'.look = NoLook /\ panel'.phase \in {"active", "done"}
            /\ panel'.task = panel.task /\ panel'.nonce = panel.nonce
        BY <1>4, <4>1 DEF Panel, Phases
      <4>3. QED
        BY <3>2, <3>3, <3>5, <4>2, PanelAssumption
    <3>6. QED
      BY <3>4, <3>5
  <2>4. QED
    BY <2>1, <2>2, <2>3
<1>6. PanelTypes'
  <2>1. \A j \in Looks : looks'[j].quote <= Len(quotes)
    BY <1>2, <1>3, ServerTypes
  <2>2. QED
    BY <1>1, <1>3, <1>5, <2>1 DEF PanelInv, PanelTypes, PanelTypeOK
<1>7. ProofsAreSpent'
  BY <1>1 DEF PanelInv, ProofsAreSpent
<1>8. DisplayAgrees'
  <2>1. panel'.look \in Looks \cup {NoLook}
    BY <1>5 DEF Panel
  <2>2. panel'.look # NoLook =>
          panel'.phase \in {"payment", "active"} /\ looks'[panel'.look].quote = panel'.quote
    BY <1>3, <1>5, <2>1, PanelFields
  <2>3. \A j \in Looks : looks'[j].served =>
          /\ looks'[j].quote # 0
          /\ looks'[j].cert # "none" => quotes'[looks'[j].quote].cert # "none"
    BY <1>1, <1>2, <1>3 DEF PanelInv, DisplayAgrees
  <2>4. panel'.phase = "loading" <=> panel'.task # "none"
    BY <1>5, PanelFields
  <2>5. /\ panel'.cert # 0 <=> panel'.phase \in {"active", "done"}
        /\ panel'.cert # 0 => panel'.cert = panel'.quote /\ quotes'[panel'.cert].cert # "none"
    BY <1>1, <1>5, PanelFields
  <2>6. QED
    BY <2>2, <2>3, <2>4, <2>5 DEF DisplayAgrees
<1>9. QED
  BY <1>6, <1>7, <1>8 DEF PanelInv

-----------------------------------------------------------------------------

LEMMA PanelInvNext == PanelInv /\ [PanelNext]_panelVars => PanelInv'
<1> SUFFICES ASSUME PanelInv, [PanelNext]_panelVars PROVE PanelInv'
  OBVIOUS
<1>1. CASE OpenPanel
  BY <1>1, InvOpenPanel
<1>2. CASE ResumeArrives
  BY <1>2, InvResumeArrives
<1>3. CASE ResumeFails
  BY <1>3, InvResumeFails
<1>4. CASE Request
  BY <1>4, InvRequest
<1>5. CASE Challenge
  BY <1>5, InvChallenge
<1>6. CASE Sign
  BY <1>6, InvSign
<1>7. CASE RequestFails
  BY <1>7, InvRequestFails
<1>8. CASE QuoteArrives
  BY <1>8, InvQuoteArrives
<1>9. CASE \E n \in Challenges : CheckProof(n) \/ IssueQuote(n) \/ NonceExpires(n)
  BY <1>9, InvCheckProof, InvIssueQuote, InvNonceExpires
<1>10. CASE Continue \/ Back
  BY <1>10, InvGo DEF Continue, Back
<1>11. CASE Close \/ Unmount
  BY <1>11, InvClose, InvUnmount
<1>12. CASE \E k \in Looks : AskStatus(k) \/ ServeLook(k) \/ LookArrives(k) \/ LookFails(k)
  BY <1>12, InvAskStatus, InvServeLook, InvLookEnds
<1>13. CASE \E q \in 1..MaxQuotes : QuoteExpires(q) \/ Activated(q) \/ Settled(q)
  BY <1>13, InvWorld
<1>14. CASE UNCHANGED panelVars
  <2>1. UNCHANGED <<panel, looks, quotes, past, nonces, stale, minted, posts, checked, answers>>
    BY <1>14 DEF panelVars
  <2>2. QED
    BY <2>1, PanelFields, PanelAlone
<1>15. QED
  BY <1>1, <1>2, <1>3, <1>4, <1>5, <1>6, <1>7, <1>8, <1>9, <1>10, <1>11, <1>12, <1>13, <1>14
  DEF PanelNext

\* Every quote of the position has a signature of its own, whatever requests
\* arrive late or again, and whatever is swept from the nonces (wallet-auth.ts).
THEOREM PanelQuoteIsAuthorised == PanelSpec => []QuoteIsAuthorised
<1>1. PanelInv => QuoteIsAuthorised
  BY DEF PanelInv, ProofsAreSpent, QuoteIsAuthorised
<1>2. QED
  BY <1>1, PanelInvInit, PanelInvNext, PTL DEF PanelSpec

\* The certificate on display is the one of the terms on display, with any
\* number of status requests under way (hedge-panel.tsx).
THEOREM PanelCertificateIsOfQuote == PanelSpec => []CertificateIsOfQuote
<1>1. PanelInv => CertificateIsOfQuote
  BY DEF PanelInv, DisplayAgrees, CertificateIsOfQuote
<1>2. QED
  BY <1>1, PanelInvInit, PanelInvNext, PTL DEF PanelSpec

-----------------------------------------------------------------------------
(* III. The data shop and its page *)

Decided == {"paid", "fulfilled", "refund-due"}

\* What holds of ledger l, chain c, uses u and delivered files d: who has paid
\* has a transaction of the order's own and its exact amount, and a grant is
\* fresh and belongs to a fulfilled order.
Sound(l, c, u, d) ==
  /\ \A o \in Orders :
       /\ l.orders[o].status # "none" => l.orders[o].amount \in Amounts
       /\ l.orders[o].status \in Decided <=> l.orders[o].tx # 0
       /\ l.orders[o].tx # 0 => l.orders[o].tx \in DOMAIN c \cap l.used
       /\ l.orders[o].status \in {"paid", "fulfilled"} =>
            c[l.orders[o].tx].amount = l.orders[o].amount
       /\ l.orders[o].grant => l.orders[o].status = "fulfilled" /\ u[o] = 0
       /\ u[o] <= 1
       /\ o \in d => l.orders[o].status = "fulfilled"
  /\ \A o, p \in Orders :
       o # p /\ l.orders[o].tx # 0 => l.orders[o].tx # l.orders[p].tx

ShopTypes ==
  /\ ledger \in LedgerState
  /\ chain \in Seq(Tx) /\ Len(chain) <= MaxTxs
  /\ late \subseteq Orders /\ over \subseteq Orders
  /\ polls \in [Polls -> Poll] /\ watcher \in Watcher
  /\ held \subseteq Orders /\ uses \in [Orders -> Nat] /\ delivered \subseteq Orders
  /\ crashes \in 0..MaxCrashes

\* What was read from the chain before it is credited is still there.
ReadsExist ==
  /\ \A p \in Polls :
       /\ polls[p].pc # "idle" => polls[p].order \in Orders
       /\ polls[p].pc = "crediting" => polls[p].tx \in DOMAIN chain
  /\ \A k \in DOMAIN watcher.todo : watcher.todo[k] \in DOMAIN chain

ShopInv ==
  /\ ShopTypes /\ ReadsExist
  /\ RestartReproduces
  /\ Sound(ledger, chain, uses, delivered)

\* What the page relies on: the order on display is one of the ledger, its claim
\* is kept, and what is shown of it is final.
PageKnows(l) ==
  /\ page.order # NoOrderId =>
       page.order \in stored /\ l.orders[page.order].status # "none"
  /\ page.creating # NoOrderId => l.orders[page.creating].status # "none"
  /\ page.status \in Decided =>
       /\ page.order # NoOrderId
       /\ page.status = l.orders[page.order].status
       /\ page.status = "fulfilled" => page.token

\* The request that is not cancelled asks for the order on display, with the claim.
PageAsks(ps) ==
  page.poll # NoPoll =>
    /\ page.order # NoOrderId
    /\ ps[page.poll].pc # "idle" /\ ps[page.poll].claim
    /\ ps[page.poll].order = page.order

PageInv == PageTypeOK /\ PageKnows(ledger) /\ PageAsks(polls)

-----------------------------------------------------------------------------
(* Replaying the one or two events of an operation *)

\* The last place is taken first.
LEMMA LastPlace == Max({1}) = 1 /\ Max({1, 2}) = 2
BY DEF Max

LEMMA ReplayOne ==
  ASSUME NEW l, NEW e
  PROVE  ReplayAll(l, <<e>>) = Replay(l, e)
<1> DEFINE Iter(g) == [s \in SUBSET (DOMAIN <<e>>) |->
                         IF s = {} THEN l ELSE Replay(g[s \ {Max(s)}], <<e>>[Max(s)])]
           rec == CHOOSE g : g = Iter(g)
           w == [s \in SUBSET {1} |-> IF s = {} THEN l ELSE Replay(l, e)]
<1>1. ReplayAll(l, <<e>>) = rec[DOMAIN <<e>>]
  BY DEF ReplayAll, FoldLeft, MapThenFoldSet
<1>2. DOMAIN <<e>> = {1} /\ <<e>>[1] = e
  OBVIOUS
<1>3. \A s \in SUBSET {1} : s = {} \/ s = {1}
  OBVIOUS
<1>4. \A g : Iter(g) = [s \in SUBSET {1} |-> IF s = {} THEN l ELSE Replay(g[{}], e)]
  <2> TAKE g
  <2>1. \A s \in SUBSET {1} :
          (IF s = {} THEN l ELSE Replay(g[s \ {Max(s)}], <<e>>[Max(s)]))
            = IF s = {} THEN l ELSE Replay(g[{}], e)
    <3> TAKE s \in SUBSET {1}
    <3>1. CASE s = {1}
      <4>1. s \ {Max(s)} = {}
        BY <3>1, LastPlace
      <4>2. QED
        BY <1>2, <3>1, <4>1, LastPlace
    <3>2. QED
      BY <1>3, <3>1
  <2>2. QED
    BY <1>2, <2>1
<1>5. w = [s \in SUBSET {1} |-> IF s = {} THEN l ELSE Replay(w[{}], e)]
  OBVIOUS
<1> HIDE DEF Iter, w
<1>6. w = Iter(w)
  BY <1>4, <1>5
<1>7. rec = Iter(rec)
  BY <1>6
<1> HIDE DEF rec
<1>8. rec[{}] = l /\ rec[{1}] = Replay(rec[{}], e)
  BY <1>4, <1>7
<1>9. QED
  BY <1>1, <1>2, <1>8

LEMMA ReplayTwo ==
  ASSUME NEW l, NEW e, NEW d
  PROVE  ReplayAll(l, <<e, d>>) = Replay(Replay(l, e), d)
<1> DEFINE P == SUBSET {1, 2}
           Iter(g) == [s \in SUBSET (DOMAIN <<e, d>>) |->
                         IF s = {} THEN l ELSE Replay(g[s \ {Max(s)}], <<e, d>>[Max(s)])]
           Short(g) == [s \in P |-> IF s = {} THEN l
                                    ELSE IF s = {1} THEN Replay(g[{}], e)
                                    ELSE IF s = {2} THEN Replay(g[{}], d)
                                    ELSE Replay(g[{1}], d)]
           rec == CHOOSE g : g = Iter(g)
           w == [s \in P |-> IF s = {} THEN l
                             ELSE IF s = {1} THEN Replay(l, e)
                             ELSE IF s = {2} THEN Replay(l, d)
                             ELSE Replay(Replay(l, e), d)]
<1>1. ReplayAll(l, <<e, d>>) = rec[DOMAIN <<e, d>>]
  BY DEF ReplayAll, FoldLeft, MapThenFoldSet
<1>2. DOMAIN <<e, d>> = {1, 2} /\ <<e, d>>[1] = e /\ <<e, d>>[2] = d
  OBVIOUS
<1>3. \A s \in P : s = {} \/ s = {1} \/ s = {2} \/ s = {1, 2}
  OBVIOUS
<1>4. Max({1}) = 1 /\ Max({2}) = 2 /\ Max({1, 2}) = 2
  BY DEF Max
<1>5. \A g : Iter(g) = Short(g)
  <2> TAKE g
  <2>1. ASSUME NEW s \in P
        PROVE  (IF s = {} THEN l ELSE Replay(g[s \ {Max(s)}], <<e, d>>[Max(s)]))
                 = IF s = {} THEN l
                   ELSE IF s = {1} THEN Replay(g[{}], e)
                   ELSE IF s = {2} THEN Replay(g[{}], d)
                   ELSE Replay(g[{1}], d)
    <3>1. CASE s = {}
      BY <3>1
    <3>2. CASE s = {1}
      <4>1. s \ {Max(s)} = {} /\ s # {}
        BY <1>4, <3>2
      <4>2. QED
        BY <1>2, <1>4, <3>2, <4>1
    <3>3. CASE s = {2}
      <4>1. s \ {Max(s)} = {} /\ s # {} /\ s # {1}
        BY <1>4, <3>3
      <4>2. QED
        BY <1>2, <1>4, <3>3, <4>1
    <3>4. CASE s = {1, 2}
      <4>1. s \ {Max(s)} = {1} /\ s # {} /\ s # {1} /\ s # {2}
        BY <1>4, <3>4
      <4>2. QED
        BY <1>2, <1>4, <3>4, <4>1
    <3>5. QED
      BY <1>3, <3>1, <3>2, <3>3, <3>4
  <2>2. QED
    BY <1>2, <2>1
<1>6. w = Short(w)
  <2>1. w[{}] = l /\ w[{1}] = Replay(l, e)
    OBVIOUS
  <2>2. QED
    BY <2>1
<1> HIDE DEF Iter, w
<1>7. w = Iter(w)
  BY <1>5, <1>6
<1>8. rec = Iter(rec)
  BY <1>7
<1> HIDE DEF rec
<1>9. rec = Short(rec)
  BY <1>5, <1>8
<1>10. rec[{}] = l
  BY <1>9
<1>11. rec[{1}] = Replay(rec[{}], e)
  BY <1>9
<1>12. rec[{1, 2}] = Replay(rec[{1}], d)
  <2>1. {1, 2} # {} /\ {1, 2} # {1} /\ {1, 2} # {2} /\ {1, 2} \in P
    OBVIOUS
  <2>2. QED
    BY <1>9, <2>1
<1>13. QED
  BY <1>1, <1>2, <1>10, <1>11, <1>12

\* An event makes of a ledger what the operation made of it.
LEMMA ReplayIsOperation ==
  ASSUME NEW l \in LedgerState, NEW o \in Orders, NEW a, NEW i
  PROVE  /\ Replay(l, OrderCreated(o, a)) = Created(l, o, a)
         /\ Replay(l, PaymentObserved(o, i)) = Paid(l, o, i)
         /\ Replay(l, RefundDue(o, i)) = RefundOwed(l, o, i)
         /\ Replay(l, OrderFulfilled(o)) = Granted(l, o)
         /\ Replay(l, DownloadRedeemed(o)) = Redeemed(l, o)
<1>1. Replay(l, OrderCreated(o, a)) = Created(l, o, a)
  BY DEF Replay, OrderCreated, Created, NoOrder
<1>2. Replay(l, PaymentObserved(o, i)) = Paid(l, o, i)
  BY DEF Replay, PaymentObserved, Paid, LedgerState, Order
<1>3. Replay(l, RefundDue(o, i)) = RefundOwed(l, o, i)
  BY DEF Replay, RefundDue, RefundOwed, LedgerState, Order
<1>4. Replay(l, OrderFulfilled(o)) = Granted(l, o)
  BY DEF Replay, OrderFulfilled, Granted
<1>5. Replay(l, DownloadRedeemed(o)) = Redeemed(l, o)
  BY DEF Replay, DownloadRedeemed, Redeemed
<1>6. QED
  BY <1>1, <1>2, <1>3, <1>4, <1>5

-----------------------------------------------------------------------------
(* What each operation makes of the orders *)

\* Ledger r has only the order o changed.
Others(l, r, o) ==
  r \in LedgerState /\ \A p \in Orders : p # o => r.orders[p] = l.orders[p]

LEMMA GrantedFields ==
  ASSUME NEW l \in LedgerState, NEW o \in Orders
  PROVE  /\ Others(l, Granted(l, o), o) /\ Granted(l, o).used = l.used
         /\ Granted(l, o).orders[o].status = "fulfilled"
         /\ Granted(l, o).orders[o].amount = l.orders[o].amount
         /\ Granted(l, o).orders[o].tx = l.orders[o].tx
         /\ Granted(l, o).orders[o].grant
BY DEF Others, Granted, LedgerState, Order, Statuses

LEMMA RedeemedFields ==
  ASSUME NEW l \in LedgerState, NEW o \in Orders
  PROVE  /\ Others(l, Redeemed(l, o), o) /\ Redeemed(l, o).used = l.used
         /\ Redeemed(l, o).orders[o].status = l.orders[o].status
         /\ Redeemed(l, o).orders[o].amount = l.orders[o].amount
         /\ Redeemed(l, o).orders[o].tx = l.orders[o].tx
         /\ ~Redeemed(l, o).orders[o].grant
BY DEF Others, Redeemed, LedgerState, Order, Statuses

LEMMA PaidFields ==
  ASSUME NEW l \in LedgerState, NEW o \in Orders, NEW i \in Nat
  PROVE  /\ Others(l, Paid(l, o, i), o) /\ Paid(l, o, i).used = l.used \cup {i}
         /\ Paid(l, o, i).orders[o].status = "paid"
         /\ Paid(l, o, i).orders[o].amount = l.orders[o].amount
         /\ Paid(l, o, i).orders[o].tx = i
         /\ Paid(l, o, i).orders[o].grant = l.orders[o].grant
<1> DEFINE r == Paid(l, o, i)
           new == [l.orders[o] EXCEPT !.status = "paid", !.tx = i]
<1>1. l.orders \in [Orders -> Order] /\ l.orders[o] \in Order /\ l.used \cup {i} \in SUBSET Nat
  BY DEF LedgerState
<1>2. r.used = l.used \cup {i}
  BY DEF Paid, LedgerState
<1>3. r.orders = [l.orders EXCEPT ![o] = new]
  BY <1>1 DEF Paid, LedgerState
<1>4. /\ new \in Order /\ new.status = "paid" /\ new.tx = i
      /\ new.amount = l.orders[o].amount /\ new.grant = l.orders[o].grant
  BY <1>1 DEF Order, Statuses
<1>5. r = [l EXCEPT !.used = r.used, !.orders = r.orders]
  BY DEF Paid, LedgerState
<1> HIDE DEF r, new
<1>6. r.orders \in [Orders -> Order] /\ r.orders[o] = new
      /\ \A p \in Orders : p # o => r.orders[p] = l.orders[p]
  BY <1>1, <1>3, <1>4
<1>7. r \in LedgerState
  BY <1>1, <1>2, <1>5, <1>6 DEF LedgerState
<1>8. QED
  BY <1>2, <1>4, <1>6, <1>7 DEF Others, r

LEMMA RefundFields ==
  ASSUME NEW l \in LedgerState, NEW o \in Orders, NEW i \in Nat
  PROVE  /\ Others(l, RefundOwed(l, o, i), o) /\ RefundOwed(l, o, i).used = l.used \cup {i}
         /\ RefundOwed(l, o, i).orders[o].status = "refund-due"
         /\ RefundOwed(l, o, i).orders[o].amount = l.orders[o].amount
         /\ RefundOwed(l, o, i).orders[o].tx = i
         /\ RefundOwed(l, o, i).orders[o].grant = l.orders[o].grant
<1> DEFINE r == RefundOwed(l, o, i)
           new == [l.orders[o] EXCEPT !.status = "refund-due", !.tx = i]
<1>1. l.orders \in [Orders -> Order] /\ l.orders[o] \in Order /\ l.used \cup {i} \in SUBSET Nat
  BY DEF LedgerState
<1>2. r.used = l.used \cup {i}
  BY DEF RefundOwed, LedgerState
<1>3. r.orders = [l.orders EXCEPT ![o] = new]
  BY <1>1 DEF RefundOwed, LedgerState
<1>4. /\ new \in Order /\ new.status = "refund-due" /\ new.tx = i
      /\ new.amount = l.orders[o].amount /\ new.grant = l.orders[o].grant
  BY <1>1 DEF Order, Statuses
<1>5. r = [l EXCEPT !.used = r.used, !.orders = r.orders]
  BY DEF RefundOwed, LedgerState
<1> HIDE DEF r, new
<1>6. r.orders \in [Orders -> Order] /\ r.orders[o] = new
      /\ \A p \in Orders : p # o => r.orders[p] = l.orders[p]
  BY <1>1, <1>3, <1>4
<1>7. r \in LedgerState
  BY <1>1, <1>2, <1>5, <1>6 DEF LedgerState
<1>8. QED
  BY <1>2, <1>4, <1>6, <1>7 DEF Others, r

LEMMA CreatedFields ==
  ASSUME NEW l \in LedgerState, NEW o \in Orders, NEW a \in Amounts
  PROVE  /\ Others(l, Created(l, o, a), o) /\ Created(l, o, a).used = l.used
         /\ Created(l, o, a).orders[o].status = "awaiting-payment"
         /\ Created(l, o, a).orders[o].amount = a
         /\ Created(l, o, a).orders[o].tx = 0
         /\ ~Created(l, o, a).orders[o].grant
BY DEF Others, Created, NoOrder, LedgerState, Order, Statuses

-----------------------------------------------------------------------------
(* Operations keep the ledger sound *)

\* The first clause of Sound, for one order.
SoundOrder(l, c, u, d, o) ==
  /\ l.orders[o].status # "none" => l.orders[o].amount \in Amounts
  /\ l.orders[o].status \in Decided <=> l.orders[o].tx # 0
  /\ l.orders[o].tx # 0 => l.orders[o].tx \in DOMAIN c \cap l.used
  /\ l.orders[o].status \in {"paid", "fulfilled"} =>
       c[l.orders[o].tx].amount = l.orders[o].amount
  /\ l.orders[o].grant => l.orders[o].status = "fulfilled" /\ u[o] = 0
  /\ u[o] <= 1
  /\ o \in d => l.orders[o].status = "fulfilled"

\* It is enough to look at the order that changed.
LEMMA SoundOneChanged ==
  ASSUME NEW l \in LedgerState, NEW r, NEW o \in Orders, NEW c, NEW u, NEW v, NEW d, NEW e,
         Sound(l, c, u, d), Others(l, r, o), l.used \subseteq r.used,
         \A p \in Orders : p # o => u[p] = v[p], e \ {o} \subseteq d,
         SoundOrder(r, c, v, e, o),
         r.orders[o].tx = l.orders[o].tx \/ r.orders[o].tx \notin l.used
  PROVE  Sound(r, c, v, e)
<1>1. \A p \in Orders : SoundOrder(l, c, u, d, p)
  BY DEF Sound, SoundOrder
<1>2. \A p \in Orders : SoundOrder(r, c, v, e, p)
  <2> TAKE p \in Orders
  <2>1. CASE p = o
    BY <2>1
  <2>2. CASE p # o
    <3>1. r.orders[p] = l.orders[p] /\ u[p] = v[p] /\ (p \in e => p \in d)
      BY <2>2 DEF Others
    <3>2. QED
      BY <1>1, <3>1 DEF SoundOrder
  <2>3. QED
    BY <2>1, <2>2
<1>3. \A p, q \in Orders : p # q /\ l.orders[p].tx # 0 => l.orders[p].tx # l.orders[q].tx
  BY DEF Sound
<1>4. \A p \in Orders : p # o => r.orders[p] = l.orders[p]
  BY DEF Others
<1>5. ASSUME NEW p \in Orders, NEW q \in Orders, p # q, r.orders[p].tx # 0
      PROVE  r.orders[p].tx # r.orders[q].tx
  <2>1. CASE p # o /\ q # o
    BY <1>3, <1>4, <1>5, <2>1
  <2>2. CASE r.orders[o].tx = l.orders[o].tx
    BY <1>3, <1>4, <1>5, <2>2
  <2>3. CASE r.orders[o].tx \notin l.used
    <3>1. \A n \in Orders : n # o /\ r.orders[n].tx # 0 => r.orders[n].tx \in l.used
      BY <1>1, <1>4 DEF SoundOrder
    <3>2. QED
      BY <1>3, <1>4, <1>5, <2>3, <3>1
  <2>4. QED
    BY <2>1, <2>2, <2>3
<1>6. QED
  BY <1>2, <1>5 DEF Sound, SoundOrder

LEMMA SoundCreated ==
  ASSUME NEW l \in LedgerState, NEW c, NEW u, NEW d, Sound(l, c, u, d),
         NEW o \in Orders, NEW a \in Amounts, l.orders[o] = NoOrder
  PROVE  Sound(Created(l, o, a), c, u, d)
<1> DEFINE r == Created(l, o, a)
<1>1. /\ Others(l, r, o) /\ r.used = l.used /\ r.orders[o].status = "awaiting-payment"
      /\ r.orders[o].amount = a /\ r.orders[o].tx = 0 /\ ~r.orders[o].grant
  BY CreatedFields
<1> HIDE DEF r
<1>2. l.orders[o].status = "none" /\ l.orders[o].tx = 0
  BY DEF NoOrder
<1>3. SoundOrder(l, c, u, d, o)
  BY DEF Sound, SoundOrder
<1>4. SoundOrder(r, c, u, d, o)
  BY <1>1, <1>2, <1>3 DEF SoundOrder, Decided
<1>5. QED
  BY <1>1, <1>2, <1>4, SoundOneChanged DEF r

\* A transaction that is not used yet decides an order that awaits payment.
LEMMA SoundDecided ==
  ASSUME NEW l \in LedgerState, NEW c \in Seq(Tx), NEW u, NEW d, Sound(l, c, u, d),
         NEW o \in Orders, NEW i \in DOMAIN c,
         i \notin l.used, l.orders[o].status = "awaiting-payment"
  PROVE  /\ Sound(RefundOwed(l, o, i), c, u, d)
         /\ c[i].amount = l.orders[o].amount => Sound(Paid(l, o, i), c, u, d)
<1>1. i \in Nat /\ i # 0
  OBVIOUS
<1>2. SoundOrder(l, c, u, d, o)
  BY DEF Sound, SoundOrder
<1>3. ASSUME NEW r, NEW st \in {"paid", "refund-due"},
             Others(l, r, o), r.used = l.used \cup {i}, r.orders[o].status = st,
             r.orders[o].amount = l.orders[o].amount, r.orders[o].tx = i,
             r.orders[o].grant = l.orders[o].grant,
             st = "paid" => c[i].amount = l.orders[o].amount
      PROVE  Sound(r, c, u, d)
  <2>1. ~l.orders[o].grant /\ l.orders[o].amount \in Amounts /\ o \notin d /\ u[o] <= 1
    BY <1>2 DEF SoundOrder
  <2>2. SoundOrder(r, c, u, d, o)
    BY <1>1, <1>3, <2>1 DEF SoundOrder, Decided
  <2>3. QED
    BY <1>1, <1>3, <2>2, SoundOneChanged
<1>4. Sound(RefundOwed(l, o, i), c, u, d)
  BY <1>1, <1>3, RefundFields
<1>5. c[i].amount = l.orders[o].amount => Sound(Paid(l, o, i), c, u, d)
  BY <1>1, <1>3, PaidFields
<1>6. QED
  BY <1>4, <1>5

\* A fresh grant: the count of its uses starts again.
LEMMA SoundGranted ==
  ASSUME NEW l \in LedgerState, NEW c, NEW u \in [Orders -> Nat], NEW d, Sound(l, c, u, d),
         NEW o \in Orders, l.orders[o].status \in {"paid", "fulfilled"}
  PROVE  Sound(Granted(l, o), c, [u EXCEPT ![o] = 0], d)
<1> DEFINE r == Granted(l, o)
           v == [u EXCEPT ![o] = 0]
<1>1. /\ Others(l, r, o) /\ r.used = l.used /\ r.orders[o].status = "fulfilled"
      /\ r.orders[o].amount = l.orders[o].amount /\ r.orders[o].tx = l.orders[o].tx
  BY GrantedFields
<1>2. v[o] = 0 /\ \A p \in Orders : p # o => v[p] = u[p]
  OBVIOUS
<1> HIDE DEF r, v
<1>3. SoundOrder(l, c, u, d, o)
  BY DEF Sound, SoundOrder
<1>4. SoundOrder(r, c, v, d, o)
  BY <1>1, <1>2, <1>3 DEF SoundOrder, Decided
<1>5. QED
  BY <1>1, <1>2, <1>4, SoundOneChanged DEF r, v

\* A redeemed grant is spent with its first use.
LEMMA SoundRedeemed ==
  ASSUME NEW l \in LedgerState, NEW c, NEW u \in [Orders -> Nat], NEW d, Sound(l, c, u, d),
         NEW o \in Orders, l.orders[o].grant, NEW e, e \ {o} \subseteq d
  PROVE  Sound(Redeemed(l, o), c, [u EXCEPT ![o] = @ + 1], e)
<1> DEFINE r == Redeemed(l, o)
           v == [u EXCEPT ![o] = @ + 1]
<1>1. /\ Others(l, r, o) /\ r.used = l.used /\ r.orders[o].status = l.orders[o].status
      /\ r.orders[o].amount = l.orders[o].amount /\ r.orders[o].tx = l.orders[o].tx
      /\ ~r.orders[o].grant
  BY RedeemedFields
<1>2. v[o] = u[o] + 1 /\ \A p \in Orders : p # o => v[p] = u[p]
  OBVIOUS
<1> HIDE DEF r, v
<1>3. SoundOrder(l, c, u, d, o)
  BY DEF Sound, SoundOrder
<1>4. SoundOrder(r, c, v, e, o)
  BY <1>1, <1>2, <1>3 DEF SoundOrder, Decided
<1>5. l.used \subseteq r.used
  BY <1>1
<1>6. Sound(r, c, v, e)
  BY <1>1, <1>2, <1>4, <1>5, SoundOneChanged
<1>7. QED
  BY <1>6 DEF r, v

\* A longer chain takes nothing back.
LEMMA SoundLonger ==
  ASSUME NEW l, NEW c \in Seq(Tx), NEW tx \in Tx, NEW u, NEW d, Sound(l, c, u, d)
  PROVE  Sound(l, Append(c, tx), u, d)
<1>1. \A i \in DOMAIN c : i \in DOMAIN Append(c, tx) /\ Append(c, tx)[i] = c[i]
  OBVIOUS
<1>2. \A o \in Orders : l.orders[o].status \in {"paid", "fulfilled"} =>
                          l.orders[o].tx \in DOMAIN c
  BY DEF Sound, Decided
<1> DEFINE k == Append(c, tx)
<1> HIDE DEF k
<1>3. \A i \in DOMAIN c : i \in DOMAIN k /\ k[i] = c[i]
  BY <1>1 DEF k
<1>4. Sound(l, k, u, d)
  BY <1>2, <1>3 DEF Sound
<1>5. QED
  BY <1>4 DEF k

-----------------------------------------------------------------------------
(* Steps of the shop *)

\* No order goes away, and what is decided of one is final.
GoesOn(l, r) ==
  \A o \in Orders :
    /\ l.orders[o].status # "none" => r.orders[o].status # "none"
    /\ l.orders[o].status \in Decided => r.orders[o].status = l.orders[o].status

LEMMA GoesOnOneChanged ==
  ASSUME NEW l, NEW r, NEW o \in Orders, Others(l, r, o),
         r.orders[o].status # "none",
         l.orders[o].status \in Decided => r.orders[o].status = l.orders[o].status
  PROVE  GoesOn(l, r)
BY DEF Others, GoesOn

\* What a step must show of the ledger.
LedgerStep ==
  /\ ledger' \in LedgerState /\ RestartReproduces'
  /\ Sound(ledger', chain', uses', delivered')
  /\ GoesOn(ledger, ledger')
  /\ uses' \in [Orders -> Nat] /\ held' \subseteq Orders /\ over' \subseteq Orders
  /\ delivered' \subseteq Orders

\* The ledger is not touched, and the chain is at most longer.
LEMMA LedgerStands ==
  ASSUME ShopInv, UNCHANGED <<ledger, disk, uses, delivered>>,
         held' \subseteq Orders, over' \subseteq Orders,
         \/ chain' = chain
         \/ \E tx \in Tx : chain' = Append(chain, tx)
  PROVE  LedgerStep
<1>1. /\ ledger' = ledger /\ disk' = disk /\ uses' = uses /\ delivered' = delivered
      /\ ledger \in LedgerState /\ ledger = disk /\ chain \in Seq(Tx)
      /\ uses \in [Orders -> Nat] /\ delivered \subseteq Orders
      /\ Sound(ledger, chain, uses, delivered)
  BY DEF ShopInv, ShopTypes, RestartReproduces
<1>2. Sound(ledger, chain', uses, delivered)
  <2>1. CASE chain' = chain
    BY <1>1, <2>1
  <2>2. CASE \E tx \in Tx : chain' = Append(chain, tx)
    BY <1>1, <2>2, SoundLonger
  <2>3. QED
    BY <2>1, <2>2
<1>3. GoesOn(ledger, ledger')
  BY <1>1 DEF GoesOn
<1>4. RestartReproduces'
  BY <1>1 DEF RestartReproduces
<1>5. QED
  BY <1>1, <1>2, <1>3, <1>4 DEF LedgerStep

\* A credit in its four outcomes, for the status route and for the watcher.
LEMMA CreditStep ==
  ASSUME ShopInv, NEW o \in Orders, NEW i \in DOMAIN chain, Credit(o, i), chain' = chain
  PROVE  LedgerStep
<1>1. /\ ledger \in LedgerState /\ disk = ledger /\ chain \in Seq(Tx) /\ i \in Nat
      /\ uses \in [Orders -> Nat] /\ held \subseteq Orders /\ over \subseteq Orders
      /\ delivered \subseteq Orders
      /\ Sound(ledger, chain, uses, delivered)
  BY DEF ShopInv, ShopTypes, RestartReproduces
<1>2. CASE Ignored(o, i) /\ UNCHANGED <<ledger, disk, over, clients>>
  BY <1>1, <1>2, LedgerStands DEF clients
<1>3. ASSUME ~Ignored(o, i)
      PROVE  i \notin ledger.used /\ ledger.orders[o].status = "awaiting-payment"
  BY <1>3 DEF Ignored, Awaiting
<1>4. ASSUME ~Ignored(o, i), Commit(RefundOwed(ledger, o, i), <<RefundDue(o, i)>>),
             UNCHANGED <<over, clients>>
      PROVE  LedgerStep
  <2>1. ledger' = RefundOwed(ledger, o, i) /\ disk' = RefundOwed(ledger, o, i)
    BY <1>1, <1>4, ReplayOne, ReplayIsOperation DEF Commit
  <2>2. Others(ledger, ledger', o) /\ ledger'.orders[o].status = "refund-due"
    BY <1>1, <2>1, RefundFields
  <2>3. Sound(ledger', chain, uses, delivered)
    BY <1>1, <1>3, <1>4, <2>1, SoundDecided
  <2>4. GoesOn(ledger, ledger')
    BY <1>3, <1>4, <2>2, GoesOnOneChanged DEF Decided
  <2>5. QED
    BY <1>1, <1>4, <2>1, <2>2, <2>3, <2>4 DEF LedgerStep, RestartReproduces, Others, clients
<1>5. ASSUME Accepted(o, i)
      PROVE  /\ ~Ignored(o, i) /\ chain[i].amount = ledger.orders[o].amount
             /\ Others(ledger, Paid(ledger, o, i), o)
             /\ Paid(ledger, o, i).orders[o].status = "paid"
             /\ Sound(Paid(ledger, o, i), chain, uses, delivered)
  <2>1. ~Ignored(o, i) /\ chain[i].amount = ledger.orders[o].amount
    BY <1>5 DEF Accepted, Refused
  <2>2. QED
    BY <1>1, <1>3, <2>1, SoundDecided, PaidFields
<1>6. ASSUME Accepted(o, i), Commit(Paid(ledger, o, i), <<PaymentObserved(o, i)>>),
             UNCHANGED <<over, clients>>
      PROVE  LedgerStep
  <2>1. ledger' = Paid(ledger, o, i) /\ disk' = Paid(ledger, o, i)
    BY <1>1, <1>6, ReplayOne, ReplayIsOperation DEF Commit
  <2>2. GoesOn(ledger, ledger')
    BY <1>3, <1>5, <1>6, <2>1, GoesOnOneChanged DEF Decided
  <2>3. QED
    BY <1>1, <1>5, <1>6, <2>1, <2>2 DEF LedgerStep, RestartReproduces, Others, clients
<1>7. ASSUME Accepted(o, i),
             Commit(Granted(Paid(ledger, o, i), o), <<PaymentObserved(o, i), OrderFulfilled(o)>>),
             Issue(o)
      PROVE  LedgerStep
  <2> DEFINE l == Paid(ledger, o, i)
  <2>1. l \in LedgerState /\ Others(ledger, l, o) /\ l.orders[o].status = "paid"
        /\ Sound(l, chain, uses, delivered)
    BY <1>5, <1>7 DEF Others
  <2>2. ledger' = Granted(l, o) /\ disk' = Granted(l, o)
    BY <1>1, <1>7, <2>1, ReplayTwo, ReplayIsOperation DEF Commit
  <2> HIDE DEF l
  <2>3. /\ Others(l, ledger', o) /\ ledger'.orders[o].status = "fulfilled"
    BY <2>1, <2>2, GrantedFields
  <2>4. uses' = [uses EXCEPT ![o] = 0] /\ delivered' = delivered
        /\ held' \subseteq Orders /\ over' \subseteq Orders
    BY <1>1, <1>7 DEF Issue
  <2>5. Sound(ledger', chain, uses', delivered')
    BY <1>1, <2>1, <2>2, <2>4, SoundGranted
  <2>6. GoesOn(ledger, ledger')
    BY <1>3, <1>5, <1>7, <2>1, <2>3, GoesOnOneChanged DEF Others, Decided
  <2>7. QED
    BY <1>1, <2>2, <2>3, <2>4, <2>5, <2>6 DEF LedgerStep, RestartReproduces, Others
<1>8. QED
  BY <1>2, <1>4, <1>6, <1>7 DEF Credit

\* What Grants(o, i) does to the tokens on their way leaves the rest of the
\* requests alone.
LEMMA WithoutTokenFields ==
  ASSUME polls \in [Polls -> Poll], NEW o
  PROVE  /\ WithoutToken(o) \in [Polls -> Poll]
         /\ \A p \in Polls :
              /\ WithoutToken(o)[p].pc = polls[p].pc
              /\ WithoutToken(o)[p].order = polls[p].order
              /\ WithoutToken(o)[p].claim = polls[p].claim
              /\ WithoutToken(o)[p].tx = polls[p].tx
BY DEF WithoutToken, Poll

\* How the requests may change: pc, order, claim and transaction of each.
PollsKept ==
  /\ polls' \in [Polls -> Poll]
  /\ \A p \in Polls :
       /\ polls'[p].pc \in {"idle", "answering", polls[p].pc}
       /\ polls'[p].pc # "idle" /\ polls[p].pc # "idle" =>
            polls'[p].order = polls[p].order /\ polls'[p].claim = polls[p].claim
       /\ polls'[p].pc = "crediting" => polls'[p].tx = polls[p].tx
       /\ polls'[p].pc # "idle" => polls[p].pc # "idle"

\* A step that begins no request and no scan.
LEMMA ServedStep ==
  ASSUME ShopInv, LedgerStep, PollsKept, late' \subseteq Orders,
         \/ chain' = chain
         \/ Len(chain) < MaxTxs /\ \E tx \in Tx : chain' = Append(chain, tx),
         watcher' \in Watcher,
         \A k \in DOMAIN watcher'.todo : \E n \in DOMAIN watcher.todo :
           watcher'.todo[k] = watcher.todo[n],
         crashes' \in 0..MaxCrashes
  PROVE  ShopInv'
<1>1. chain \in Seq(Tx) /\ Len(chain) <= MaxTxs
  BY DEF ShopInv, ShopTypes
<1>2. /\ chain' \in Seq(Tx) /\ Len(chain') <= MaxTxs
      /\ \A i \in DOMAIN chain : i \in DOMAIN chain'
  BY <1>1, ShopAssumption
<1>3. ShopTypes'
  BY <1>2 DEF ShopTypes, LedgerStep, PollsKept
<1>4. ReadsExist'
  <2>1. \A p \in Polls : /\ polls[p].pc # "idle" => polls[p].order \in Orders
                         /\ polls[p].pc = "crediting" => polls[p].tx \in DOMAIN chain
    BY DEF ShopInv, ReadsExist
  <2>2. ASSUME NEW p \in Polls
        PROVE  /\ polls'[p].pc # "idle" => polls'[p].order \in Orders
               /\ polls'[p].pc = "crediting" => polls'[p].tx \in DOMAIN chain'
    BY <1>2, <2>1 DEF PollsKept
  <2>3. \A k \in DOMAIN watcher'.todo : watcher'.todo[k] \in DOMAIN chain'
    BY <1>2 DEF ShopInv, ReadsExist
  <2>4. QED
    BY <2>2, <2>3 DEF ReadsExist
<1>5. QED
  BY <1>3, <1>4 DEF ShopInv, LedgerStep

LEMMA ShopFields ==
  ASSUME ShopInv
  PROVE  /\ ledger \in LedgerState /\ disk = ledger /\ chain \in Seq(Tx) /\ Len(chain) \in 0..MaxTxs
         /\ late \subseteq Orders /\ over \subseteq Orders
         /\ polls \in [Polls -> Poll] /\ watcher \in Watcher
         /\ held \subseteq Orders /\ uses \in [Orders -> Nat] /\ delivered \subseteq Orders
         /\ crashes \in 0..MaxCrashes
         /\ Sound(ledger, chain, uses, delivered)
         /\ \A p \in Polls :
              /\ polls[p].pc # "idle" => polls[p].order \in Orders
              /\ polls[p].pc = "crediting" => polls[p].tx \in DOMAIN chain
         /\ \A k \in DOMAIN watcher.todo : watcher.todo[k] \in DOMAIN chain
BY ShopAssumption DEF ShopInv, ShopTypes, ReadsExist, RestartReproduces

\* Nothing is served.
LEMMA PollsStand ==
  ASSUME ShopInv, polls' = polls
  PROVE  PollsKept
BY ShopFields DEF PollsKept

LEMMA StepCreateOrder ==
  ASSUME ShopInv, NEW o \in Orders, NEW amount \in Amounts, CreateOrder(o, amount)
  PROVE  ShopInv' /\ GoesOn(ledger, ledger')
<1>1. /\ ledger.orders[o] = NoOrder
      /\ Commit(Created(ledger, o, amount), <<OrderCreated(o, amount)>>)
      /\ UNCHANGED <<chain, late, over, polls, watcher, held, uses, delivered, crashes>>
  BY DEF CreateOrder, clients
<1>2. ledger' = Created(ledger, o, amount) /\ disk' = Created(ledger, o, amount)
  BY <1>1, ShopFields, ReplayOne, ReplayIsOperation DEF Commit
<1>3. Others(ledger, ledger', o) /\ ledger'.orders[o].status = "awaiting-payment"
  BY <1>2, ShopFields, CreatedFields
<1>4. Sound(ledger', chain, uses, delivered)
  BY <1>1, <1>2, ShopFields, SoundCreated
<1>5. GoesOn(ledger, ledger')
  BY <1>1, <1>3, GoesOnOneChanged DEF NoOrder, Decided
<1>6. LedgerStep
  BY <1>1, <1>2, <1>3, <1>4, <1>5, ShopFields DEF LedgerStep, Others, RestartReproduces
<1>7. QED
  BY <1>1, <1>5, <1>6, ShopFields, PollsStand, ServedStep

\* A request that begins.
LEMMA StepFind ==
  ASSUME ShopInv, NEW p \in Polls, NEW o \in Orders, NEW claim \in BOOLEAN,
         FindPayment(p, o, claim) \/ FindNothing(p, o, claim)
  PROVE  /\ ShopInv' /\ GoesOn(ledger, ledger')
         /\ polls[p].pc = "idle" /\ polls'[p].pc # "idle"
         /\ polls'[p].order = o /\ polls'[p].claim = claim
         /\ \A q \in Polls : q # p => polls'[q] = polls[q]
<1>1. /\ UNCHANGED <<ledger, disk, chain, late, over, watcher, held, uses, delivered, crashes>>
      /\ polls[p].pc = "idle"
  BY DEF FindPayment, FindNothing, clients
<1>2. PICK pc \in {"crediting", "answering"}, i \in Nat :
        /\ pc = "crediting" => i \in DOMAIN chain
        /\ polls' = [polls EXCEPT ![p] = PollOf(pc, o, claim, i)]
  <2>1. CASE FindPayment(p, o, claim)
    <3>1. PICK i \in PaymentsOf(o) :
            polls' = [polls EXCEPT ![p] = PollOf("crediting", o, claim, i)]
      BY <2>1 DEF FindPayment
    <3>2. i \in DOMAIN chain /\ i \in Nat
      BY <3>1, ShopFields DEF PaymentsOf
    <3>3. QED
      BY <3>1, <3>2
  <2>2. CASE FindNothing(p, o, claim)
    BY <2>2 DEF FindNothing
  <2>3. QED
    BY <2>1, <2>2
<1> DEFINE new == PollOf(pc, o, claim, i)
<1>3. /\ new \in Poll /\ new.pc = pc /\ new.order = o /\ new.claim = claim /\ new.tx = i
  BY DEF PollOf, Poll
<1> HIDE DEF new
<1>4. /\ polls' \in [Polls -> Poll] /\ polls'[p] = new
      /\ \A q \in Polls : q # p => polls'[q] = polls[q]
  BY <1>2, <1>3, ShopFields DEF new
<1>5. ShopTypes'
  BY <1>1, <1>4 DEF ShopInv, ShopTypes
<1>6. ReadsExist'
  BY <1>1, <1>2, <1>3, <1>4 DEF ShopInv, ReadsExist
<1>7. LedgerStep
  BY <1>1, ShopFields, LedgerStands
<1>8. QED
  BY <1>1, <1>3, <1>4, <1>5, <1>6, <1>7 DEF ShopInv, LedgerStep

LEMMA StepCreditPoll ==
  ASSUME ShopInv, NEW p \in Polls, CreditPoll(p)
  PROVE  ShopInv' /\ GoesOn(ledger, ledger') /\ PollsKept /\ polls'[p].pc # "idle"
         /\ \A q \in Polls : polls'[q].pc = "idle" => polls[q].pc = "idle"
<1> DEFINE o == polls[p].order
           i == polls[p].tx
           base == IF Grants(o, i) THEN WithoutToken(o) ELSE polls
           token == IF Grants(o, i) /\ polls[p].claim THEN "current" ELSE "none"
<1>1. /\ polls[p].pc = "crediting" /\ Credit(o, i)
      /\ polls' = [base EXCEPT ![p].pc = "answering", ![p].token = token]
      /\ UNCHANGED <<chain, late, watcher, crashes>>
  BY DEF CreditPoll
<1>2. o \in Orders /\ i \in DOMAIN chain
  BY <1>1, ShopFields
<1>3. LedgerStep
  BY <1>1, <1>2, CreditStep
<1>4. /\ base \in [Polls -> Poll]
      /\ \A q \in Polls : /\ base[q].pc = polls[q].pc /\ base[q].order = polls[q].order
                          /\ base[q].claim = polls[q].claim /\ base[q].tx = polls[q].tx
  BY ShopFields, WithoutTokenFields
<1>5. token \in {"none", "current", "stale"}
  OBVIOUS
<1> HIDE DEF base, token
<1>6. /\ polls' \in [Polls -> Poll]
      /\ polls'[p].pc = "answering" /\ polls'[p].order = base[p].order
      /\ polls'[p].claim = base[p].claim
      /\ \A q \in Polls : q # p => polls'[q] = base[q]
  <2> DEFINE new == [base[p] EXCEPT !.pc = "answering", !.token = token]
  <2>1. new \in Poll /\ new.pc = "answering" /\ new.order = base[p].order
        /\ new.claim = base[p].claim
    BY <1>4, <1>5 DEF Poll
  <2>2. polls' = [base EXCEPT ![p] = new]
    BY <1>1, <1>4
  <2> HIDE DEF new
  <2>3. QED
    BY <1>4, <2>1, <2>2
<1>7. PollsKept
  BY <1>1, <1>4, <1>6 DEF PollsKept
<1>8. \A q \in Polls : polls'[q].pc = "idle" => polls[q].pc = "idle"
  BY <1>4, <1>6
<1>9. ShopInv'
  BY <1>1, <1>3, <1>7, ShopFields, ServedStep
<1>10. QED
  BY <1>3, <1>6, <1>7, <1>8, <1>9 DEF LedgerStep

LEMMA StepAnswer ==
  ASSUME ShopInv, NEW p \in Polls, Answer(p)
  PROVE  /\ ShopInv' /\ GoesOn(ledger, ledger') /\ PollsKept /\ polls[p].pc = "answering"
         /\ \A q \in Polls : q # p /\ polls'[q].pc = "idle" => polls[q].pc = "idle"
         /\ polls'[p].pc = "idle" =>
              /\ ledger' = ledger
              /\ ~(polls[p].claim /\ polls[p].token = "none"
                   /\ ledger.orders[polls[p].order].status = "fulfilled")
<1> DEFINE o == polls[p].order
           reissue == polls[p].claim /\ polls[p].token = "none" /\ ledger.orders[o].status = "fulfilled"
<1>1. /\ polls[p].pc = "answering" /\ UNCHANGED <<chain, late, watcher, crashes>>
  BY DEF Answer
<1>2. o \in Orders
  BY <1>1, ShopFields
<1>3. CASE /\ reissue
           /\ Commit(Granted(ledger, o), <<OrderFulfilled(o)>>)
           /\ Issue(o)
           /\ polls' = [WithoutToken(o) EXCEPT ![p].token = "current"]
  <2> DEFINE base == WithoutToken(o)
  <2>1. /\ base \in [Polls -> Poll]
        /\ \A q \in Polls : /\ base[q].pc = polls[q].pc /\ base[q].order = polls[q].order
                            /\ base[q].claim = polls[q].claim /\ base[q].tx = polls[q].tx
    BY ShopFields, WithoutTokenFields
  <2>2. polls' = [base EXCEPT ![p].token = "current"]
    BY <1>3
  <2> HIDE DEF base
  <2>3. /\ polls' \in [Polls -> Poll]
        /\ \A q \in Polls : /\ polls'[q].pc = base[q].pc /\ polls'[q].order = base[q].order
                            /\ polls'[q].claim = base[q].claim /\ polls'[q].tx = base[q].tx
    BY <2>1, <2>2 DEF Poll
  <2>4. PollsKept
    BY <2>1, <2>3 DEF PollsKept
  <2>5. ledger' = Granted(ledger, o) /\ disk' = Granted(ledger, o)
    <3>1. ReplayAll(ledger, <<OrderFulfilled(o)>>) = Granted(ledger, o)
      BY <1>2, ShopFields, ReplayOne, ReplayIsOperation
    <3>2. QED
      BY <1>3, <3>1, ShopFields DEF Commit
  <2>6. Others(ledger, ledger', o) /\ ledger'.orders[o].status = "fulfilled"
    BY <1>2, <2>5, ShopFields, GrantedFields
  <2>7. uses' = [uses EXCEPT ![o] = 0] /\ delivered' = delivered
        /\ held' \subseteq Orders /\ over' \subseteq Orders
    BY <1>3, ShopFields DEF Issue
  <2>8. Sound(ledger', chain, uses', delivered')
    BY <1>2, <1>3, <2>5, <2>7, ShopFields, SoundGranted
  <2>9. GoesOn(ledger, ledger')
    BY <1>2, <1>3, <2>6, GoesOnOneChanged
  <2>10. uses' \in [Orders -> Nat]
    BY <2>7, ShopFields
  <2>11. LedgerStep
    BY <1>1, <2>5, <2>6, <2>7, <2>8, <2>9, <2>10, ShopFields
    DEF LedgerStep, RestartReproduces, Others
  <2>12. ShopInv'
    BY <1>1, <2>4, <2>11, ShopFields, ServedStep
  <2>13. QED
    BY <1>1, <2>1, <2>3, <2>4, <2>9, <2>12
<1>4. CASE /\ ~reissue
           /\ polls' = [polls EXCEPT ![p] = IdlePoll]
           /\ held' = HeldAfter(p)
           /\ UNCHANGED <<ledger, disk, over, uses, delivered>>
  <2>1. IdlePoll \in Poll /\ IdlePoll.pc = "idle"
    BY DEF IdlePoll, Poll
  <2>2. /\ polls' \in [Polls -> Poll] /\ polls'[p].pc = "idle"
        /\ \A q \in Polls : q # p => polls'[q] = polls[q]
    BY <1>4, <2>1, ShopFields
  <2>3. PollsKept
    BY <2>2 DEF PollsKept
  <2>4. held' \subseteq Orders
    BY <1>2, <1>4, ShopFields DEF HeldAfter
  <2>5. LedgerStep
    BY <1>1, <1>4, <2>4, ShopFields, LedgerStands
  <2>6. ShopInv'
    BY <1>1, <2>3, <2>5, ShopFields, ServedStep
  <2>7. QED
    BY <1>1, <1>4, <2>2, <2>3, <2>5, <2>6 DEF LedgerStep
<1>5. QED
  BY <1>3, <1>4 DEF Answer

LEMMA StepDownload ==
  ASSUME ShopInv, NEW o \in Orders, Download(o)
  PROVE  ShopInv' /\ GoesOn(ledger, ledger') /\ polls' = polls
<1>1. /\ ledger.orders[o].grant
      /\ Commit(Redeemed(ledger, o), <<DownloadRedeemed(o)>>)
      /\ uses' = [uses EXCEPT ![o] = @ + 1]
      /\ delivered' \in {delivered, delivered \cup {o}}
      /\ UNCHANGED <<chain, late, over, polls, watcher, held, crashes>>
  BY DEF Download, Redeemable
<1>2. ledger' = Redeemed(ledger, o) /\ disk' = Redeemed(ledger, o)
  <2>1. ReplayAll(ledger, <<DownloadRedeemed(o)>>) = Redeemed(ledger, o)
    BY ShopFields, ReplayOne, ReplayIsOperation
  <2>2. QED
    BY <1>1, <2>1, ShopFields DEF Commit
<1>3. Others(ledger, ledger', o) /\ ledger'.orders[o].status = ledger.orders[o].status
  BY <1>2, ShopFields, RedeemedFields
<1>4. Sound(ledger', chain, uses', delivered')
  <2>1. delivered' \ {o} \subseteq delivered
    BY <1>1
  <2>2. Sound(Redeemed(ledger, o), chain, [uses EXCEPT ![o] = @ + 1], delivered')
    BY <1>1, <2>1, ShopFields, SoundRedeemed
  <2>3. uses' = [uses EXCEPT ![o] = @ + 1]
    BY <1>1
  <2>4. QED
    BY <1>2, <2>2, <2>3
<1>5. ledger.orders[o].status = "fulfilled"
  BY <1>1, ShopFields DEF Sound
<1>6. GoesOn(ledger, ledger')
  BY <1>3, <1>5, GoesOnOneChanged
<1>7. uses' \in [Orders -> Nat] /\ delivered' \subseteq Orders
  BY <1>1, ShopFields
<1>8. LedgerStep
  BY <1>1, <1>2, <1>3, <1>4, <1>6, <1>7, ShopFields DEF LedgerStep, Others, RestartReproduces
<1>9. QED
  BY <1>1, <1>6, <1>8, ShopFields, PollsStand, ServedStep

\* The smaller of two numbers.
LEMMA MinOfTwo ==
  ASSUME NEW a \in Nat, NEW b \in Nat
  PROVE  Min({a, b}) \in Nat /\ Min({a, b}) <= a /\ Min({a, b}) <= b
<1>1. \E x \in {a, b} : \A y \in {a, b} : x <= y
  <2>1. CASE a <= b
    BY <2>1
  <2>2. CASE b <= a
    BY <2>2
  <2>3. QED
    BY <2>1, <2>2
<1>2. Min({a, b}) \in {a, b} /\ \A y \in {a, b} : Min({a, b}) <= y
  BY <1>1 DEF Min
<1>3. QED
  BY <1>2

LEMMA StepStartScan ==
  ASSUME ShopInv, StartScan
  PROVE  ShopInv' /\ GoesOn(ledger, ledger') /\ polls' = polls
<1>1. /\ UNCHANGED <<ledger, disk, chain, late, over, polls, held, uses, delivered, crashes>>
      /\ watcher' = [IdleWatcher EXCEPT !.open = {o \in Orders : Open(o)}]
  BY DEF StartScan, clients
<1>2. LedgerStep
  BY <1>1, ShopFields, LedgerStands
<1>3. watcher' \in Watcher /\ watcher'.todo = <<>>
  <2>1. watcher' = [open |-> {o \in Orders : Open(o)}, listed |-> FALSE, todo |-> <<>>]
    BY <1>1 DEF IdleWatcher
  <2>2. <<>> \in Seq(Nat) /\ {o \in Orders : Open(o)} \in SUBSET Orders
    OBVIOUS
  <2>3. QED
    BY <2>1, <2>2 DEF Watcher
<1>4. ShopTypes'
  BY <1>1, <1>3 DEF ShopInv, ShopTypes
<1>5. ReadsExist'
  BY <1>1, <1>3 DEF ShopInv, ReadsExist
<1>6. QED
  BY <1>1, <1>2, <1>4, <1>5 DEF ShopInv, LedgerStep

LEMMA StepListSignatures ==
  ASSUME ShopInv, ListSignatures
  PROVE  ShopInv' /\ GoesOn(ledger, ledger') /\ polls' = polls
<1>1. /\ UNCHANGED <<ledger, disk, chain, late, over, polls, held, uses, delivered, crashes>>
      /\ watcher' = [watcher EXCEPT !.listed = TRUE, !.todo = Newest]
  BY DEF ListSignatures, clients
<1>2. LedgerStep
  BY <1>1, ShopFields, LedgerStands
<1> DEFINE m == Min({ScanLimit, Len(chain)})
<1>3. m \in Nat /\ m <= Len(chain) /\ Len(chain) \in Nat /\ chain \in Seq(Tx)
  <2>1. Len(chain) \in Nat /\ ScanLimit \in Nat /\ chain \in Seq(Tx)
    BY ShopFields, ShopAssumption
  <2>2. QED
    BY <2>1, MinOfTwo
<1>4. Newest = [i \in 1..m |-> Len(chain) + 1 - i]
  BY DEF Newest
<1> HIDE DEF m
<1>5. /\ Newest \in Seq(Nat)
      /\ \A k \in DOMAIN Newest : Newest[k] \in DOMAIN chain
  BY <1>3, <1>4
<1>6. watcher' \in Watcher /\ watcher'.todo = Newest
  BY <1>1, <1>5, ShopFields DEF Watcher
<1>7. ShopTypes'
  BY <1>1, <1>6 DEF ShopInv, ShopTypes
<1>8. ReadsExist'
  BY <1>1, <1>5, <1>6 DEF ShopInv, ReadsExist
<1>9. QED
  BY <1>1, <1>2, <1>7, <1>8 DEF ShopInv, LedgerStep

\* What is left of a list lies in the list.
LEMMA RestOfList ==
  ASSUME NEW s \in Seq(Nat), s # <<>>
  PROVE  /\ Tail(s) \in Seq(Nat) /\ Head(s) = s[1] /\ 1 \in DOMAIN s
         /\ \A k \in DOMAIN Tail(s) : \E n \in DOMAIN s : Tail(s)[k] = s[n]
<1>1. \A k \in DOMAIN Tail(s) : k + 1 \in DOMAIN s /\ Tail(s)[k] = s[k + 1]
  OBVIOUS
<1>2. QED
  BY <1>1

LEMMA StepInspect ==
  ASSUME ShopInv, Inspect
  PROVE  /\ ShopInv' /\ GoesOn(ledger, ledger') /\ PollsKept
         /\ \A q \in Polls : polls'[q].pc = "idle" => polls[q].pc = "idle"
<1> DEFINE i == Head(watcher.todo)
<1>1. watcher.todo # <<>> /\ UNCHANGED <<chain, late, crashes>>
  BY DEF Inspect
<1>2. /\ watcher \in Watcher /\ watcher.open \in SUBSET Orders /\ watcher.todo \in Seq(Nat)
      /\ polls \in [Polls -> Poll]
  BY ShopFields DEF Watcher
<1>3. /\ Tail(watcher.todo) \in Seq(Nat) /\ i \in DOMAIN chain
      /\ \A k \in DOMAIN Tail(watcher.todo) :
           \E n \in DOMAIN watcher.todo : Tail(watcher.todo)[k] = watcher.todo[n]
  BY <1>1, <1>2, ShopFields, RestOfList
<1> HIDE DEF i
<1>4. CASE /\ watcher' = [watcher EXCEPT !.todo = Tail(@)]
           /\ UNCHANGED <<ledger, disk, over, polls, clients>>
  <2>1. watcher' \in Watcher /\ watcher'.todo = Tail(watcher.todo)
    BY <1>2, <1>3, <1>4 DEF Watcher
  <2>2. LedgerStep
    BY <1>1, <1>4, ShopFields, LedgerStands DEF clients
  <2>3. PollsKept
    BY <1>4, PollsStand
  <2>4. ShopInv'
    BY <1>1, <1>3, <2>1, <2>2, <2>3, ShopFields, ServedStep
  <2>5. QED
    BY <1>4, <2>2, <2>3, <2>4 DEF LedgerStep
<1>5. ASSUME NEW o \in watcher.open, Credit(o, i),
             polls' = IF Grants(o, i) THEN WithoutToken(o) ELSE polls,
             watcher' = [watcher EXCEPT !.open = IF Accepted(o, i) THEN @ \ {o} ELSE @,
                                        !.todo = Tail(@)]
      PROVE  /\ ShopInv' /\ GoesOn(ledger, ledger') /\ PollsKept
             /\ \A q \in Polls : polls'[q].pc = "idle" => polls[q].pc = "idle"
  <2>1. o \in Orders
    BY <1>2
  <2>2. LedgerStep
    BY <1>1, <1>3, <1>5, <2>1, CreditStep
  <2>3. watcher' \in Watcher /\ watcher'.todo = Tail(watcher.todo)
    BY <1>2, <1>3, <1>5 DEF Watcher
  <2>4. /\ polls' \in [Polls -> Poll]
        /\ \A q \in Polls : /\ polls'[q].pc = polls[q].pc /\ polls'[q].order = polls[q].order
                            /\ polls'[q].claim = polls[q].claim /\ polls'[q].tx = polls[q].tx
    BY <1>2, <1>5, WithoutTokenFields
  <2>5. PollsKept
    BY <2>4 DEF PollsKept
  <2>6. ShopInv'
    BY <1>1, <1>3, <2>2, <2>3, <2>5, ShopFields, ServedStep
  <2>7. QED
    BY <2>2, <2>4, <2>5, <2>6 DEF LedgerStep
<1>6. QED
  BY <1>4, <1>5 DEF Inspect, Matches, i

LEMMA StepTransfer ==
  ASSUME ShopInv, NEW tx \in Tx, Transfer(tx)
  PROVE  ShopInv' /\ GoesOn(ledger, ledger') /\ polls' = polls
<1>1. /\ Len(chain) < MaxTxs /\ chain' = Append(chain, tx)
      /\ UNCHANGED <<ledger, disk, late, over, polls, watcher, held, uses, delivered, crashes>>
  BY DEF Transfer, clients
<1>2. LedgerStep
  BY <1>1, ShopFields, LedgerStands
<1>3. ShopInv'
  BY <1>1, <1>2, ShopFields, PollsStand, ServedStep
<1>4. QED
  BY <1>1, <1>2, <1>3 DEF LedgerStep

\* Steps that touch neither ledger nor chain: the end of a scan, deadlines, and
\* what becomes of a token.
LEMMA StepQuiet ==
  ASSUME ShopInv, UNCHANGED <<ledger, disk, chain, polls, uses, delivered, crashes>>,
         late' \subseteq Orders, over' \subseteq Orders, held' \subseteq Orders,
         watcher' \in {watcher, IdleWatcher}
  PROVE  ShopInv' /\ GoesOn(ledger, ledger')
<1>1. LedgerStep
  BY ShopFields, LedgerStands
<1>2. /\ watcher' \in Watcher
      /\ \A k \in DOMAIN watcher'.todo : \E n \in DOMAIN watcher.todo :
           watcher'.todo[k] = watcher.todo[n]
  <2>1. CASE watcher' = watcher
    BY <2>1, ShopFields
  <2>2. CASE watcher' = IdleWatcher
    BY <2>2 DEF IdleWatcher, Watcher
  <2>3. QED
    BY <2>1, <2>2
<1>3. QED
  BY <1>1, <1>2, ShopFields, PollsStand, ServedStep DEF LedgerStep

LEMMA StepCrash ==
  ASSUME ShopInv, Crash
  PROVE  ShopInv' /\ GoesOn(ledger, ledger')
<1>1. /\ crashes < MaxCrashes /\ crashes' = crashes + 1 /\ ledger' = disk
      /\ polls' = [p \in Polls |-> IdlePoll] /\ watcher' = IdleWatcher
      /\ UNCHANGED <<disk, chain, late, over, held, uses, delivered>>
  BY DEF Crash, clients
<1>2. LedgerStep
  BY <1>1, ShopFields, LedgerStands
<1>3. IdlePoll \in Poll /\ IdlePoll.pc = "idle" /\ IdleWatcher \in Watcher
      /\ IdleWatcher.todo = <<>>
  BY DEF IdlePoll, Poll, IdleWatcher, Watcher
<1>4. PollsKept
  BY <1>1, <1>3 DEF PollsKept
<1>5. crashes' \in 0..MaxCrashes
  BY <1>1, ShopFields, ShopAssumption
<1>6. \A k \in DOMAIN watcher'.todo : \E n \in DOMAIN watcher.todo :
        watcher'.todo[k] = watcher.todo[n]
  BY <1>1, <1>3
<1>7. ShopInv'
  BY <1>1, <1>2, <1>3, <1>4, <1>5, <1>6, ShopFields, ServedStep
<1>8. QED
  BY <1>2, <1>7 DEF LedgerStep

-----------------------------------------------------------------------------

LEMMA ShopInvInit == ShopInit => ShopInv
<1> SUFFICES ASSUME ShopInit PROVE ShopInv
  OBVIOUS
<1>1. /\ ledger = Opened /\ disk = Opened /\ chain = <<>> /\ late = {} /\ over = {}
      /\ polls = [p \in Polls |-> IdlePoll] /\ watcher = IdleWatcher
      /\ held = {} /\ uses = [o \in Orders |-> 0] /\ delivered = {} /\ crashes = 0
  BY DEF ShopInit
<1>2. NoOrder \in Order /\ NoOrder.status = "none" /\ NoOrder.tx = 0 /\ ~NoOrder.grant
  BY DEF NoOrder, Order, Statuses
<1>3. Opened \in LedgerState /\ \A o \in Orders : Opened.orders[o] = NoOrder
  BY <1>2 DEF Opened, LedgerState
<1>4. Sound(ledger, chain, uses, delivered)
  BY <1>1, <1>2, <1>3 DEF Sound, Decided
<1>5. IdlePoll \in Poll /\ IdlePoll.pc = "idle" /\ IdleWatcher \in Watcher
      /\ IdleWatcher.todo = <<>>
  BY DEF IdlePoll, Poll, IdleWatcher, Watcher
<1>6. ShopTypes
  BY <1>1, <1>3, <1>5, ShopAssumption DEF ShopTypes
<1>7. ReadsExist
  BY <1>1, <1>5 DEF ReadsExist
<1>8. QED
  BY <1>1, <1>4, <1>6, <1>7 DEF ShopInv, RestartReproduces

LEMMA ShopInvNext == ShopInv /\ [ShopNext]_shopVars => ShopInv'
<1> SUFFICES ASSUME ShopInv, [ShopNext]_shopVars PROVE ShopInv'
  OBVIOUS
<1>1. CASE \E o \in Orders, amount \in Amounts : CreateOrder(o, amount)
  BY <1>1, StepCreateOrder
<1>2. CASE \E p \in Polls, o \in Orders, claim \in BOOLEAN :
             FindPayment(p, o, claim) \/ FindNothing(p, o, claim)
  BY <1>2, StepFind
<1>3. CASE \E p \in Polls : CreditPoll(p) \/ Answer(p)
  BY <1>3, StepCreditPoll, StepAnswer
<1>4. CASE \E o \in Orders : Download(o)
  BY <1>4, StepDownload
<1>5. CASE StartScan \/ ListSignatures \/ Inspect
  BY <1>5, StepStartScan, StepListSignatures, StepInspect
<1>6. CASE EndScan
  BY <1>6, ShopFields, StepQuiet DEF EndScan, clients
<1>7. CASE \E tx \in Payments : Transfer(tx)
  BY <1>7, StepTransfer, ShopAssumption DEF Tx
<1>8. CASE \E o \in Orders : OrderExpires(o) \/ GrantExpires(o) \/ LoseToken(o)
  BY <1>8, ShopFields, StepQuiet DEF OrderExpires, GrantExpires, LoseToken, clients
<1>9. CASE Crash
  BY <1>9, StepCrash
<1>10. CASE UNCHANGED shopVars
  BY <1>10, ShopFields, StepQuiet DEF shopVars, clients
<1>11. QED
  BY <1>1, <1>2, <1>3, <1>4, <1>5, <1>6, <1>7, <1>8, <1>9, <1>10 DEF ShopNext

\* The variables keep their types, and an order has its transaction exactly when
\* it is paid or owed a refund.
LEMMA ShopInvTyped == ShopInv => ShopTypeOK
<1> SUFFICES ASSUME ShopInv PROVE ShopTypeOK
  OBVIOUS
<1>1. chain \in Seq(Tx) /\ Sound(ledger, chain, uses, delivered)
  BY ShopFields
<1>2. 0 \notin DOMAIN chain
  BY <1>1
<1>3. \A o \in Orders :
        ledger.orders[o].status \in {"paid", "fulfilled", "refund-due"}
          <=> ledger.orders[o].tx \in DOMAIN chain \cap ledger.used
  BY <1>1, <1>2 DEF Sound, Decided
<1>4. QED
  BY <1>3 DEF ShopTypeOK, ShopInv, ShopTypes

\* The orders, the status requests, the watcher and the tokens keep their types,
\* and whatever an order became by payment (order-ledger.ts, payment-lookup.ts,
\* order-watcher.ts) it has the transaction that says so.
THEOREM ShopTyped == ShopSpec => []ShopTypeOK
BY ShopInvInit, ShopInvNext, ShopInvTyped, PTL DEF ShopSpec

\* What order-events.jsonl replays to is the ledger in memory, after any sequence
\* of operations of any number of requests and the watcher, and across restarts
\* (order-ledger.ts: "a restart replays to the identical state").
THEOREM ShopRestart == ShopSpec => []RestartReproduces
<1>1. ShopInv => RestartReproduces
  BY DEF ShopInv
<1>2. QED
  BY <1>1, ShopInvInit, ShopInvNext, PTL DEF ShopSpec

\* No file or pre-order without a payment of its exact amount, no transaction that
\* pays for two orders, and no download grant used twice, for any number of
\* orders, requests, transfers and restarts (order-ledger.ts).
THEOREM ShopDownloadIsBought == ShopSpec => []DownloadIsBought
<1>1. ASSUME ShopInv PROVE DownloadIsBought
  <2>1. Sound(ledger, chain, uses, delivered) /\ delivered \subseteq Orders
    BY <1>1, ShopFields
  <2>2. QED
    BY <2>1 DEF Sound, DownloadIsBought
<1>2. QED
  BY <1>1, ShopInvInit, ShopInvNext, PTL DEF ShopSpec

-----------------------------------------------------------------------------
(* The page *)

LEMMA PageFields ==
  ASSUME PageInv
  PROVE  /\ page \in Page /\ stored \subseteq Orders
         /\ page.order \in Orders \cup {NoOrderId} /\ page.status \in Statuses
         /\ page.token \in BOOLEAN /\ page.poll \in Polls \cup {NoPoll}
         /\ page.creating \in Orders \cup {NoOrderId}
         /\ page.paying \in Orders \cup {NoOrderId}
         /\ PageKnows(ledger) /\ PageAsks(polls)
BY DEF PageInv, PageTypeOK, Page

\* What the page knows stays true while the ledger goes on.
LEMMA PageKnowsStill ==
  ASSUME PageInv, GoesOn(ledger, ledger')
  PROVE  PageKnows(ledger')
BY PageFields DEF GoesOn, PageKnows

\* The requests under way stay what they are.
AsksStill ==
  \A q \in Polls : polls[q].pc # "idle" =>
    /\ polls'[q].pc # "idle"
    /\ polls'[q].order = polls[q].order /\ polls'[q].claim = polls[q].claim

LEMMA PageAsksStill ==
  ASSUME PageInv, AsksStill
  PROVE  PageAsks(polls')
BY PageFields DEF AsksStill, PageAsks

LEMMA PageStands ==
  ASSUME PageInv, page' = page, stored' = stored,
         PageKnows(ledger'), PageAsks(polls')
  PROVE  PageInv'
BY DEF PageInv, PageTypeOK, PageKnows, PageAsks

\* A transfer that names what the ledger says.
LEMMA PriceIsAmount ==
  ASSUME ShopInv, NEW o \in Orders, ledger.orders[o].status # "none"
  PROVE  ledger.orders[o].amount \in Amounts
BY ShopFields DEF Sound

LEMMA PageInvInit == PageInit => ShopInv /\ PageInv
<1> SUFFICES ASSUME PageInit PROVE ShopInv /\ PageInv
  OBVIOUS
<1>1. ShopInv
  BY ShopInvInit DEF PageInit
<1>2. page = BlankPage /\ stored = {}
  BY DEF PageInit
<1>3. PageInv
  BY <1>2 DEF PageInv, PageTypeOK, Page, BlankPage, PageKnows, PageAsks, Statuses, Decided
<1>4. QED
  BY <1>1, <1>3

LEMMA PageRequestOrder ==
  ASSUME ShopInv, PageInv, NEW o \in Orders, NEW amount \in Amounts, RequestOrder(o, amount)
  PROVE  ShopInv' /\ PageInv'
<1>1. /\ CreateOrder(o, amount) /\ page' = [page EXCEPT !.creating = o]
      /\ stored' = stored /\ page.order = NoOrderId
  BY DEF RequestOrder
<1>2. ShopInv' /\ GoesOn(ledger, ledger') /\ polls' = polls
  BY <1>1, StepCreateOrder DEF CreateOrder
<1>3. ledger'.orders[o].status # "none"
  <2>1. ledger' = Created(ledger, o, amount)
    BY <1>1 DEF CreateOrder, Commit
  <2>2. QED
    BY <2>1, ShopFields, CreatedFields
<1>4. PageKnows(ledger') /\ PageAsks(polls')
  BY <1>2, PageFields, PageKnowsStill
<1>5. /\ page' \in Page /\ page'.creating = o
      /\ page'.order = page.order /\ page'.status = page.status
      /\ page'.token = page.token /\ page'.poll = page.poll
  BY <1>1, PageFields DEF Page
<1>6. PageInv'
  BY <1>1, <1>3, <1>4, <1>5, PageFields DEF PageInv, PageTypeOK, PageKnows, PageAsks
<1>7. QED
  BY <1>2, <1>6

LEMMA PageAsk ==
  ASSUME ShopInv, PageInv, NEW p \in Polls, Ask(p)
  PROVE  ShopInv' /\ PageInv'
<1>1. /\ page.order # NoOrderId /\ page.poll = NoPoll
      /\ \/ FindPayment(p, page.order, page.order \in stored)
         \/ FindNothing(p, page.order, page.order \in stored)
      /\ page' = [page EXCEPT !.poll = p] /\ stored' = stored
  BY DEF Ask
<1>2. page.order \in Orders /\ page.order \in stored
  BY <1>1, PageFields DEF PageKnows
<1>3. (page.order \in stored) = TRUE
  BY <1>2
<1>4. FindPayment(p, page.order, TRUE) \/ FindNothing(p, page.order, TRUE)
  BY <1>1, <1>3
<1>5. /\ ShopInv' /\ GoesOn(ledger, ledger')
      /\ polls'[p].pc # "idle" /\ polls'[p].order = page.order /\ polls'[p].claim = TRUE
  BY <1>2, <1>4, StepFind
<1>6. PageKnows(ledger')
  BY <1>5, PageKnowsStill
<1>7. /\ page' \in Page /\ page'.poll = p /\ page'.creating = page.creating
      /\ page'.order = page.order /\ page'.status = page.status /\ page'.token = page.token
  BY <1>1, PageFields DEF Page
<1>8. PageInv'
  BY <1>1, <1>5, <1>6, <1>7, PageFields DEF PageInv, PageTypeOK, PageKnows, PageAsks
<1>9. QED
  BY <1>5, <1>8

LEMMA PageServe ==
  ASSUME ShopInv, PageInv, NEW p \in Polls, Serve(p)
  PROVE  ShopInv' /\ PageInv'
<1>1. /\ CreditPoll(p) \/ Answer(p)
      /\ polls'[p].pc = "answering" /\ page' = page /\ stored' = stored
  BY DEF Serve
<1>2. /\ ShopInv' /\ GoesOn(ledger, ledger') /\ PollsKept
      /\ \A q \in Polls : q # p /\ polls'[q].pc = "idle" => polls[q].pc = "idle"
  BY <1>1, StepCreditPoll, StepAnswer
<1>3. AsksStill
  BY <1>1, <1>2 DEF AsksStill, PollsKept
<1>4. QED
  BY <1>1, <1>2, <1>3, PageKnowsStill, PageAsksStill, PageStands

LEMMA PageReceive ==
  ASSUME ShopInv, PageInv, NEW p \in Polls, Receive(p)
  PROVE  ShopInv' /\ PageInv'
<1>1. /\ Answer(p) /\ polls'[p].pc = "idle"
      /\ page' = Applied(p) /\ stored' = stored
  BY DEF Receive, Responds
<1>2. /\ ShopInv' /\ GoesOn(ledger, ledger') /\ PollsKept
      /\ \A q \in Polls : q # p /\ polls'[q].pc = "idle" => polls[q].pc = "idle"
      /\ ledger' = ledger
      /\ ~(polls[p].claim /\ polls[p].token = "none"
           /\ ledger.orders[polls[p].order].status = "fulfilled")
  BY <1>1, StepAnswer
<1>3. CASE p # page.poll
  <2>1. page' = page
    BY <1>1, <1>3 DEF Applied
  <2>2. PageAsks(polls')
    BY <1>2, <1>3, PageFields DEF PageAsks, PollsKept
  <2>3. QED
    BY <1>1, <1>2, <2>1, <2>2, PageKnowsStill, PageStands
<1>4. CASE p = page.poll
  <2>1. p # NoPoll /\ page.order # NoOrderId /\ polls[p].claim /\ polls[p].order = page.order
    BY <1>4, PageFields, PageAssumption DEF PageAsks
  <2>2. page.order \in Orders
    BY <2>1, PageFields
  <2> DEFINE st == ledger.orders[page.order].status
             tk == page.token \/ polls[p].token # "none"
  <2>3. st \in Statuses
    BY <2>2, ShopFields DEF LedgerState, Order
  <2>4. page' = [page EXCEPT !.poll = NoPoll, !.status = st, !.token = tk]
    BY <1>1, <1>4 DEF Applied
  <2>5. st = "fulfilled" => tk
    BY <1>2, <2>1
  <2>6. tk \in BOOLEAN
    BY PageFields
  <2> HIDE DEF tk
  <2>7. /\ page' \in Page /\ page'.poll = NoPoll /\ page'.status = st /\ page'.token = tk
        /\ page'.order = page.order /\ page'.creating = page.creating
    BY <2>3, <2>4, <2>6, PageFields DEF Page
  <2>8. PageKnows(ledger)
    BY PageFields
  <2>9. PageInv'
    BY <1>1, <1>2, <2>1, <2>5, <2>7, <2>8, PageFields
    DEF PageInv, PageTypeOK, PageKnows, PageAsks
  <2>10. QED
    BY <1>2, <2>9
<1>5. QED
  BY <1>3, <1>4

\* A transfer, whoever makes it, for what the ledger asks.
LEMMA PageTransfer ==
  ASSUME ShopInv, PageInv, NEW tx \in Tx, Transfer(tx)
  PROVE  ShopInv' /\ PageKnows(ledger') /\ PageAsks(polls')
<1>1. ShopInv' /\ GoesOn(ledger, ledger') /\ polls' = polls
  BY StepTransfer
<1>2. QED
  BY <1>1, PageFields, PageKnowsStill

LEMMA PageWalletSends ==
  ASSUME ShopInv, PageInv, WalletSends
  PROVE  ShopInv' /\ PageInv'
<1> DEFINE tx == [ref |-> page.paying, amount |-> ledger.orders[page.paying].amount]
<1>1. /\ page.paying # NoOrderId /\ Transfer(tx)
      /\ page' = [page EXCEPT !.paying = NoOrderId] /\ stored' = stored
  BY DEF WalletSends
<1>2. page.paying \in Orders
  BY <1>1, PageFields
<1>3. ledger.orders[page.paying].status # "none"
  BY <1>1, <1>2 DEF Transfer
<1>4. tx \in Tx
  BY <1>2, <1>3, PriceIsAmount DEF Tx
<1>5. ShopInv' /\ PageKnows(ledger') /\ PageAsks(polls')
  BY <1>1, <1>4, PageTransfer
<1>6. /\ page' \in Page /\ page'.poll = page.poll /\ page'.creating = page.creating
      /\ page'.order = page.order /\ page'.status = page.status /\ page'.token = page.token
  BY <1>1, PageFields DEF Page
<1>7. PageInv'
  BY <1>1, <1>5, <1>6, PageFields DEF PageInv, PageTypeOK, PageKnows, PageAsks
<1>8. QED
  BY <1>5, <1>7

LEMMA PagePayByHand ==
  ASSUME ShopInv, PageInv, PayByHand
  PROVE  ShopInv' /\ PageInv'
<1> DEFINE tx == [ref |-> NoOrderId, amount |-> ledger.orders[page.order].amount]
<1>1. /\ page.order # NoOrderId /\ Transfer(tx) /\ page' = page /\ stored' = stored
  BY DEF PayByHand
<1>2. page.order \in Orders /\ ledger.orders[page.order].status # "none"
  BY <1>1, PageFields DEF PageKnows
<1>3. tx \in Tx
  BY <1>2, PriceIsAmount DEF Tx
<1>4. QED
  BY <1>1, <1>3, PageTransfer, PageStands

LEMMA PageClickDownload ==
  ASSUME ShopInv, PageInv, ClickDownload
  PROVE  ShopInv' /\ PageInv'
<1>1. /\ Download(page.order) /\ page.status = "fulfilled" /\ page' = page /\ stored' = stored
  BY DEF ClickDownload
<1>2. page.order \in Orders
  BY <1>1, PageFields DEF PageKnows, Decided
<1>3. ShopInv' /\ GoesOn(ledger, ledger') /\ polls' = polls
  BY <1>1, <1>2, StepDownload
<1>4. QED
  BY <1>1, <1>3, PageFields, PageKnowsStill, PageStands

LEMMA PageWorld ==
  ASSUME ShopInv, PageInv, World, page' = page, stored' = stored
  PROVE  ShopInv' /\ PageInv'
<1>1. ASSUME ShopInv', GoesOn(ledger, ledger'), polls' = polls
      PROVE  ShopInv' /\ PageInv'
  BY <1>1, PageFields, PageKnowsStill, PageStands
<1>2. CASE StartScan \/ ListSignatures
  BY <1>1, <1>2, StepStartScan, StepListSignatures
<1>3. CASE Inspect
  <2>1. /\ ShopInv' /\ GoesOn(ledger, ledger') /\ PollsKept
        /\ \A q \in Polls : polls'[q].pc = "idle" => polls[q].pc = "idle"
    BY <1>3, StepInspect
  <2>2. AsksStill
    BY <2>1 DEF AsksStill, PollsKept
  <2>3. QED
    BY <2>1, <2>2, PageKnowsStill, PageAsksStill, PageStands
<1>4. CASE EndScan
  <2>1. ShopInv' /\ GoesOn(ledger, ledger') /\ polls' = polls
    BY <1>4, ShopFields, StepQuiet DEF EndScan, clients
  <2>2. QED
    BY <1>1, <2>1
<1>5. CASE \E o \in Orders : OrderExpires(o)
  <2>1. ShopInv' /\ GoesOn(ledger, ledger') /\ polls' = polls
    BY <1>5, ShopFields, StepQuiet DEF OrderExpires, clients
  <2>2. QED
    BY <1>1, <2>1
<1>6. QED
  BY <1>2, <1>3, <1>4, <1>5 DEF World

LEMMA PageServerCrash ==
  ASSUME ShopInv, PageInv, ServerCrash
  PROVE  ShopInv' /\ PageInv'
<1>1. /\ Crash /\ page' = [page EXCEPT !.poll = NoPoll, !.creating = NoOrderId]
      /\ stored' = stored
  BY DEF ServerCrash
<1>2. ShopInv' /\ GoesOn(ledger, ledger')
  BY <1>1, StepCrash
<1>3. PageKnows(ledger')
  BY <1>2, PageKnowsStill
<1>4. /\ page' \in Page /\ page'.poll = NoPoll /\ page'.creating = NoOrderId
      /\ page'.order = page.order /\ page'.status = page.status /\ page'.token = page.token
  BY <1>1, PageFields DEF Page
<1>5. PageInv'
  BY <1>1, <1>3, <1>4, PageFields DEF PageInv, PageTypeOK, PageKnows, PageAsks
<1>6. QED
  BY <1>2, <1>5

\* Steps of the page alone.
LEMMA ShopStands ==
  ASSUME ShopInv, UNCHANGED shopVars
  PROVE  ShopInv' /\ ledger' = ledger /\ polls' = polls
BY ShopInvNext DEF shopVars

LEMMA PageAlone ==
  ASSUME ShopInv, PageInv,
         \/ OrderArrives \/ OrderLost \/ LoseRequest \/ Approve
         \/ WalletDeclines \/ StartOver \/ Reload
  PROVE  ShopInv' /\ PageInv'
<1>1. UNCHANGED shopVars
  BY DEF OrderArrives, OrderLost, LoseRequest, Approve, WalletDeclines, StartOver, Reload
<1>2. ShopInv' /\ ledger' = ledger /\ polls' = polls
  BY <1>1, ShopStands
<1>3. CASE OrderArrives
  <2>1. /\ page.creating # NoOrderId /\ stored' = stored \cup {page.creating}
        /\ page' = [page EXCEPT !.order = page.creating, !.creating = NoOrderId,
                                !.status = "awaiting-payment", !.poll = NoPoll]
    BY <1>3 DEF OrderArrives
  <2>2. /\ page' \in Page /\ page'.order = page.creating /\ page'.creating = NoOrderId
        /\ page'.status = "awaiting-payment" /\ page'.poll = NoPoll
    BY <2>1, PageFields DEF Page, Statuses
  <2>3. page.creating \in Orders
    BY <2>1, PageFields
  <2>4. QED
    BY <1>2, <2>1, <2>2, <2>3, PageFields
    DEF PageInv, PageTypeOK, PageKnows, PageAsks, Decided
<1>4. CASE OrderLost \/ LoseRequest \/ Approve \/ WalletDeclines
  <2>1. /\ page' \in Page /\ page'.order = page.order /\ page'.status = page.status
        /\ page'.token = page.token /\ page'.poll \in {NoPoll, page.poll}
        /\ page'.creating \in {NoOrderId, page.creating} /\ stored' = stored
    BY <1>4, PageFields DEF OrderLost, LoseRequest, Approve, WalletDeclines, Page
  <2>2. QED
    BY <1>2, <2>1, PageFields DEF PageInv, PageTypeOK, PageKnows, PageAsks
<1>5. CASE StartOver \/ Reload
  <2>1. /\ page' \in Page /\ page'.order = NoOrderId /\ page'.status = "none"
        /\ page'.poll = NoPoll /\ page'.creating = NoOrderId /\ stored' = stored
    <3>1. stored' = stored
      BY <1>5 DEF StartOver, Reload
    <3>2. PICK w \in Orders \cup {NoOrderId} :
            page' = [order |-> NoOrderId, status |-> "none", token |-> FALSE, poll |-> NoPoll,
                     creating |-> NoOrderId, paying |-> w]
      <4>1. CASE StartOver
        <5>1. page' = [BlankPage EXCEPT !.paying = page.paying]
          BY <4>1 DEF StartOver
        <5>2. page' = [order |-> NoOrderId, status |-> "none", token |-> FALSE, poll |-> NoPoll,
                       creating |-> NoOrderId, paying |-> page.paying]
          BY <5>1 DEF BlankPage
        <5>3. QED
          BY <5>2, PageFields
      <4>2. CASE Reload
        BY <4>2 DEF Reload, BlankPage
      <4>3. QED
        BY <1>5, <4>1, <4>2
    <3>3. page' \in Page
      BY <3>2 DEF Page, Statuses
    <3>4. QED
      BY <3>1, <3>2, <3>3
  <2>2. PageTypeOK'
    BY <2>1, PageFields DEF PageTypeOK
  <2>3. page'.status \notin Decided
    BY <2>1 DEF Decided
  <2>4. PageKnows(ledger)' /\ PageAsks(polls)'
    BY <2>1, <2>3 DEF PageKnows, PageAsks
  <2>5. QED
    BY <1>2, <2>2, <2>4 DEF PageInv
<1>6. QED
  BY <1>3, <1>4, <1>5

LEMMA PageInvNext == ShopInv /\ PageInv /\ [PageNext]_pageVars => ShopInv' /\ PageInv'
<1> SUFFICES ASSUME ShopInv, PageInv, [PageNext]_pageVars PROVE ShopInv' /\ PageInv'
  OBVIOUS
<1>1. CASE \E o \in Orders, amount \in Amounts : RequestOrder(o, amount)
  BY <1>1, PageRequestOrder
<1>2. CASE \E p \in Polls : Ask(p) \/ Serve(p) \/ Receive(p)
  BY <1>2, PageAsk, PageServe, PageReceive
<1>3. CASE \/ OrderArrives \/ OrderLost \/ LoseRequest \/ Approve
           \/ WalletDeclines \/ StartOver \/ Reload
  BY <1>3, PageAlone
<1>4. CASE WalletSends \/ PayByHand
  BY <1>4, PageWalletSends, PagePayByHand
<1>5. CASE ClickDownload
  BY <1>5, PageClickDownload
<1>6. CASE World /\ UNCHANGED <<page, stored>>
  BY <1>6, PageWorld
<1>7. CASE ServerCrash
  BY <1>7, PageServerCrash
<1>8. CASE UNCHANGED pageVars
  <2>1. page' = page /\ stored' = stored /\ UNCHANGED shopVars
    BY <1>8 DEF pageVars
  <2>2. ShopInv' /\ ledger' = ledger /\ polls' = polls
    BY <2>1, ShopStands
  <2>3. QED
    BY <2>1, <2>2, PageFields, PageStands
<1>9. QED
  BY <1>1, <1>2, <1>3, <1>4, <1>5, <1>6, <1>7, <1>8 DEF PageNext

\* The checkout page never says of the order on display what the server said of
\* another one, however late an answer comes and whoever credits the payment
\* (checkout.tsx cancels the poll of an order it has left).
THEOREM PageShowsItsOwn == PageSpec => []ShownIsOwn
<1>1. ASSUME PageInv PROVE ShownIsOwn
  BY <1>1, PageFields DEF PageKnows, ShownIsOwn, Statuses, Decided
<1>2. QED
  BY <1>1, PageInvInit, PageInvNext, PTL DEF PageSpec
=============================================================================
