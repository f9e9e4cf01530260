---------------------- MODULE ReserveAccountingProofs ----------------------
(***************************************************************************)
(* The promise of ReserveAccounting, for all reserves and every            *)
(* utilization ceiling of at most 100%.                                    *)
(***************************************************************************)
EXTENDS ReserveAccounting, TLAPS

\* Losing at most what the exposure shrinks by keeps the exposure within the
\* ceiling: e/r <= u <= 1 and p <= d imply (e - d)/(r - p) <= u.
LEMMA LossKeepsUtilization ==
  ASSUME NEW u \in 0..FullBps, NEW e \in Int, NEW r \in Int, NEW d \in Nat, NEW p \in Int,
         p <= d
  PROVE  e * FullBps <= r * u => (e - d) * FullBps <= (r - p) * u
<1> DEFINE pu == p * u
           du == d * u
           ru == r * u
           lu == (r - p) * u
<1>1. pu \in Int /\ du \in Int /\ ru \in Int
  BY DEF FullBps
<1>2. pu <= du
  BY DEF FullBps
<1>3. du <= d * FullBps
  BY DEF FullBps
<1>4. lu = ru - pu
  BY DEF FullBps
<1> HIDE DEF pu, du, ru, lu
<1>5. e * FullBps <= ru => (e - d) * FullBps <= lu
  BY <1>1, <1>2, <1>3, <1>4 DEF FullBps
<1>6. QED
  BY <1>5 DEF ru, lu

\* An exposure within the ceiling is at most the reserves.
LEMMA CeilingIsAtMostReserves ==
  ASSUME NEW u \in 0..FullBps, NEW e \in Nat, NEW r \in Nat
  PROVE  e * FullBps <= r * u => e <= r
<1> DEFINE ru == r * u
<1>1. ru \in Int
  BY DEF FullBps
<1>2. ru <= r * FullBps
  BY DEF FullBps
<1> HIDE DEF ru
<1>3. e * FullBps <= ru => e <= r
  BY <1>1, <1>2 DEF FullBps
<1>4. QED
  BY <1>3 DEF ru

\* What a settlement leaves: reserves that are not negative and an exposure
\* within the ceiling.
LEMMA SettlementLeavesEnough ==
  ASSUME NEW u \in 0..FullBps, NEW r \in Nat, NEW e \in Nat, NEW c \in Nat,
         NEW r2 \in Int, NEW e2 \in 0..e, NEW c2 \in 0..c,
         r - r2 + (c - c2) \in 0..((c - c2) + (e - e2))
  PROVE  e * FullBps <= r * u => r2 \in Nat /\ e2 * FullBps <= r2 * u
<1> DEFINE ended == e - e2
           loss  == r - r2
<1>1. ended \in Nat /\ loss \in Int /\ loss <= ended /\ ended <= e
  OBVIOUS
<1>2. e - ended = e2 /\ r - loss = r2
  OBVIOUS
<1> HIDE DEF ended, loss
<1>3. e * FullBps <= r * u => (e - ended) * FullBps <= (r - loss) * u
  <2>1. e \in Int /\ r \in Int
    OBVIOUS
  <2>2. QED
    BY <1>1, <2>1, LossKeepsUtilization, Zenon
<1>4. e * FullBps <= r * u => e <= r
  BY CeilingIsAtMostReserves
<1>5. e <= r => r2 \in Nat
  BY <1>1, <1>2
<1>6. QED
  BY <1>2, <1>3, <1>4, <1>5, Zenon

\* A larger amount has the larger share.
LEMMA ShareIsMonotone ==
  ASSUME NEW u \in 0..FullBps, NEW a \in Int, NEW b \in Int, a <= b
  PROVE  a * u <= b * u
BY DEF FullBps

-----------------------------------------------------------------------------

\* What the constants must be: reserves that exist and a ceiling of at most 100%.
ReservesConstants == InitialReserves \in Nat /\ UMaxBps \in 0..FullBps

\* The inductive invariant: solvency follows from the ceiling, and only the
\* ceiling is preserved by the settlements.
ReservesInv ==
  /\ reserves \in Nat
  /\ TypeOK
  /\ WithinUtilization

LEMMA InvInit == ReservesConstants /\ Init => ReservesInv
BY DEF ReservesConstants, FullBps, Init, ReservesInv, TypeOK, WithinUtilization

LEMMA InvImpliesSolvent == ReservesConstants /\ ReservesInv => Solvent
<1> SUFFICES ASSUME ReservesConstants, ReservesInv PROVE Solvent
  OBVIOUS
<1>1. reserves \in Nat /\ exposure \in Nat /\ deposits \in Nat /\ collateral \in Nat
  BY DEF ReservesInv, TypeOK
<1>2. exposure <= reserves
  <2>1. UMaxBps \in 0..FullBps
    BY DEF ReservesConstants
  <2>2. exposure * FullBps <= reserves * UMaxBps => exposure <= reserves
    BY <1>1, <2>1, CeilingIsAtMostReserves, Zenon
  <2>3. QED
    BY <2>2 DEF ReservesInv, WithinUtilization
<1>3. QED
  BY <1>1, <1>2 DEF Solvent

\* A settlement, the only step that can shrink the reserves.
LEMMA InvSettle ==
  ASSUME ReservesConstants, ReservesInv, SettleOne
  PROVE  ReservesInv'
<1>1. reserves \in Nat /\ exposure \in Nat /\ deposits \in Nat /\ collateral \in Nat
  BY DEF ReservesInv, TypeOK
<1>2. /\ reserves' \in Int /\ exposure' \in 0..exposure /\ collateral' \in 0..collateral
      /\ reserves - reserves' + (collateral - collateral')
           \in 0..((collateral - collateral') + (exposure - exposure'))
      /\ deposits' = deposits
  BY DEF SettleOne
<1>3. UMaxBps \in 0..FullBps
  BY DEF ReservesConstants
<1>4. exposure * FullBps <= reserves * UMaxBps
  BY DEF ReservesInv, WithinUtilization
<1>5. reserves' \in Nat /\ exposure' * FullBps <= reserves' * UMaxBps
  BY <1>1, <1>2, <1>3, <1>4, SettlementLeavesEnough, Zenon
<1>6. \A n \in Nat : \A k \in 0..n : k \in Nat
  OBVIOUS
<1>7. exposure' \in Nat /\ collateral' \in Nat /\ deposits' \in Nat
  BY <1>1, <1>2, <1>6, Zenon
<1>8. QED
  BY <1>5, <1>7 DEF ReservesInv, TypeOK, WithinUtilization

LEMMA InvNext == ReservesConstants /\ ReservesInv /\ [Next]_accounts => ReservesInv'
<1> SUFFICES ASSUME ReservesConstants, ReservesInv, [Next]_accounts
             PROVE  ReservesInv'
  OBVIOUS
<1>1. reserves \in Nat /\ exposure \in Nat /\ deposits \in Nat /\ collateral \in Nat
  BY DEF ReservesInv, TypeOK
<1>2. CASE Deposit
  BY <1>1, <1>2 DEF Deposit, ReservesInv, TypeOK, WithinUtilization
<1>3. CASE Return
  BY <1>1, <1>3 DEF Return, ReservesInv, TypeOK, WithinUtilization
<1>4. CASE Sell
  <2>1. /\ exposure' \in Nat /\ reserves' \in Nat /\ collateral' \in Nat /\ deposits' \in Nat
        /\ reserves' >= reserves
    BY <1>1, <1>4 DEF Sell
  <2>2. UMaxBps \in 0..FullBps
    BY DEF ReservesConstants
  <2>3. reserves * UMaxBps <= reserves' * UMaxBps
    <3>1. reserves \in Int /\ reserves' \in Int /\ reserves <= reserves'
      BY <1>1, <2>1
    <3>2. QED
      BY <2>2, <3>1, ShareIsMonotone, Zenon
  <2>4. WithinUtilization'
    <3>1. exposure' * FullBps <= reserves * UMaxBps
      BY <1>4 DEF Sell
    <3>2. /\ reserves * UMaxBps \in Int /\ reserves' * UMaxBps \in Int
          /\ exposure' * FullBps \in Int
      BY <1>1, <2>1, <2>2 DEF FullBps
    <3>3. \A x, y, z \in Int : x <= y /\ y <= z => x <= z
      OBVIOUS
    <3>4. QED
      BY <2>3, <3>1, <3>2, <3>3, Zenon DEF WithinUtilization
  <2>5. QED
    BY <2>1, <2>4 DEF ReservesInv, TypeOK
<1>5. CASE SettleOne
  BY <1>5, InvSettle
<1>6. CASE UNCHANGED accounts
  BY <1>1, <1>6 DEF accounts, ReservesInv, TypeOK, WithinUtilization
<1>7. QED
  BY <1>2, <1>3, <1>4, <1>5, <1>6 DEF Next

\* The exposure taken on never exceeds the permitted share of the reserves,
\* whatever is sold and settled in whatever order.
THEOREM ReservesWithinUtilization ==
  ASSUME ReservesConstants PROVE Spec => []WithinUtilization
<1>1. ReservesInv => WithinUtilization
  BY DEF ReservesInv
<1>2. Init => ReservesInv
  BY InvInit
<1>3. ReservesInv /\ [Next]_accounts => ReservesInv'
  BY InvNext
<1>4. QED
  BY <1>1, <1>2, <1>3, PTL DEF Spec

\* The treasury can pay every certificate its worst case and still return
\* every deposit.
THEOREM ReservesSolvent ==
  ASSUME ReservesConstants PROVE Spec => []Solvent
<1>1. ReservesInv => Solvent
  BY InvImpliesSolvent
<1>2. Init => ReservesInv
  BY InvInit
<1>3. ReservesInv /\ [Next]_accounts => ReservesInv'
  BY InvNext
<1>4. QED
  BY <1>1, <1>2, <1>3, PTL DEF Spec
=============================================================================
