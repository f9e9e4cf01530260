------------------------ MODULE ReserveAccounting ------------------------
(***************************************************************************)
(* What the treasury of the hedge promises, without quotes, payments or    *)
(* certificates: money held for others (deposits that await a decision and *)
(* collateral) is kept apart from the reserves, new exposure is taken only *)
(* within UMaxBps of the reserves, and a settlement pays between nothing   *)
(* and the collateral it releases plus the exposure it ends.               *)
(* CertificateLedger implements this specification.                        *)
(***************************************************************************)
EXTENDS Integers

CONSTANTS InitialReserves, UMaxBps

VARIABLES reserves, exposure, deposits, collateral

\* A whole, in basis points.
FullBps == 10000

accounts == <<reserves, exposure, deposits, collateral>>

Init ==
  /\ reserves = InitialReserves
  /\ exposure = 0 /\ deposits = 0 /\ collateral = 0

Deposit ==
  /\ deposits' \in Nat /\ deposits' >= deposits
  /\ UNCHANGED <<reserves, exposure, collateral>>

Return ==
  /\ deposits' \in 0..deposits
  /\ UNCHANGED <<reserves, exposure, collateral>>

\* A buyer's money goes to the reserves (premium) and to the collateral.
Sell ==
  /\ exposure' \in Nat /\ exposure' >= exposure
  /\ exposure' * FullBps <= reserves * UMaxBps
  /\ reserves' \in Int /\ reserves' >= reserves
  /\ collateral' \in Nat /\ collateral' >= collateral
  /\ UNCHANGED deposits

SettleOne ==
  LET released == collateral - collateral'
      ended    == exposure - exposure'
      paid     == reserves - reserves' + released
  IN  /\ collateral' \in 0..collateral
      /\ exposure' \in 0..exposure
      /\ reserves' \in Int
      /\ paid \in 0..(released + ended)
      /\ UNCHANGED deposits

Next == Deposit \/ Return \/ Sell \/ SettleOne

Spec == Init /\ [][Next]_accounts

TypeOK ==
  /\ reserves \in Int
  /\ exposure \in Nat /\ deposits \in Nat /\ collateral \in Nat

\* The exposure never leaves the permitted share of the reserves, not even
\* when settlements shrink the reserves it is measured against.
WithinUtilization == exposure * FullBps <= reserves * UMaxBps

\* Paying every certificate its worst case leaves the money of others intact.
Solvent ==
  LET treasury == reserves + deposits + collateral
  IN  treasury >= deposits + collateral + exposure
=============================================================================
