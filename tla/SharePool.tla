----------------------------- MODULE SharePool -----------------------------
(***************************************************************************)
(* What the protection pool promises its depositors, without depositors,   *)
(* positions or certificates.  Shares are claims on the reserves: whoever  *)
(* enters or leaves does so at a price that takes less than one unit of    *)
(* the reserves from all who stay, the rounding of the price; exposure is  *)
(* taken on only within UMaxBps of the reserves, and a settlement costs no *)
(* more than the exposure it ends and a rounding.                          *)
(* ProtocolCore implements this specification.                             *)
(***************************************************************************)
EXTENDS Integers

CONSTANTS UMaxBps, FloatDust

VARIABLES reserves, shares, exposure

\* A whole, in basis points.
FullBps == 10000

claims == <<reserves, shares, exposure>>

Init == reserves = 0 /\ shares = 0 /\ exposure = 0

\* With one unit more in the reserves, reserves per share would not fall.
Undiluted == shares > 0 => (reserves' + 1) * shares >= reserves * shares'

\* Nothing new is taken on by those who remain, and what is taken is covered.
Covered(exposed, held) == exposed * FullBps <= held * UMaxBps

Enter ==
  /\ reserves' \in Nat /\ reserves' > reserves
  /\ shares' \in Nat /\ shares' > shares
  /\ Undiluted
  /\ UNCHANGED exposure

Leave ==
  /\ shares' \in Nat /\ shares' < shares
  /\ reserves' \in 0..reserves
  /\ Undiluted
  /\ Covered(exposure, reserves')
  /\ shares' = 0 => reserves' <= 1
  /\ UNCHANGED exposure

Sell ==
  /\ exposure' \in Nat /\ exposure' > exposure
  /\ Covered(exposure', reserves)
  /\ reserves' \in Nat /\ reserves' >= reserves
  /\ UNCHANGED shares

Settle ==
  /\ exposure' \in Nat /\ exposure' < exposure
  /\ reserves' \in Int
  /\ reserves - reserves' <= exposure - exposure' + FloatDust
  /\ UNCHANGED shares

Next == Enter \/ Leave \/ Sell \/ Settle

Spec == Init /\ [][Next]_claims
=============================================================================
