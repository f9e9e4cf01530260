------------------------- MODULE MCPayoutExecutor -------------------------
(***************************************************************************)
(* PayoutExecutor with three payouts under a float of 2: one that leaves    *)
(* room for another, one that takes all of it and one that never fits.     *)
(***************************************************************************)
EXTENDS PayoutExecutor

CONSTANTS r1, r2, r3

MCAmount == [r \in Refs |-> IF r = r1 THEN 1 ELSE IF r = r2 THEN 2 ELSE 3]
=============================================================================
