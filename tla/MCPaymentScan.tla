--------------------------- MODULE MCPaymentScan ---------------------------
(***************************************************************************)
(* PaymentScan with payments and with transfers without a memo, and a      *)
(* window of two signatures.                                               *)
(***************************************************************************)
EXTENDS PaymentScan

MCTxs ==
  {[failed |-> FALSE, delta |-> 1, memo |-> TRUE],
   [failed |-> FALSE, delta |-> 1, memo |-> FALSE]}
=============================================================================
