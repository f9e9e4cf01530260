------------------------ MODULE MCCertificateLedger ------------------------
(***************************************************************************)
(* The certificate ledger on a small instance.  Every certificate costs 2  *)
(* (a premium and a collateral of 1); one kind risks 1, the other 3, so    *)
(* that reserves of 3 cover either, or one of each, but not two of the     *)
(* second.  Transfers carry the exact price or a wrong amount.             *)
(***************************************************************************)
EXTENDS CertificateLedger, TLC

MCTerms ==
  {[premium |-> 1, capDown |-> 1, capUp |-> 1],
   [premium |-> 1, capDown |-> 3, capUp |-> 1]}

MCAmounts == {1, 2}

MCSymmetry ==
  UNION {Permutations(S) : S \in {Mints, Wallets, TxIds, Checkpoints}}
=============================================================================
