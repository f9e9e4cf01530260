---------------------------- MODULE MCProcesses ----------------------------
(***************************************************************************)
(* Five parts of the platform, one at a time: `part' is what runs, the     *)
(* variables of the others stay at their start.  The payout executor       *)
(* (PayoutExecutor) and the payment scan (PaymentScan) in their most       *)
(* general environments, the data shop on its own, with any buyers         *)
(* (DataShop), the checkout page as its only client (CheckoutPage), and    *)
(* the purchase panel (HedgePanel).  The shop on its own and the one behind *)
(* the page use the same variables.                                        *)
(***************************************************************************)
EXTENDS MCPayoutExecutor, MCPaymentScan, CheckoutPage, HedgePanel

CONSTANTS o1, o2, a1, a2

\* A file paid with the first order's reference, and a pre-order without any,
\* one of them perhaps after it has expired.
Shop ==
  INSTANCE DataShop WITH
    Amounts <- {a1, a2}, PreOrdered <- {a2},
    Payments <- {[ref |-> o1, amount |-> a1], [ref |-> NoOrderId, amount |-> a2]},
    ScanLimit <- 2, MaxTxs <- 2

VARIABLE part

allVars == <<part, vars, scanVars, pageVars, panelVars>>

PartsInit ==
  /\ part \in {"executor", "scan", "shop", "page", "panel"}
  /\ Init /\ ScanInit /\ PageInit /\ PanelInit

ExecutorStep ==
  part = "executor" /\ Next /\ UNCHANGED <<scanVars, pageVars, panelVars>>

ScanStep ==
  part = "scan" /\ ScanNext /\ UNCHANGED <<vars, pageVars, panelVars>>

ShopStep ==
  part = "shop" /\ Shop!ShopNext /\ UNCHANGED <<vars, scanVars, page, stored, panelVars>>

PageStep ==
  part = "page" /\ PageNext /\ UNCHANGED <<vars, scanVars, panelVars>>

PanelStep ==
  part = "panel" /\ PanelNext /\ UNCHANGED <<vars, scanVars, pageVars>>

PartsNext ==
  (ExecutorStep \/ ScanStep \/ ShopStep \/ PageStep \/ PanelStep) /\ UNCHANGED part

PartsSpec == PartsInit /\ [][PartsNext]_allVars

-----------------------------------------------------------------------------
(* What each part brings about under the fairness its module assumes *)

\* Every payout queued that fits the float is paid at last (QueuedIsPaid), in the
\* executor's most general environment.
ExecutorPays == part = "executor" /\ Fairness => QueuedIsPaid

\* Every payment to the treasury reaches the ledger at last
\* (EveryPaymentCredited), with nodes that lag but have every transaction.
ScanCredits == part = "scan" /\ ScanFairness => EveryPaymentCredited

\* An exact payment that names the order's reference settles the order or has
\* it owe a refund at last (ReferencePaymentIsDecided), of buyers who keep
\* asking; behind the page the user may turn away.
ShopDecides == part = "shop" /\ Shop!ShopFairness => Shop!ReferencePaymentIsDecided

\* A page that stays on a fulfilled order comes to offer its file
\* (FulfilledIsOffered).
PageOffers == part = "page" /\ PageFairness => FulfilledIsOffered

\* A panel left open on a payment comes to show the certificate it has bought
\* (ActivationIsShown).
PanelShows == part = "panel" /\ PanelFairness => ActivationIsShown
=============================================================================
