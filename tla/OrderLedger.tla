---------------------------- MODULE OrderLedger ----------------------------
(***************************************************************************)
(* The order ledger of the data product, packages/commerce/src/            *)
(* order-ledger.ts: what each operation makes of the orders in memory, and *)
(* what replaying its events makes of them after a restart.                *)
(*                                                                         *)
(* A transaction is the number of its place in the chain.  Of a download   *)
(* grant the ledger stores a hash; here an order has a grant or has none,  *)
(* and module DataShop knows who holds the token of the current one.       *)
(***************************************************************************)
EXTENDS Naturals, Sequences, SequencesExt

CONSTANTS
  Orders,      \* order ids
  Amounts,     \* price of the product plus tag
  PreOrdered,  \* those of the product that is delivered by hand
  NoAmount

ASSUME OrderAssumption == PreOrdered \subseteq Amounts /\ NoAmount \notin Amounts

Statuses == {"none", "awaiting-payment", "paid", "fulfilled", "refund-due"}

Order ==
  [status : Statuses, amount : Amounts \cup {NoAmount}, tx : Nat, grant : BOOLEAN]

\* tx = 0: no payment.
NoOrder == [status |-> "none", amount |-> NoAmount, tx |-> 0, grant |-> FALSE]

LedgerState == [orders : [Orders -> Order], used : SUBSET Nat]

Opened == [orders |-> [o \in Orders |-> NoOrder], used |-> {}]

Awaiting(l, o) == l.orders[o].status = "awaiting-payment"

-----------------------------------------------------------------------------
(* The operations, each with the events it commits *)

Created(l, o, amount) ==
  [l EXCEPT !.orders[o] = [NoOrder EXCEPT !.status = "awaiting-payment", !.amount = amount]]

OrderCreated(o, amount) == [kind |-> "OrderCreated", order |-> o, amount |-> amount]

\* observePayment when it accepts, and when amount or deadline are wrong.
Paid(l, o, i) ==
  [l EXCEPT !.used = @ \cup {i}, !.orders[o].status = "paid", !.orders[o].tx = i]

PaymentObserved(o, i) == [kind |-> "PaymentObserved", order |-> o, tx |-> i]

RefundOwed(l, o, i) ==
  [l EXCEPT !.used = @ \cup {i}, !.orders[o].status = "refund-due", !.orders[o].tx = i]

RefundDue(o, i) == [kind |-> "RefundDue", order |-> o, tx |-> i]

\* fulfil and reissueDownloadToken commit the same event.
Granted(l, o) == [l EXCEPT !.orders[o].status = "fulfilled", !.orders[o].grant = TRUE]

OrderFulfilled(o) == [kind |-> "OrderFulfilled", order |-> o]

Redeemed(l, o) == [l EXCEPT !.orders[o].grant = FALSE]

DownloadRedeemed(o) == [kind |-> "DownloadRedeemed", order |-> o]

-----------------------------------------------------------------------------
(* fromEvents, one event at a time *)

ReplayForgetful(l, e) ==  \* mutant: a refused signature is free after a restart
  LET o == e.order
  IN  CASE e.kind = "OrderCreated" -> Created(l, o, e.amount)
        [] e.kind = "PaymentObserved" -> Paid(l, o, e.tx)
        [] e.kind = "RefundDue" -> [RefundOwed(l, o, e.tx) EXCEPT !.used = l.used]
        [] e.kind = "OrderFulfilled" -> Granted(l, o)
        [] e.kind = "DownloadRedeemed" -> Redeemed(l, o)

Replay(l, e) ==
  LET o == e.order
  IN  CASE e.kind = "OrderCreated" ->
             [l EXCEPT !.orders[o] = [status |-> "awaiting-payment", amount |-> e.amount,
                                      tx |-> 0, grant |-> FALSE]]
        [] e.kind = "PaymentObserved" ->
             [l EXCEPT !.orders[o].status = "paid", !.orders[o].tx = e.tx,
                       !.used = @ \cup {e.tx}]
        [] e.kind = "RefundDue" ->
             [l EXCEPT !.orders[o].status = "refund-due", !.orders[o].tx = e.tx,
                       !.used = @ \cup {e.tx}]
        [] e.kind = "OrderFulfilled" ->
             [l EXCEPT !.orders[o].status = "fulfilled", !.orders[o].grant = TRUE]
        [] e.kind = "DownloadRedeemed" ->
             [l EXCEPT !.orders[o].grant = FALSE]

ReplayAll(l, events) == FoldLeft(Replay, l, events)
=============================================================================
