---------------------------- MODULE MCDataShop ----------------------------
(***************************************************************************)
(* DataShop with two orders that may be given the same amount one after    *)
(* the other, one of them perhaps a pre-order.                             *)
(***************************************************************************)
EXTENDS DataShop

CONSTANTS o1, o2, a1, a2

\* A file paid with the first order's reference, a pre-order without any.
MCPayments ==
  {[ref |-> o1, amount |-> a1], [ref |-> NoOrderId, amount |-> a2]}
=============================================================================
