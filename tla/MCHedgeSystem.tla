--------------------------- MODULE MCHedgeSystem ---------------------------
(***************************************************************************)
(* HedgeSystem with one or two quotes and two transfers.                   *)
(***************************************************************************)
EXTENDS HedgeSystem

CONSTANTS q1, q2, t1, t2, t3

MCQuoteOf == [t \in Transfers |-> IF t = t2 THEN q2 ELSE q1]

MCAmount == [ref \in Refs |-> 1]
=============================================================================
