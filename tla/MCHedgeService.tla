-------------------------- MODULE MCHedgeService --------------------------
(***************************************************************************)
(* HedgeService with two quotes and up to three transfers: the third is a   *)
(* second payment for the first quote.                                     *)
(***************************************************************************)
EXTENDS HedgeService

CONSTANTS q1, q2, t1, t2, t3

MCQuoteOf == [t \in Transfers |-> IF t = t2 THEN q2 ELSE q1]
=============================================================================
