---------------------------- MODULE OwedPayouts ----------------------------
(***************************************************************************)
(* What the outbox and the payout executor promise: a payout that is owed  *)
(* is paid, once, and nothing else is.                                     *)
(***************************************************************************)
EXTENDS Naturals

CONSTANT Refs

VARIABLES owed, paid

payouts == <<owed, paid>>

Init == owed = {} /\ paid = [ref \in Refs |-> 0]

Decide == owed' \in SUBSET Refs /\ owed \subseteq owed' /\ UNCHANGED paid

Pay(ref) ==
  /\ ref \in owed /\ paid[ref] = 0
  /\ paid' = [paid EXCEPT ![ref] = 1]
  /\ UNCHANGED owed

Next == Decide \/ \E ref \in Refs : Pay(ref)

Spec == Init /\ [][Next]_payouts /\ \A ref \in Refs : WF_payouts(Pay(ref))
=============================================================================
