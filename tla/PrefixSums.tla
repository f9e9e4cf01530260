---------------------------- MODULE PrefixSums ----------------------------
(***************************************************************************)
(* The sum of f[1], ..., f[n]: what the accumulation loops of              *)
(* packages/hedge/src/invariants.ts compute over the entries of a Map,     *)
(* which JavaScript visits in insertion order.                             *)
(***************************************************************************)
EXTENDS Integers

Sum(n, f) ==
  LET upTo[i \in 0..n] == IF i = 0 THEN 0 ELSE upTo[i - 1] + f[i]
  IN  upTo[n]
=============================================================================
