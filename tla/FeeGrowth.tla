----------------------------- MODULE FeeGrowth -----------------------------
(***************************************************************************)
(* The fees of one liquidity position, as the Whirlpool program keeps them *)
(* on chain (external), and as packages/core/src/market-data/fees-owed.ts  *)
(* and lifecycle/fee-refresher.ts recompute them from one consistent read. *)
(*                                                                         *)
(* Fee growth per unit of liquidity is an accumulator that wraps (2^128).  *)
(* The pool has one per token; the two boundary ticks of the position hold *)
(* the growth on their far side, as seen from the price.  The pool's tick  *)
(* is 0 below the range, 1 inside and 2 above it.  Growth is counted in    *)
(* whole units of fees: the truncation of Q64.64 is left out.              *)
(*                                                                         *)
(* `grown', `marked' and `earned' are ghosts: the growth inside the range  *)
(* that really took place, in all and up to the last update of the         *)
(* position, and the fees that its owner is owed for it.                   *)
(***************************************************************************)
EXTENDS Integers

CONSTANTS
  Modulus,        \* 2^128
  Liquidities,    \* what the position may hold
  Shared,         \* TRUE: other positions use the same boundary ticks
  Starts,         \* where the accumulators may stand at first
  MaxSwaps,       \* bounds of the model
  MaxChanges

ASSUME GrowthAssumption ==
  /\ Modulus \in Nat \ {0}
  /\ Liquidities \subseteq Nat
  /\ Starts \subseteq 0..(Modulus - 1)
  /\ Shared \in BOOLEAN
  /\ MaxSwaps \in Nat /\ MaxChanges \in Nat

VARIABLES
  whirlpool,  \* tickCurrentIndex, and feeGrowthGlobal of each token
  ticks,      \* feeGrowthOutside of the lower and upper tick
  position,   \* liquidity, feeOwed and feeGrowthCheckpoint
  grown, marked, earned,
  swaps, changes

ghosts == <<grown, marked, earned>>

chainVars == <<whirlpool, ticks, position, ghosts, swaps, changes>>

Tokens == {"A", "B"}

Growth == 0..(Modulus - 1)

TickLower == 1
TickUpper == 2

-----------------------------------------------------------------------------
(* fees-owed.ts and fee-refresher.ts *)

SignedSub(later, earlier) == later - earlier  \* mutant: does not wrap

WrapSub(later, earlier) == (later - earlier + Modulus) % Modulus

\* Growth inside the range, from the pool p and the outside growth of two ticks.
FeeGrowthInside(p, lower, upper, token) ==
  LET global == p.global[token]
      below == IF p.tick >= TickLower THEN lower[token] ELSE WrapSub(global, lower[token])
      above == IF p.tick < TickUpper THEN upper[token] ELSE WrapSub(global, upper[token])
  IN  WrapSub(WrapSub(global, below), above)

Inside(token) == FeeGrowthInside(whirlpool, ticks.lower, ticks.upper, token)

\* What a collectFees would pay out: the checkpoint and what came since.
UncollectedFees(token) ==
  position.owed[token]
    + position.liquidity * WrapSub(Inside(token), position.checkpoint[token])

\* The fee refresher has a formula of its own for the growth inside.
RefresherInside(token) ==
  LET tick == whirlpool.tick
      global == whirlpool.global[token]
      lower == ticks.lower[token]
      upper == ticks.upper[token]
      below == IF tick < TickLower THEN (global - lower + Modulus) % Modulus ELSE lower
      above == IF tick >= TickUpper THEN (global - upper + Modulus) % Modulus ELSE upper
  IN  (global - below - above + 2 * Modulus) % Modulus

PendingFeesFromGrowth(token) ==
  position.owed[token]
    + position.liquidity
        * ((RefresherInside(token) - position.checkpoint[token] + Modulus) % Modulus)

-----------------------------------------------------------------------------
(* The Whirlpool program *)

InRange == whirlpool.tick >= TickLower /\ whirlpool.tick < TickUpper

\* A tick is initialized while some position ends at it.
Initialized == Shared \/ position.liquidity > 0

\* A swap that pays its fee in `token' and ends in the same range of ticks or
\* crosses one tick; a larger swap is several of these.
Swap(token, to) ==
  /\ swaps < MaxSwaps
  \* an accumulator wraps once at most between two updates of the position
  /\ grown[token] - marked[token] < Modulus - 1
  /\ to \in 0..2
  /\ to = whirlpool.tick \/ to = whirlpool.tick + (IF token = "A" THEN -1 ELSE 1)
  /\ swaps' = swaps + 1
  /\ LET global == [whirlpool.global EXCEPT ![token] = (@ + 1) % Modulus]
         Crossed(tick) == [t \in Tokens |-> WrapSub(global[t], tick[t])]
         crosses(index) == Initialized /\ ((whirlpool.tick < index) # (to < index))
     IN  /\ whirlpool' = [tick |-> to, global |-> global]
         /\ ticks' = [lower |-> IF crosses(TickLower) THEN Crossed(ticks.lower) ELSE ticks.lower,
                      upper |-> IF crosses(TickUpper) THEN Crossed(ticks.upper) ELSE ticks.upper]
  /\ grown' = IF InRange THEN [grown EXCEPT ![token] = @ + 1] ELSE grown
  /\ earned' = IF InRange THEN [earned EXCEPT ![token] = @ + position.liquidity] ELSE earned
  /\ UNCHANGED <<position, marked, changes>>

Zero == [t \in Tokens |-> 0]

\* By convention all growth so far was below a tick that is initialized.
Opened(index) == IF whirlpool.tick >= index THEN whirlpool.global ELSE Zero

\* increaseLiquidity and decreaseLiquidity bring the fees of the position up to
\* date; the last position to leave a tick clears it.
SetLiquidity(liquidity) ==
  /\ changes < MaxChanges
  /\ liquidity # position.liquidity
  /\ changes' = changes + 1
  /\ LET lower == IF Initialized THEN ticks.lower ELSE Opened(TickLower)
         upper == IF Initialized THEN ticks.upper ELSE Opened(TickUpper)
     IN  /\ position' =
              [liquidity |-> liquidity,
               owed |-> [t \in Tokens |->
                           IF position.liquidity > 0 THEN UncollectedFees(t)
                                                     ELSE position.owed[t]],
               checkpoint |-> [t \in Tokens |-> FeeGrowthInside(whirlpool, lower, upper, t)]]
         /\ ticks' = IF Shared \/ liquidity > 0 THEN [lower |-> lower, upper |-> upper]
                                                ELSE [lower |-> Zero, upper |-> Zero]
  /\ marked' = grown
  /\ UNCHANGED <<whirlpool, grown, earned, swaps>>

\* updateFeesAndRewards, then collectFees.
CollectFees ==
  /\ position.liquidity > 0
  /\ changes < MaxChanges
  /\ changes' = changes + 1
  /\ position' = [position EXCEPT !.owed = Zero,
                                  !.checkpoint = [t \in Tokens |-> Inside(t)]]
  /\ earned' = [t \in Tokens |-> earned[t] - UncollectedFees(t)]
  /\ marked' = grown
  /\ UNCHANGED <<whirlpool, ticks, grown, swaps>>

\* The pool is older than the position: the accumulators stand anywhere, and
\* the ticks were initialized by it, or by others at any earlier time.
GrowthInit ==
  /\ whirlpool \in [tick : 0..2, global : [Tokens -> Starts]]
  /\ ticks \in IF Shared THEN [lower : [Tokens -> Starts], upper : [Tokens -> Starts]]
               ELSE {[lower |-> Opened(TickLower), upper |-> Opened(TickUpper)]}
  /\ \E liquidity \in Liquidities \ {0} :
       position = [liquidity |-> liquidity, owed |-> Zero,
                   checkpoint |-> [t \in Tokens |-> Inside(t)]]
  /\ grown = Zero /\ marked = Zero /\ earned = Zero
  /\ swaps = 0 /\ changes = 0

ChainStep ==
  \/ \E token \in Tokens, to \in 0..2 : Swap(token, to)
  \/ \E liquidity \in Liquidities : SetLiquidity(liquidity)
  \/ CollectFees

GrowthSpec == GrowthInit /\ [][ChainStep]_chainVars

-----------------------------------------------------------------------------
(* Properties *)

\* The accumulators stay below the modulus, the ghosts count up.
GrowthTypeOK ==
  /\ whirlpool \in [tick : 0..2, global : [Tokens -> Growth]]
  /\ ticks \in [lower : [Tokens -> Growth], upper : [Tokens -> Growth]]
  /\ position \in [liquidity : Nat, owed : [Tokens -> Nat], checkpoint : [Tokens -> Growth]]
  /\ grown \in [Tokens -> Nat] /\ marked \in [Tokens -> Nat] /\ earned \in [Tokens -> Nat]
  /\ \A t \in Tokens : grown[t] - marked[t] \in 0..(Modulus - 1)
  /\ swaps \in Nat /\ changes \in Nat

\* From one consistent read, wherever the price has been since, however the
\* accumulators wrapped and whatever became of the liquidity, both
\* computations give "the figure a `collectFees` would actually pay out"
\* (fees-owed.ts:96-102).
ReadIsOwed ==
  \A t \in Tokens : UncollectedFees(t) = earned[t] /\ PendingFeesFromGrowth(t) = earned[t]
=============================================================================
