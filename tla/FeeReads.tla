----------------------------- MODULE FeeReads -----------------------------
(***************************************************************************)
(* The readers of a position's fee growth that need several calls to the   *)
(* RPC node, between which the chain moves on.                             *)
(*                                                                         *)
(* Two of them record snapshots: the collector (services/ops-jobs/src/     *)
(* position-snapshot-job.ts) and the dashboard (packages/portfolio/src/    *)
(* discovery.ts, apps/web/src/lib/server/position-yield.ts).  Both read    *)
(* position, pool and ticks, then the pool once more, and give up if it    *)
(* has moved.  measurePositionFees turns the snapshots into fees.  The     *)
(* third is the settlement's fee reader (apps/web/src/lib/server/          *)
(* fee-reader.ts): once at the activation of a certificate and once at its *)
(* settlement; from the difference comes the fee share that is deducted    *)
(* from the buyer's settlement.  It reads the pool only once.              *)
(***************************************************************************)
EXTENDS FeeGrowth, Sequences

LOCAL INSTANCE SequencesExt

CONSTANTS
  Collector, Dashboard, FeeReader,
  Readers,        \* which of them run
  MaxPlausible,   \* the ceilings on a fee share and on an interval's fees
  MaxSnapshots    \* bound of the model

ASSUME ReadsAssumption ==
  /\ Readers \subseteq {Collector, Dashboard, FeeReader}
  /\ MaxPlausible \in Nat /\ MaxSnapshots \in Nat

VARIABLES
  reads,        \* reader -> its calls so far
  snapshots,    \* lh.position_fee_snapshots, in the order of t
  certificate   \* its state, fee checkpoint and fee share

readVars == <<reads, snapshots, certificate>>

readsVars == <<chainVars, readVars>>

Recorders == Readers \cap {Collector, Dashboard}

\* `rows' is how many snapshots the table had when the reader began; `swaps' and
\* `changes' count what the chain had been through when pool and position were
\* read: they are for the properties.
Begun ==
  [next |-> "pool", liquidity |-> position.liquidity, pool |-> whirlpool,
   lower |-> Zero, upper |-> Zero,
   rows |-> Len(snapshots), swaps |-> swaps, changes |-> changes]

Nothing == [next |-> "position"]

At(r, call) == reads[r].next = call

Done(r) == reads' = [reads EXCEPT ![r] = Nothing]

-----------------------------------------------------------------------------
(* The calls *)

ReadPosition(r) ==
  /\ At(r, "position")
  /\ IF r = FeeReader THEN certificate.state \in {"activated", "due"}
                      ELSE Len(snapshots) < MaxSnapshots
  /\ reads' = [reads EXCEPT ![r] = Begun]
  /\ UNCHANGED <<snapshots, certificate>>

ReadPool(r) ==
  /\ At(r, "pool")
  /\ reads' = [reads EXCEPT ![r].next = "lower", ![r].pool = whirlpool, ![r].swaps = swaps]
  /\ UNCHANGED <<snapshots, certificate>>

ReadLower(r) ==
  /\ At(r, "lower")
  /\ reads' = [reads EXCEPT ![r].next = "upper", ![r].lower = ticks.lower]
  /\ UNCHANGED <<snapshots, certificate>>

ReadUpper(r) ==
  /\ At(r, "upper")
  /\ r \in Recorders
  /\ reads' = [reads EXCEPT ![r].next = "recheck", ![r].upper = ticks.upper]
  /\ UNCHANGED <<snapshots, certificate>>

\* An account is unreadable, or a call fails: no snapshot, no checkpoint, no fees.
ReadFails(r) ==
  /\ ~At(r, "position")
  /\ Done(r)
  /\ certificate' =
       IF r = FeeReader
         THEN [certificate EXCEPT !.state = IF @ = "activated" THEN "active" ELSE "settled"]
         ELSE certificate
  /\ UNCHANGED snapshots

\* `grown', `from', `to' and `torn' are for the properties.
Reading(r, upper) ==
  [liquidity |-> reads[r].liquidity,
   inside |-> [t \in Tokens |-> FeeGrowthInside(reads[r].pool, reads[r].lower, upper, t)],
   grown |-> grown["A"] + grown["B"],
   from |-> reads[r].changes, to |-> changes,
   torn |-> reads[r].swaps # swaps]

-----------------------------------------------------------------------------
(* Snapshots *)

StableOnA(r) ==  \* mutant: one token's accumulator stands for both
  reads[r].pool.global["A"] = whirlpool.global["A"]

StableOnTick(r) ==  \* mutant: the accumulators are not compared
  reads[r].pool.tick = whirlpool.tick

\* The pool is read again: neither its accumulators nor its tick have moved.
Stable(r) == reads[r].pool = whirlpool

\* The collector stamps its rows before it reads, the dashboard after it has.
Record(r) ==
  /\ At(r, "recheck")
  /\ Stable(r)
  /\ Done(r)
  /\ LET row == Reading(r, reads[r].upper)
     IN  snapshots' = IF r = Collector THEN InsertAt(snapshots, reads[r].rows + 1, row)
                                       ELSE Append(snapshots, row)
  /\ UNCHANGED certificate

FeesBetween(a, b) ==
  LET earnedOf(t) == a.liquidity * WrapSub(b.inside[t], a.inside[t])
  IN  earnedOf("A") + earnedOf("B")

\* measurePositionFees, for one interval: the price of token A is 1.
IntervalFees(a, b) ==
  IF a.liquidity # b.liquidity \/ FeesBetween(a, b) > MaxPlausible THEN 0 ELSE FeesBetween(a, b)

-----------------------------------------------------------------------------
(* The certificate *)

NoCheckpoint == [none |-> "checkpoint"]

\* Right after activation, and never again.
TakeCheckpoint(r) ==
  /\ r = FeeReader /\ At(r, "upper")
  /\ certificate.state = "activated"
  /\ Done(r)
  /\ certificate' = [certificate EXCEPT !.state = "active",
                                       !.checkpoint = Reading(r, ticks.upper)]
  /\ UNCHANGED snapshots

Expire ==
  /\ certificate.state = "active"
  /\ certificate' = [certificate EXCEPT !.state =
                       IF certificate.checkpoint = NoCheckpoint THEN "settled" ELSE "due"]
  /\ UNCHANGED <<reads, snapshots>>

FeesOfAnyLiquidity(checkpoint, now) ==  \* mutant: a changed position is charged
  IF FeesBetween(checkpoint, now) > MaxPlausible THEN 0 ELSE FeesBetween(checkpoint, now)

\* readAccruedFees: zero if the liquidity changed or the result is implausible.
AccruedFees(checkpoint, now) ==
  IF checkpoint.liquidity # now.liquidity \/ FeesBetween(checkpoint, now) > MaxPlausible
    THEN 0 ELSE FeesBetween(checkpoint, now)

SettleFees(r) ==
  /\ r = FeeReader /\ At(r, "upper")
  /\ certificate.state = "due"
  /\ Done(r)
  /\ LET now == Reading(r, ticks.upper)
     IN  certificate' = [certificate EXCEPT !.state = "settled", !.now = now,
                           !.fees = AccruedFees(certificate.checkpoint, now)]
  /\ UNCHANGED snapshots

-----------------------------------------------------------------------------

ReadsInit ==
  /\ GrowthInit
  /\ reads = [r \in Readers |-> Nothing]
  /\ snapshots = <<>>
  /\ certificate = [state |-> "activated", checkpoint |-> NoCheckpoint,
                    now |-> NoCheckpoint, fees |-> 0]

Read(r) ==
  \/ ReadPosition(r) \/ ReadPool(r) \/ ReadLower(r) \/ ReadUpper(r) \/ ReadFails(r)
  \/ Record(r) \/ TakeCheckpoint(r) \/ SettleFees(r)

ReadsNext ==
  \/ ChainStep /\ UNCHANGED readVars
  \/ ((\E r \in Readers : Read(r)) \/ Expire) /\ UNCHANGED chainVars

ReadsSpec == ReadsInit /\ [][ReadsNext]_readsVars

-----------------------------------------------------------------------------
(* Properties *)

\* Nothing changed the position during the readings nor between them.
SamePosition(a, b) == {a.from, a.to, b.to} = {b.from}

\* An interval of the measurement counts "EXACTLY what the position earned over
\* the window" (position-fees.ts:8-12), or nothing: a reading torn by a swap is
\* not recorded, and rows whose stamps are out of order do not count.
MeasuredIsEarned ==
  \A i \in 2..Len(snapshots) :
    LET a == snapshots[i - 1]
        b == snapshots[i]
    IN  SamePosition(a, b) => IntervalFees(a, b) \in {0, a.liquidity * (b.grown - a.grown)}

\* The fee share of a certificate comes from fees that the position has really
\* earned since activation, to the last unit, when no swap came between the
\* calls of a reading and nobody changed the position meanwhile.
QuietShareIsEarned ==
  LET checkpoint == certificate.checkpoint
      now == certificate.now
  IN  certificate.fees > 0 =>
        /\ checkpoint.liquidity = now.liquidity
        /\ (~checkpoint.torn /\ ~now.torn /\ SamePosition(checkpoint, now))
             => certificate.fees = checkpoint.liquidity * (now.grown - checkpoint.grown)

\* The fee share is "exactly what the Whirlpool program would pay on a
\* `collectFees`", and the reader "must never invent a number that moves money"
\* (fee-reader.ts:15, 28-29): a certificate is not charged for fees that the
\* position has not earned in all the time since before its activation.
FeeShareIsEarned ==
  certificate.fees > 0 =>
    certificate.fees <= certificate.checkpoint.liquidity * certificate.now.grown
=============================================================================
