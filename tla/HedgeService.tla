--------------------------- MODULE HedgeService ---------------------------
(***************************************************************************)
(* The web process around the hedge ledger: withHedge, the lock that every *)
(* access goes through and that persists the events when it is released    *)
(* (hedge-ledger.ts); the settlement cycle (packages/hedge/src/runner.ts)  *)
(* run by the scheduler (settlement-scheduler.ts), which holds the lock    *)
(* across its network reads; and the routes that take the lock in between. *)
(*                                                                         *)
(* Of the ledger (module CertificateLedger) only the decisions are kept:   *)
(* the status of each quote and its certificate, whether a transfer was    *)
(* used or refunded, and which decisions owe money.  `ledger' is memory,   *)
(* `disk' what the event log replays to.  Whether a payment of the right   *)
(* amount activates (headroom, limits, paused) is left open.               *)
(***************************************************************************)
EXTENDS Naturals, Sequences, FiniteSets

CONSTANTS
  Quotes, Transfers,   \* quotes (and their certificates), transfers to the treasury
  NoQuote,
  QuoteOf,             \* the quote a transfer's memo names
  Exact,               \* transfers of the quoted amount
  Dust,                \* transfers below MIN_REFUND_USDC
  Routes,              \* requests served by the quote and status routes
  PriceTakesLock,      \* TRUE: the price reader calls withHedge, as the scheduler's does
  PortsMayFail,        \* TRUE: a read of chain or vendor may throw
  MaxFaults            \* bound of the model

ASSUME ServiceAssumption ==
  /\ Quotes \cap Transfers = {}
  /\ NoQuote \notin Quotes
  /\ QuoteOf \in [Transfers -> Quotes \cup {NoQuote}]
  /\ IsFiniteSet(Transfers)
  /\ Exact \subseteq Transfers /\ Dust \subseteq Transfers
  /\ {"cycle", "price"} \cap Routes = {}
  /\ PriceTakesLock \in BOOLEAN /\ PortsMayFail \in BOOLEAN
  /\ MaxFaults \in Nat

VARIABLES
  chain,    \* withHedge: the calls not yet settled, the first one running
  ledger,   \* in memory
  disk,     \* hedge-events.jsonl
  late,     \* quotes past validUntilTs
  due,      \* certificates past expiryTs
  landed,   \* finalized transfers, in chain order
  cursor,   \* how many of them the scheduler has scanned
  cycle,    \* the settlement cycle
  outbox,   \* payout-outbox.jsonl
  faults    \* how many crashes and failed saves, and whether memory is
            \* ahead of the disk since a failed save

time == <<late, due>>

vars == <<chain, ledger, disk, late, due, landed, cursor, cycle, outbox, faults>>

Refs == Quotes \cup Transfers

-----------------------------------------------------------------------------
(* withHedge: a call runs when all calls before it have settled. *)

Caller == Routes \cup {"cycle", "price"}

Waits(c) == \E i \in DOMAIN chain : chain[i] = c

Runs(c) == chain # <<>> /\ Head(chain) = c

CallAgain(c) == chain' = Append(chain, c)  \* mutant: no running flag

Call(c) == ~Waits(c) /\ chain' = Append(chain, c)

ReleaseUnsaved(after) ==  \* mutant: the call is answered before it is saved
  /\ chain' = Tail(chain) /\ ledger' = after /\ disk' = ledger
  /\ faults' = [faults EXCEPT !.behind = FALSE]

\* persistNewEvents runs in the `finally' of the call, whether it threw or not.
Release(after) ==
  /\ chain' = Tail(chain) /\ ledger' = after /\ disk' = after
  /\ faults' = [faults EXCEPT !.behind = FALSE]

\* The append throws: the caller has an error instead of its answer, the next
\* call saves what this one did.
Unsaved(after) ==
  /\ faults.count < MaxFaults
  /\ after # disk
  /\ chain' = Tail(chain) /\ ledger' = after /\ disk' = disk
  /\ faults' = [count |-> faults.count + 1, behind |-> TRUE]

-----------------------------------------------------------------------------
(* The ledger, as far as the loop can tell *)

Ledger ==
  [quote : [Quotes -> {"none", "open", "lapsed", "consumed"}],
   cert : [Quotes -> {"none", "active", "settled"}],
   payment : [Transfers -> {"unseen", "unmatched", "matched"}],
   owed : SUBSET Refs]

OpenedLedger ==
  [quote |-> [q \in Quotes |-> "none"], cert |-> [q \in Quotes |-> "none"],
   payment |-> [t \in Transfers |-> "unseen"], owed |-> {}]

Lapsed(l) ==
  [l EXCEPT !.quote = [q \in Quotes |->
      IF l.quote[q] = "open" /\ q \in late THEN "lapsed" ELSE l.quote[q]]]

Activatable(l, t) ==
  /\ t \in Exact /\ QuoteOf[t] \in Quotes
  /\ l.quote[QuoteOf[t]] = "open" /\ QuoteOf[t] \notin late
  /\ l.cert[QuoteOf[t]] = "none"

Unmatched(l, t) == [l EXCEPT !.payment[t] = "unmatched"]

Activated(l, t) ==
  [l EXCEPT !.payment[t] = "matched",
            !.quote[QuoteOf[t]] = "consumed", !.cert[QuoteOf[t]] = "active"]

RefundableAtOnce(l) ==  \* mutant: a lapsed quote's exact payment is kept
  {t \in Transfers \ Dust :
     l.payment[t] = "unmatched" /\ (QuoteOf[t] \in Quotes => t \notin Exact)}

Refundable(l) ==
  {t \in Transfers \ Dust :
     /\ l.payment[t] = "unmatched"
     /\ QuoteOf[t] \in Quotes =>
          l.quote[QuoteOf[t]] # "open" \/ QuoteOf[t] \in late \/ t \notin Exact}

Refunded(l) ==
  [l EXCEPT !.payment = [t \in Transfers |->
                           IF t \in Refundable(l) THEN "matched" ELSE l.payment[t]],
            !.owed = @ \cup Refundable(l)]

DueAgain(l) == {q \in Quotes : l.cert[q] # "none" /\ q \in due}  \* mutant: settled ones too

Due(l) == {q \in Quotes : l.cert[q] = "active" /\ q \in due}

Settled(l, q, pays) ==
  [l EXCEPT !.cert[q] = "settled", !.owed = IF pays THEN @ \cup {q} ELSE @]

-----------------------------------------------------------------------------
(* The routes: quote issues after a lapse sweep, status only sweeps.  Both   *)
(* callbacks are synchronous.                                                *)

Request(r) ==
  /\ Call(r)
  /\ UNCHANGED <<ledger, disk, time, landed, cursor, cycle, outbox, faults>>

ServeStatus(r) ==
  /\ Runs(r)
  /\ Release(Lapsed(ledger)) \/ Unsaved(Lapsed(ledger))
  /\ UNCHANGED <<time, landed, cursor, cycle, outbox>>

ServeQuote(r) ==
  /\ Runs(r)
  /\ \E q \in Quotes :
       /\ ledger.quote[q] = "none"
       /\ LET after == [Lapsed(ledger) EXCEPT !.quote[q] = "open"]
          IN  Release(after) \/ Unsaved(after)
  /\ UNCHANGED <<time, landed, cursor, cycle, outbox>>

-----------------------------------------------------------------------------
(* The settlement cycle *)

Cycle ==
  [pc : {"idle", "calling", "observing", "balance", "settling", "reading", "queueing"},
   scanned : Nat,               \* where the scan ended
   todo : Seq(Transfers),       \* scanned, not yet observed
   certs : SUBSET Quotes,       \* due certificates not yet looked at
   cert : Quotes \cup {NoQuote},
   pending : Seq(Refs)]         \* payouts decided by this cycle

IdleCycle ==
  [pc |-> "idle", scanned |-> 0, todo |-> <<>>, certs |-> {}, cert |-> NoQuote,
   pending |-> <<>>]

At(pc) == cycle.pc = pc

\* The `running' flag: a cycle never overlaps another.
StartCycle ==
  /\ At("idle")
  /\ Call("cycle")
  /\ cycle' = [cycle EXCEPT !.pc = "calling"]
  /\ UNCHANGED <<ledger, disk, time, landed, cursor, outbox, faults>>

Scanned ==
  [cycle EXCEPT !.pc = "observing", !.scanned = Len(landed),
                !.todo = SubSeq(landed, cursor + 1, Len(landed))]

ScanPaymentsEagerly ==  \* mutant: the cursor moves before the events are saved
  /\ At("calling") /\ Runs("cycle")
  /\ cycle' = Scanned
  /\ cursor' = Len(landed)
  /\ UNCHANGED <<chain, ledger, disk, time, landed, outbox, faults>>

\* Everything landed since the cursor; module PaymentScan has what the chain
\* adapter may miss.
ScanPayments ==
  /\ At("calling") /\ Runs("cycle")
  /\ cycle' = Scanned
  /\ UNCHANGED <<chain, ledger, disk, time, landed, cursor, outbox, faults>>

\* A transfer seen before is a no-op; a new one activates or waits unmatched.
Observed(l, t) ==
  IF l.payment[t] # "unseen" THEN {l}
  ELSE {Unmatched(l, t)} \cup (IF Activatable(l, t) THEN {Activated(l, t)} ELSE {})

ObservePayment ==
  /\ At("observing") /\ cycle.todo # <<>>
  /\ ledger' \in Observed(ledger, Head(cycle.todo))
  /\ cycle' = [cycle EXCEPT !.todo = Tail(@)]
  /\ UNCHANGED <<chain, disk, time, landed, cursor, outbox, faults>>

LapseQuotes ==
  /\ At("observing") /\ cycle.todo = <<>>
  /\ ledger' = Lapsed(ledger)
  /\ cycle' = [cycle EXCEPT !.pc = "balance"]
  /\ UNCHANGED <<chain, disk, time, landed, cursor, outbox, faults>>

\* Once the balance is read: the certificates due at this moment.
ListDue ==
  /\ At("balance")
  /\ cycle' = [cycle EXCEPT !.pc = "settling", !.certs = Due(ledger)]
  /\ UNCHANGED <<chain, ledger, disk, time, landed, cursor, outbox, faults>>

\* The cycle holds the lock while it waits for the price, and so does the
\* reader's own call of withHedge, which queues behind the cycle.
AskPrice(q) ==
  /\ At("settling") /\ q \in cycle.certs
  /\ cycle' = [cycle EXCEPT !.pc = "reading", !.certs = @ \ {q}, !.cert = q]
  /\ chain' = IF PriceTakesLock THEN Append(chain, "price") ELSE chain
  /\ UNCHANGED <<ledger, disk, time, landed, cursor, outbox, faults>>

\* A "price" in the chain is behind the cycle that waits for it, and the cycle
\* leaves the chain only when it has returned: no step serves it.
PriceRead == At("reading") /\ ~Waits("price")

\* Sources disagree or one is unavailable, or the float does not cover the
\* worst case: the certificate stays due.
Skip ==
  /\ PriceRead
  /\ cycle' = [cycle EXCEPT !.pc = "settling", !.cert = NoQuote]
  /\ UNCHANGED <<chain, ledger, disk, time, landed, cursor, outbox, faults>>

SettleQueueing(q) ==  \* mutant: the payout is queued before the decision is saved
  /\ PriceRead /\ cycle.cert = q
  /\ ledger' = Settled(ledger, q, TRUE)
  /\ cycle' = [cycle EXCEPT !.pc = "settling", !.cert = NoQuote]
  /\ outbox' = Append(outbox, q)
  /\ UNCHANGED <<chain, disk, time, landed, cursor, faults>>

Settle(q) ==
  /\ PriceRead /\ cycle.cert = q
  /\ \E pays \in BOOLEAN :
       /\ ledger' = Settled(ledger, q, pays)
       /\ cycle' = [cycle EXCEPT !.pc = "settling", !.cert = NoQuote,
                                 !.pending = IF pays THEN Append(@, q) ELSE @]
  /\ UNCHANGED <<chain, disk, time, landed, cursor, outbox, faults>>

\* The refund sweep is synchronous, and so are the end of the cycle, the
\* release of the lock and the move of the cursor that follow it.
RefundAndRelease ==
  /\ At("settling") /\ cycle.certs = {}
  /\ Release(Refunded(ledger))
  /\ cursor' = cycle.scanned
  /\ \E refunds \in {f \in [1..Cardinality(Refundable(ledger)) -> Refundable(ledger)] :
                       \A i, j \in DOMAIN f : f[i] = f[j] => i = j} :
       cycle' = [cycle EXCEPT !.pc = "queueing", !.pending = @ \o refunds]
  /\ UNCHANGED <<time, landed, outbox>>

\* The save at the end of the cycle fails, and so does the cycle.
RefundUnsaved ==
  /\ At("settling") /\ cycle.certs = {}
  /\ Unsaved(Refunded(ledger))
  /\ cycle' = IdleCycle
  /\ UNCHANGED <<time, landed, cursor, outbox>>

FailCycleRunning ==  \* mutant: the running flag is not reset
  /\ PortsMayFail
  /\ \/ At("calling") /\ Runs("cycle")
     \/ At("balance")
     \/ PriceRead
  /\ Release(ledger)
  /\ cycle' = [IdleCycle EXCEPT !.pc = "calling"]
  /\ UNCHANGED <<time, landed, cursor, outbox>>

\* A read throws: what the cycle did so far is saved, if it can be; the payouts
\* it had collected and its cursor are dropped.
FailCycle ==
  /\ PortsMayFail
  /\ \/ At("calling") /\ Runs("cycle")
     \/ At("balance")
     \/ PriceRead
  /\ Release(ledger) \/ Unsaved(ledger)
  /\ cycle' = IdleCycle
  /\ UNCHANGED <<time, landed, cursor, outbox>>

QueuePayout ==
  /\ At("queueing") /\ cycle.pending # <<>>
  /\ outbox' = Append(outbox, Head(cycle.pending))
  /\ cycle' = [cycle EXCEPT !.pending = Tail(@)]
  /\ UNCHANGED <<chain, ledger, disk, time, landed, cursor, faults>>

EndCycle ==
  /\ At("queueing") /\ cycle.pending = <<>>
  /\ cycle' = IdleCycle
  /\ UNCHANGED <<chain, ledger, disk, time, landed, cursor, outbox, faults>>

-----------------------------------------------------------------------------
(* The world: time passes, buyers pay, the process restarts *)

QuoteExpires(q) ==
  /\ ledger.quote[q] = "open"
  /\ q \notin late
  /\ late' = late \cup {q}
  /\ UNCHANGED <<chain, ledger, disk, due, landed, cursor, cycle, outbox, faults>>

CertificateExpires(q) ==
  /\ ledger.cert[q] = "active"
  /\ q \notin due
  /\ due' = due \cup {q}
  /\ UNCHANGED <<chain, ledger, disk, late, landed, cursor, cycle, outbox, faults>>

\* The reference of a quote is known once the answer has been sent.
Land(t) ==
  /\ \A i \in DOMAIN landed : landed[i] # t
  /\ QuoteOf[t] \in Quotes => disk.quote[QuoteOf[t]] # "none"
  /\ landed' = Append(landed, t)
  /\ UNCHANGED <<chain, ledger, disk, time, cursor, cycle, outbox, faults>>

\* The lock, the cursor and the cycle are memory; a certificate whose
\* activation was not saved will have another expiry if it is activated again.
Crash ==
  /\ faults.count < MaxFaults
  /\ faults' = [count |-> faults.count + 1, behind |-> FALSE]
  /\ chain' = <<>> /\ cycle' = IdleCycle /\ cursor' = 0
  /\ ledger' = disk
  /\ late' = {q \in late : disk.quote[q] # "none"}
  /\ due' = {q \in due : disk.cert[q] # "none"}
  /\ UNCHANGED <<disk, landed, outbox>>

-----------------------------------------------------------------------------

Init ==
  /\ chain = <<>>
  /\ ledger = OpenedLedger /\ disk = OpenedLedger
  /\ late = {} /\ due = {}
  /\ landed = <<>> /\ cursor = 0
  /\ cycle = IdleCycle
  /\ outbox = <<>>
  /\ faults = [count |-> 0, behind |-> FALSE]

Serve(r) == ServeStatus(r) \/ ServeQuote(r)

Next ==
  \/ \E r \in Routes : Request(r) \/ ServeStatus(r) \/ ServeQuote(r)
  \/ StartCycle \/ ScanPayments \/ ObservePayment \/ LapseQuotes \/ ListDue
  \/ \E q \in Quotes : AskPrice(q) \/ Settle(q)
  \/ Skip \/ RefundAndRelease \/ RefundUnsaved \/ FailCycle
  \/ QueuePayout \/ EndCycle
  \/ \E q \in Quotes : QuoteExpires(q) \/ CertificateExpires(q)
  \/ \E t \in Transfers : Land(t)
  \/ Crash

\* The timer starts cycles for ever and the event loop runs what is ready; the
\* clock passes every deadline.  A read may fail or a source disagree any
\* number of times, but not at every attempt.
Fairness ==
  /\ WF_vars(StartCycle) /\ WF_vars(ObservePayment) /\ WF_vars(LapseQuotes)
  /\ WF_vars(Skip)
  /\ WF_vars(QueuePayout) /\ WF_vars(EndCycle)
  /\ \A r \in Routes : WF_vars(Serve(r))
  /\ \A q \in Quotes : WF_vars(QuoteExpires(q)) /\ WF_vars(CertificateExpires(q))
  /\ SF_vars(ScanPayments) /\ SF_vars(ListDue) /\ WF_vars(RefundAndRelease)
  /\ SF_vars(\E q \in Quotes : AskPrice(q)) /\ SF_vars(\E q \in Quotes : Settle(q))

Spec == Init /\ [][Next]_vars /\ Fairness

-----------------------------------------------------------------------------
(* Properties *)

\* The variables keep their types; nobody queues twice for the lock.
TypeOK ==
  /\ chain \in Seq(Caller)
  /\ \A i, j \in DOMAIN chain : chain[i] = chain[j] => i = j
  /\ ledger \in Ledger /\ disk \in Ledger
  /\ late \subseteq Quotes /\ due \subseteq Quotes
  /\ landed \in Seq(Transfers) /\ cursor \in 0..Len(landed)
  /\ cycle \in Cycle
  /\ outbox \in Seq(Refs)
  /\ faults \in [count : 0..MaxFaults, behind : BOOLEAN]

\* Whoever is answered, a route or the next cycle, sees only what a restart
\* would find: memory is ahead of the disk only inside a running cycle, or until
\* the next call has saved what one could not; and the executor, which reads the
\* outbox at any time, is never handed a decision that is not on disk.
AnswersAreDurable ==
  /\ cycle.pc \in {"idle", "calling", "queueing"} /\ ~faults.behind => ledger = disk
  /\ \A i \in DOMAIN outbox : outbox[i] \in disk.owed

\* The payouts handed to the executor are decisions that no restart takes back
\* and no decision is handed over twice, however cycles fail and processes
\* restart: the executor is owed this, a receipt is all it knows.
QueuedOnceDecided ==
  /\ \A i, j \in DOMAIN outbox : outbox[i] = outbox[j] => i = j
  /\ \A i \in DOMAIN outbox : outbox[i] \in disk.owed

\* The cursor passes a transfer only when the ledger on disk has it: a crash
\* or a failed cycle has it scanned again.
CursorIsDurable ==
  \A i \in 1..cursor : disk.payment[landed[i]] # "unseen"

\* Settlement never waits for ever: "quoting pauses, settlement never does"
\* (packages/hedge/src/invariants.ts:6-7).
DueIsSettled ==
  \A q \in Quotes :
    (q \in due /\ disk.cert[q] = "active") ~> disk.cert[q] = "settled"

\* The money of a transfer (above the dust) buys a certificate or goes back,
\* whatever the amount, the deadline and the restarts.
PaymentIsDecided ==
  \A t \in Transfers \ Dust :
    (\E i \in DOMAIN landed : landed[i] = t) ~> disk.payment[t] = "matched"

\* "Payout execution is at-least-once" (runner.ts:10-11): a decision that owes
\* money is queued, or the cycle that took it still has it.
OwedIsKept ==
  \A ref \in disk.owed :
    \/ \E i \in DOMAIN outbox : outbox[i] = ref
    \/ \E i \in DOMAIN cycle.pending : cycle.pending[i] = ref
=============================================================================
