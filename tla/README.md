# Verification of the LiquidityHedge platform

TLA+ specifications of the part of `src/platform` that takes, keeps and pays
money: the ledger of hedge certificates, the web process and the payout
executor around it, the payment scanner, the shop for data products, the two
browser components that buyers use, the share pool and certificates of the
protocol core, and the readers of a position's fees. TLC checks every module on
small instances; TLAPS proves for every value of the constants what matters most
about the certificate ledger, the web process, the executor and the protocol
core. `PROJECT.json` lists the components, runs, mutants, hazards, theorems, and
for every definition the lines of source it stands for.

The platform sells short-lived protection ("certificates") for concentrated
liquidity positions on Solana, for USDC. A buyer asks for a quote, transfers
premium and collateral to the treasury with the quote's reference as memo, and
is insured until the certificate expires; it is then settled against a price,
and the buyer gets collateral and payoff back. A second, smaller business sells
datasets for USDC. There is no database transaction anywhere on these paths:
state is JavaScript objects, and files of events that are appended to.

## 1. Inventory

Paths below are relative to `src/platform`.

### Components

| component | code | state | operations | status |
|---|---|---|---|---|
| certificate ledger | `packages/hedge/src/{ledger,invariants,types}.ts` | quotes, payments, certificates, treasury totals; event log | issueQuote, observePayment (tryActivate), lapseExpiredQuotes, recordFeeCheckpoint, settle, refundPayment, setPaused, commit, fromEvents | modelled, proved |
| settlement cycle, scheduler, ledger lock | `packages/hedge/src/runner.ts`, `apps/web/src/lib/server/{settlement-scheduler,hedge-ledger}.ts`, quote and status routes | promise chain (lock), events file, outbox file, cursor, `running` flag | withHedge, runSettlementCycle, runCycleOnce, boot, POST quote, GET status | partly; safety proved |
| payout executor | `services/ops-jobs/src/payout-executor.ts` | outbox, receipts and quarantine files; budget of a cycle | one cycle: quarantine, defer, pay, receipt | modelled, proved |
| payment watcher | `packages/hedge/src/adapters/payment-{watcher,parse}.ts` | cursor | scanTreasuryPayments, parse | modelled |
| commerce order ledger | `packages/commerce/src/{order-ledger,payment,types}.ts` | orders, used signatures; event log | createOrder, observePayment, fulfil, reissueDownloadToken, redeemDownloadToken, fromEvents (expireStale and needsAttention have no caller) | partly |
| data product web process | `apps/web/src/lib/server/{order-ledger,order-watcher,payment-lookup}.ts`, `apps/web/src/app/api/data/{order,status,download}` | promise chain, events file, `running` flag | withOrders, order, status and download routes, scanRevenueWalletOnce | partly |
| checkout page | `apps/web/src/components/data/checkout.tsx` | React state, sessionStorage | create an order, poll, pay, download, start over | partly |
| hedge purchase panel | `apps/web/src/components/hedge-panel.tsx` | React state | open and resume, sign, request a quote, poll, close | partly |
| wallet proof, rate limit | `apps/web/src/lib/server/{wallet-auth,rate-limit}.ts` | nonces, sliding windows | issue, verify once; count, evict | partly: the nonces |
| protocol core: pool, certificates | `packages/core/src/{pool-manager,orchestrator}`, the store, regime freshness | shares, reserves, exposure, positions in escrow, certificates | deposit, withdraw, register, release, buy, settle | modelled, proved |
| protocol core: lifecycle, event audit | `packages/core/src/orchestrator/lifecycle`, `…/event-audit` | monitor loop, audit log | settle, auto-close, refresh fees, log | partly: the fee refresher's formula, the store's lookups |
| protocol core: market data, escrow adapters | `packages/core/src/{market-data,position-escrow}` | – | decoding, RPC | partly: `fees-owed.ts` |
| protocol core: pricing, risk | `packages/core/src/{pricing-engine,risk-analyser}` | – | formulas | not modelled: floating point |
| market inputs of the web process | `apps/web/src/lib/server/{fee-reader,position-yield,hedge-market,birdeye,…}.ts` | caches | fees of a position; estimates for quotes and pages | partly: the reads of fees |
| portfolio | `packages/portfolio/src` | – | discovery of positions, views | partly: discovery's reads and recheck |
| operations jobs, market data algorithms | `services/ops-jobs/src`, `packages/market-data/src` | tables of snapshots | snapshots, measured fees; ingest, in-range time, reports, drills | partly: position snapshots and what is measured from them |
| hedge development routes | `apps/web/src/app/api/hedge/dev` | – | simulate a payment, settle what is due (only with `HEDGE_DEV_MODE=1`) | not modelled |
| hedge pricing, term sheet | `packages/hedge/src/{pricing,term-sheet,anchoring}.ts` | – | prices, caps, documents | not modelled: floating point; the ledger takes any terms |
| risk models, storage, other pages | `packages/{risk-models,storage}`, `apps/web/src` | – | Monte Carlo, SQL, presentation | not modelled |
| prototype, Quint model | `src/lh-protocol`, `formal/lh_ledger.qnt` | – | the prototype `packages/core` replaces; a Quint model of I1–I5 | not modelled: superseded; not code |

### Who talks to whom

- The quote and status routes, the settlement cycle, the scheduler's price
  reader and the development routes all reach the hedge ledger through
  `withHedge` (`hedge-ledger.ts`): a promise chain that runs one callback at a
  time and appends the new events to `hedge-events.jsonl` when the callback has
  ended, thrown or not. The settlement cycle is one such callback: it holds the
  lock over every network read it awaits.
- The cycle asks the payment watcher for transfers since a cursor that lives in
  memory, observes them, settles what is due, refunds what cannot activate, and
  reports payouts. After the lock is released the scheduler appends these to
  `payout-outbox.jsonl`.
- The payout executor is another process with the key. It reads the outbox and
  writes `receipts.jsonl`; nothing else connects the two.
- The data routes, the watcher and a restart reach the order ledger through
  `withOrders`, whose callbacks are all synchronous. Routes and watcher read the
  chain outside of it, before and between their calls.
- Both browser components poll a status route, one request after the other. A
  React effect that is cleaned up ignores the answer of its request; the server
  serves the request all the same.
- The protocol core is called by tests and scripts only, in one process over an
  in-memory store. Positions' fees are read from the chain by three readers, each
  with several calls between which the chain moves.

### What is hard

1. *Sequences.* The monitors I1–I4 are asserted after the change, and `commit`
   cannot undo it; headroom is checked when a certificate is activated, against
   reserves that later settlements shrink.
2. *Two implementations of each change.* Live operation and replay are separate
   code in both ledgers; a difference shows after a restart.
3. *Awaits under a lock, and awaits outside of one.* The cycle waits for itself
   when a port takes the lock; status poll and order watcher act on what they
   read before an await.
4. *Files written one after the other.* Ledger, then outbox; transfer, then
   receipt; memory is ahead of both in between.
5. *Timeouts whose operation succeeded.* A transfer that lands unconfirmed.
6. *Windows and cursors.* What falls out of a scan's window, or is listed but
   not yet served, or expires between two scans.
7. *Answers that come late.* A browser that has moved on to another order or
   quote; a signed request that arrives after the next one was signed.
8. *Reads that do not belong together.* A pool, two ticks and a position from
   different moments, in arithmetic that wraps.
9. *Doubles as integers.* The pool prices shares by products of two amounts in
   micro-USDC, which doubles do not hold exactly from about 95 USDC on.

`PROJECT.json` has each of these as a hazard at its line, with the properties
that watch it, or with a note when none does yet.

### What makes each component correct

- *Certificate ledger*: the monitors hold in every state; exposure stays within
  the permitted share of the net reserves; every certificate can be paid from
  money that is not somebody's deposit; every received micro-USDC is waiting,
  returned or has bought one certificate; a position is insured once; a buyer
  stays within the cap; decisions are final; a restart changes nothing.
- *Web process*: whoever is answered sees what a restart would find; a payout is
  queued once, and only for a saved decision; the cursor passes no unsaved
  payment; what is due is settled and what is paid is decided, at last.
- *Payout executor*: a receipted payout is never repeated, only valid lines are
  paid, every payout that fits is paid at last.
- *Payment watcher*: every payment is credited once, in the chain's order.
- *Data shop*: no file without a payment of its own; a grant works once; a
  payment with a reference is decided; a restart changes nothing.
- *Checkout page and purchase panel*: what is shown is of the order or quote on
  display; a paid file is offered, a bought certificate is shown at last (that the
  file also arrives does not hold, `download_lost`); every quote was signed for.
- *Protocol core*: shares and exposure are what depositors and certificates have; the
  ceiling holds in every order of calls; whoever enters or leaves takes less than one
  micro-USDC, the rounding of doubles, from the others; a position is protected exactly
  while its certificate is in force; what is due is settled.
- *Fee readers*: both computations give what a collection would pay; what is
  recorded and measured was earned; a buyer is charged for no other fees.

## 2. Plan

Order: the ledger that everything else relies on; then the processes around it,
where the awaits, crashes and files are; then the second ledger; then the
protocol core and the clients.

| step | modules | composes | state |
|---|---|---|---|
| 1 | `PrefixSums`, `CertificateLedger`, `ReserveAccounting` | the ledger implements the abstract accounting | done |
| 2 | `PrefixSumsProofs`, `ReserveAccountingProofs`, `CertificateLedgerProofs`, `LedgerIntegrityProofs` | theorems of step 1 | done |
| 3 | `HedgeService`, `PayoutExecutor`, `HedgeSystem`, `OwedPayouts`, `PaymentScan` | web process and executor over one outbox, against the abstract promise; failing saves | done |
| 4 | `OrderLedger`, `DataShop` | routes, watcher and order ledger | done |
| 5 | `PayoutExecutorProofs`, `HedgeServiceProofs` | theorems of step 3: each process, then both | done |
| 6 | `Doubles`, `ProtocolCore`, `SharePool` | the core, with its arithmetic in doubles, implements the abstract share pool | done |
| 7 | `FeeGrowth`, `FeeReads` | the chain and three readers of it | done |
| 8 | `ProtocolProofs` | theorems of steps 6 and 7 | done |
| 9 | `CheckoutPage`, `HedgePanel` | the page as client of `DataShop`; the panel with challenge, quote and status routes | done |
| 10 | `ProcessesProofs` | theorems of the payment scan, of step 4 and of step 9: the shop, then the page in front of it | done |
| 11 | ingestion and in-range time of the data jobs; the rate limiter's windows; torn appends; the hot wallet's balance against the queue | – | open |

Abstract specifications: `ReserveAccounting` (what the treasury promises),
`OwedPayouts` (what outbox and executor promise together), `SharePool` (what the
pool promises its depositors).

Theorems: `Inv` of each component as `Spec => []Inv` by a strengthening that TLC has
agreed to, then the refinements. Every safety property that a passing run checks is
proved; what is left to TLC is liveness (section 5).

## 3. The modules

### CertificateLedger – `packages/hedge/src/ledger.ts`

`state` is `LedgerState`, with the sequences and maps of the source as sequences
and functions; a quote's position in the sequence stands for its random id and
for its payment reference. Every public operation is an action, with the guards
in the source's order: `IssueQuote` (pause, regime age, duplicate protection,
open quotes per owner, lifetime quotes, headroom), `ObservePayment` with
`tryActivate` inside, `LapseExpiredQuotes`, `RecordFeeCheckpoint`, `RefundPayment`,
`Settle`, `SetPaused`. `Commit` does what `commit` does: the new state is set by
the operation, and the event is appended.

`log` is the event log, represented by what `fromEvents` makes of it: the state
that `ApplyReplay` rebuilds event by event, and whether every event was accepted.
`ApplyReplay` is translated from `applyReplay`, the operations from their own
bodies, so that `RestartReproduces` compares two pieces of code.

Money is in integer micro-USDC. A price is not computed: the terms of a quote come
from the constant `Terms`, the payoff of a settlement is any value from
`-capUp` to `capDown`, plus and minus `FloatDust` for the rounding of two
floating-point valuations, before `settle` clamps it.

### ReserveAccounting

Four numbers (reserves, exposure, deposits, collateral) and four steps: deposit,
return, sell, settle. It says what the monitors are for: exposure stays within
the ceiling, every certificate can be paid. `CertificateLedger` implements it
under the mapping of `Accounts` (net reserves, active caps, unmatched payments,
active collateral).

### HedgeService – the web process

`chain` is the promise chain of `withHedge`; a caller runs when it is first in it.
`ledger` is memory, `disk` is what the events file replays to; `Release` persists,
`Unsaved` is a save that throws: the caller has an error, and memory is ahead of the
disk until the next call saves both (`faults.behind`). The settlement cycle is a state
machine (`cycle.pc`) with one step between any two awaits of `runSettlementCycle`: scan,
observe, lapse, balance, for each due certificate read the price and settle or skip,
then in one step refund, release, and move the cursor (`RefundUnsaved` when the save
fails), then append one payout at a time. `FailCycle` is a read that throws: the lock's
`finally` saves, the report is lost. `Crash` may come between any two steps. The ledger
is reduced to what the loop can tell: status of quotes, certificates and payments, and
the set of decisions that owe money (`owed`), which is a ghost for the properties.
Whether a payment of the right amount activates is left open: `CertificateLedger` has
the conditions.

`PriceTakesLock` is TRUE for the scheduler's price reader, which calls `withHedge`
from inside the cycle, and FALSE for readers as the tests and the devnet rehearsal
use them. The first stops the process at the first due certificate (run
`hedge_deadlock`); all other runs are about the code with a reader that takes no
lock, because nothing else could be seen otherwise.

### PayoutExecutor, OwedPayouts, HedgeSystem

The files are variables that outlive a restart; `todo` (the lines a cycle has
read and not come to) and `budget` do not. `paid`, `spent` and `lost` count
transfers on chain, for the properties. A transfer may be refused (`PayFails`), or
land although the process sees an error or stops before the receipt is written
(`PayUnconfirmed`). `HedgeSystem` runs both processes over one outbox and has the
executor as an instance; `FeedsExecutor` checks that the web process keeps what
`Enqueue` assumes, `PaysWhatIsQueued` that both together implement `OwedPayouts`.

### PaymentScan

The chain is a sequence; a scan sees at most `Limit` signatures back to the
cursor, from a node whose tip may lag, and some transactions may be missing. The
scheduler's cursor is memory and restarts from nothing.

### OrderLedger, DataShop

`OrderLedger` is the pure part: what each operation makes of the orders, which
event it commits, and `Replay`, translated from `fromEvents`. `DataShop` has one
action for each stretch of code between awaits: `FindPayment` (the lookup),
`CreditPoll` (the second `withOrders` of the status route), `Answer` (reissue and
response), `Download`, `StartScan` (the watcher's snapshot of the open orders),
`ListSignatures` (the node's answer, later), `Inspect` (one transaction), `EndScan`.
Several polls and the watcher interleave, and each may hold a
transaction or an order that the other has settled meanwhile. Tokens are not
strings: `held` are the orders whose buyer has the token of the current grant, and
a new grant makes all earlier tokens worthless (`Issue`, `WithoutToken`).

### CheckoutPage – `checkout.tsx` in front of `DataShop`

`page` is the component's state: the order on display, the status and token last
received, the request that is not cancelled. Every request of `DataShop` is made by
the page, and what the page turns away from goes on at the server: `Serve` are the
server's steps, `Receive` is the answer, which `Applied` ignores when its effect was
cleaned up. `LoseRequest` is a broken connection or a 429. `StartOver` and `Reload`
forget the component's state, `stored` (sessionStorage) survives both. `ClickedSpec`
adds a user who clicks on the link while it works, over streams of which not every one
breaks; it is the specification under which the file would have to arrive.

### HedgePanel – `hedge-panel.tsx`, `wallet-auth.ts`, quote and status routes

`panel` is the component: its phase, the quote and the certificate on display, and
what a pending request waits for (`task`). The server has the challenges (`nonces`,
`stale`, swept at the cap), the signed requests (`posts`, served any number of
times), those that passed the proof and await chain and vendor (`checked`), and the
quotes of the position, reduced to what `CertificateLedger` says of one position.
The consent step, which changes only the layout, is part of the phase `quote`.

### ProtocolCore, SharePool

`ProtocolCore` is the in-memory use of `OffchainLhProtocol`: pool and share ledger,
positions in escrow, templates, the regime snapshot with its age, certificates as
the store keeps them (a sequence, of which `CertificateOf` finds the first of a
position). The payoff of a settlement is any value between what the buyer may owe
and the cap, give or take `FloatDust`. `DustAssumption` says that what the
ceiling keeps free of a cap covers its rounding.

Shares are priced as in `pool.ts`, by `Math.floor((a * b) / c)` in doubles (lines 99
and 162–164), which is not integer division: from about 95 USDC on the product of two
amounts passes 2^53 and is rounded before it is divided. `Doubles` has both roundings,
of the product and of the quotient, to the nearest double and to the even one of two.
`Exact` stands for 2^53 and may be any natural number, `Spacings` for the powers of two
up to the widest gap: with a mantissa of five bits, single-digit amounts meet every
rounding that 53 bits show at amounts of millions. Amounts themselves are `Countable`,
below 2^52 micro-USDC. Elsewhere the core, and the certificate ledger, multiply an
amount by at most 10,000 basis points, which is exact below some 900,000 USDC; there
the models use integers.

`SharePool` has reserves, shares and exposure: whoever enters or leaves takes less than
one micro-USDC from all others together (`Undiluted`), the last to leave leaves at most
one behind, a sale is covered, a settlement costs at most the exposure it ends. Without
the tolerance of one neither holds of the code (section 7).

### FeeGrowth, FeeReads

`FeeGrowth` is the Whirlpool program as far as the fees of one position go (external:
written from how `fees-owed.ts` and `fee-refresher.ts` use its accounts), and the two
computations of the repository. Accumulators wrap at `Modulus`, ticks keep the growth
of their far side. `grown`, `marked` and `earned` are ghosts. In `FeeReads` the
collector, the dashboard and the settlement's fee reader read position, pool and
ticks in separate calls; the first two read the pool again and give up when it has
moved (`Stable`), the third does not.

### One run for several parts

`MCProcesses` and `MCProtocol` put several parts into one run. `part`, chosen in the
initial state, says which of them runs; the variables of the others stay at their start,
so that the states are the union, not the product, of the parts'. `MCProcesses` has five:
the executor, the payment scan, the data shop with any buyers (an instance of `DataShop`
with its own amounts and payments), the page as the shop's only client, on the same
variables, and the panel. Its liveness properties name their part and the fairness of
its module: `ExecutorPays` says that a run of the executor that is fair as `PayoutExecutor`
has it (`Fairness`) pays what is queued, and so on. `MCProtocol` has the core, the pool
alone with larger amounts, and three parts of the fee readers.

## 4. The runs

| run | bounds | distinct states | shows |
|---|---|---|---|
| `certificate_ledger` | 2 positions, 2 owners, 2 transfers, 2 quotes, 2 kinds of terms, 2 fee checkpoints, clock to 2, ceiling 100 %, rounding of 1 | 339,090 | monitors, utilisation, accounting, one certificate per position, buyer's cap, settlement covered, restart, final decisions, implements `ReserveAccounting` |
| `hedge_system` | 1 quote, 2 transfers, 1 route, failing reads, 1 crash or failed save of the web process, 1 restart of the executor | 43,641 | durable answers, queued once, durable cursor, only decided payouts are paid; every queued payout is paid once and at last; due certificates settled, payments decided |
| `processes` | executor: payouts of 1, 2, 3 under a float of 2, damaged lines, 1 lost answer, 1 restart; scan: window of 2, history of 5, 2 restarts, lagging nodes; page: 2 orders, 1 transfer, 1 server crash; panel: 2 quotes, 2 challenges; shop: 2 orders, 2 amounts (one of a pre-order), 2 transfers, 1 poll, watcher, 1 crash | 155,854 | no receipted payout is repeated, what fits is paid; chain order, every payment credited; restart of the shop, bought downloads, grants used once, payments decided; the page shows its own order and offers the file; the panel shows its quote's certificate, each quote is signed for |
| `protocol` | core: 2 depositors, 2 positions, 2 templates, reserves to 5, ceiling 50 %, mantissa of 4 bits, clock to 2; pool alone: amounts 3 and 5, reserves to 15, mantissa of 5 bits; fees: modulus 16, accumulators about to wrap, 2 swaps, 1 change, 2 snapshots | 364,173 | shares, exposure, ceiling, no orphan reserves, protection; implements `SharePool`; first certificates settled; both fee formulas, measured fees, quiet fee shares |
| `hedge_deadlock`, `hedge_lost_payout`, `payout_repeated`, `payment_pruned`, `payment_unclaimed`, `download_lost`, `protocol_renewal`, `fee_read_torn` | the smallest instance of each | – | the disagreements of section 7 |

*Why these bounds.* The ledger's hazards are about two certificates that share
reserves, about two quotes of one position or one owner, and about a payment that
arrives twice, late, or in a wrong amount: two of each, a quote lifetime and a
tenor of one tick, and amounts where one certificate of the larger kind fits and
two do not, reach all of them; the terms are chosen so that the reserves cover one
large certificate or one of each kind. For the web
process, one quote with two payments is the least at which a cycle that fails, a
save that fails or a crash meets a decision that must not be taken twice; the proofs
of `HedgeServiceProofs` are for all numbers. For the executor, the three amounts are
one that leaves room, one that takes all, one that never fits. For the scan, a window
of 2 and bursts of 2 fill it exactly. For the shop, a tag that is used again needs two
orders, a second transfer of one order two transfers. For the page, two orders on
display one after the other are what late answers confuse; for the panel two quotes
and two challenges, with `NonceCap` 0, so that already the second challenge sweeps.
For the core, reserves of 5 under a ceiling of 50 % carry one large or two small
certificates, and amounts of 1 and 4 make shares round. With amounts of 3 and 5 and
reserves to 15 the products pass the mantissa: a share too many or too few is minted, a
unit too many or too few is returned, and dust is left behind. For the fees, a swap inside,
a swap that crosses a tick and an accumulator that wraps fall within two swaps of a
start at 15 of 16. Symmetry is used only in the ledger run, over positions, owners,
transfer ids and fee checkpoints, which has no liveness property.

Every property has a mutant in `PROJECT.json`: a plausible slip in a definition of
the code, such as a headroom check against the gross treasury, a cursor moved
before the events are saved, a refused signature forgotten by the replay.

*Fairness.* `HedgeService`: the timer starts cycles, the event loop runs what is ready,
the clock passes deadlines; strong fairness of the steps that follow a read, and of
asking for and settling *some* due certificate, not each: a read or a save may fail any
number of times, not always. `PayoutExecutor`: the resident loop goes on, some payment
that fits is made at last, and the wallet is topped up (runbook RB-2), so that each
start balance comes again. `PaymentScan`: the up-to-date node answers again and again.
`DataShop`: the server answers, and the buyer of an order that awaits payment keeps its
page open, so that a lookup gets through at last; nothing is assumed of an order that is
paid, of which the page asks no more, and nothing of the watcher except in
`WatchedSpec`. `CheckoutPage` and `HedgePanel`: the component's timer goes on, the
server ends what it began, and not every answer is lost; of the user nothing is assumed,
and both properties end when the user leaves; `ClickedSpec`, for `download_lost` only,
has the user click on a link that works. `ProtocolCore`: time passes, and somebody
settles what is due: settlement is open to all callers. `CertificateLedger` and the fee
readers have no fairness: they are driven by their callers.

Deadlock is not checked where the system may come to rest (all transfers landed, no
cycle due, all bounds reached); `HedgeSystem` and `CertificateLedger` never do.

## 5. The proofs

All theorems hold for every value of the constants within the named assumptions
(`AmountsAssumption`, `ConfigAssumption`, `ExecutorAssumption`, `ServiceAssumption`,
`SystemAssumption`, `DoublesAssumption`, `ProtocolAssumption`, `RangeAssumption`,
`DustAssumption`, `GrowthAssumption`, `ReadsAssumption`, `ScanAssumption`,
`OrderAssumption`, `ShopAssumption`, `PageAssumption`, `PanelAssumption`): amounts are
natural numbers, the ceiling is at most 10,000 basis points, the modulus of the
accumulators is positive, what stands for "none" is none of the others. `Mints`,
`Wallets`, `TxIds`, `Terms`, `Refs`, `Quotes`, `Orders`, `Amounts`, `Polls`, `Looks` are
any sets, also infinite ones; only the transfers of `HedgeService` are finitely many,
since a sweep lists what it refunds. The bounds on steps (`MaxTxs`, `MaxSwaps`,
`MaxChallenges` and so on) are any numbers. Two theorems have hypotheses of their own:

- `ScanInOrder` needs `MaxPruned = 0`, for a transaction that the node lists but does not
  have is credited after a restart, behind later ones (`payment_pruned`); and
  `MaxBurst <= Limit`, for of more than 200 new signatures the scan sees the newest
  200 only.
- `SnapshotsMeasureEarned` needs `MaxSwaps + MaxPlausible < Modulus`: all growth that is
  recorded, one unit per swap, and the ceiling of an interval together stay below one
  turn of an accumulator. The program's accumulators have 128 bits, 64 of them for whole
  units per unit of liquidity; the ceiling is $1,000,000. Without it an accumulator could
  come round to where it was between two reads of the pool, and the difference of two
  rows in the wrong order could look plausible.

1. **Sums.** `Sum` is a recursive function over prefixes. That it is well defined,
   and how it changes when one term does (`SumUpdate`), is in `PrefixSumsProofs`,
   by the least counterexample (`LeastElement`, `SetInduction`).
2. **The abstract accounting.** `ReservesSolvent`: the inductive invariant
   (`ReservesInv`) is the utilisation ceiling with non-negative numbers. The
   ceiling alone gives solvency because it is at most 100 %; it survives a
   settlement because a certificate that ends takes at least as much exposure with
   it as it can cost reserves (`LossKeepsUtilization`).
3. **The ledger implements it.** `LedgerImplementsAccounting`: each operation is a
   step of `ReserveAccounting` or a stutter. The strengthening (`AccountingInv`)
   is the type invariant and that no transfer is recorded twice: without it an
   activation could match two payments at once. `LedgerSolvent` follows.
4. **The monitors.** `LedgerInvariants`: I1 from the accounting; I2 to I4 from
   `Integrity` (certificates stay backed by a matched payment, money in equals
   money out plus what is held, settlements are bounded). `LedgerUtilization` comes
   from the accounting too.
5. **Restart.** `LedgerRestart`: for each operation the event it commits, applied
   by `ApplyReplay` to the state before, gives the state after, and is accepted.
   The proof needs the monitors of the next state, because replay asserts them.
6. **Protected once.** `LedgerProtectsOnce`: at most one of a position's open
   quotes and active certificates is alive (`ReservedOnce`). The theorem itself is
   not inductive, since activation does not look at other certificates; the open
   quote is what reserves the position.
7. **The executor.** `ExecutorTypeOK`, `ExecutorRepeatsNothing`,
   `ExecutorPaysValidLines`: a line still to be done has no receipt, because
   references are queued once and a cycle comes to each line once (`ExecutorInv`);
   the budget and what was spent never exceed the cap together while no answer is
   lost.

8. **The web process.** `ServiceAnswersAreDurable`, `ServiceQueuesOnce`,
   `ServiceCursorIsDurable`, from `ServiceInv`: what owes money is decided; the disk
   never has more than memory, and as much whenever no cycle is under way and the
   last save succeeded; a cycle's pending payouts are decided in memory, distinct,
   and neither queued nor still to be decided; whatever lies between cursor and scan
   is observed or still to do. "Queued once" is not inductive without the last but
   one: it is the decision, saved first, that keeps a second cycle from the payout.
9. **The protocol core.** `ProtocolInv` joins the properties, for they need each
   other: the ceiling survives a settlement only because the cap that ends is counted
   in the exposure (`CapsReserved`), a pool runs out of shares only when nothing is
   exposed. `ProtocolImplementsSharePool`: each operation is a step of `SharePool` or a
   stutter. The arithmetic is in doubles of any precision: each of the two roundings is
   off by at most one part in `Exact` (`RoundedWithin`, `FloorQuotientWithin`), both
   together by less than one unit for amounts below half of `Exact` (`FloorMulDivWithin`,
   `CountableWithin`), and so a deposit or withdrawal takes less than one micro-USDC from
   those who stay (`DepositKeepsPrice`, `WithdrawKeepsPrice`). `ProtocolNoOrphans`: what
   the last withdrawal leaves is at most that one.

10. **What the ledger promises its users.** `StepCases`: an operation receives a
   payment, refunds one, settles a certificate, or is `Quiet`, which is all that the
   theorems below need to know of the others. `LedgerSettlementCovered`: one certificate
   owes at most its two caps, one cap is at most the sum of all (`ActiveTermAtMostSum`),
   and that sum is under the ceiling by `ReserveAccounting`. `LedgerBuyerLimit`: only an
   activation raises a buyer's exposure, by the cap it has just compared with the limit
   (`BuyerExposureGrows`). `LedgerInflows`: what certificates were sold for is a sum
   over the quotes that grows by what the matched payment stops to be owed
   (`SoldGrows`). `LedgerDecisionsFinal` is about steps: no matched payment, consumed
   quote or settled certificate is written again.
11. **Web process and executor together.** `SystemInv` adds to `ServiceInv` that what
   the executor has paid, and what it has read and not come to, is in the outbox.
   `SystemPaysDecided` follows: the outbox has only decisions that are on disk.
   `SystemFeedsExecutor`: each step of the web process is an `Enqueue` of the executor
   or leaves its files alone; with it the lemmas of `PayoutExecutorProofs` (the instance
   `Executing`) carry the executor's invariant over to the composition. `SystemPaysOnce`
   is the safety part of `PaysWhatIsQueued`, if no answer to a transfer is lost; if one
   is, it is false (`payout_repeated`).

12. **The payment scan.** `ScanCreditsOnce`: what is credited is on the chain, and once.
   `ScanInOrder`: what is credited is always the payments of a prefix of the history
   (`ScanInv`, `ScannedUpTo`). That a prefix grows by a prefix is the step: cursor and
   window reach back at least to where it ends, because no more than a window's worth
   came since and a lagging node only shows less.
13. **The purchase panel.** `PanelQuoteIsAuthorised` from `ProofsAreSpent`: a nonce is
   outstanding, or with a request that is being priced, or the proof of one quote; it
   leaves each of these before it enters the next, which is what makes a late or
   repeated request harmless. `PanelCertificateIsOfQuote` from `DisplayAgrees`: the one
   status request that is not cancelled asks for the quote on display.
14. **The shop.** `ShopRestart` and `ShopDownloadIsBought` from one invariant (`ShopInv`).
   `RestartReproduces` is proved operation by operation, replaying the one or two events
   that each appends; the rest is `Sound`: a decided order has a used transaction of the
   chain, of its own and of its exact amount, and a grant is fresh. Operations are first
   shown to change one order (`Others`), so that only that order is looked at. What
   requests and watcher have read and not yet credited is still on the chain
   (`ReadsExist`).
15. **The page.** `PageShowsItsOwn` joins `ShopInv` with `PageInv`: the request that is not
   cancelled asks for the order on display, with its claim, and what the page says of an
   order is final, because the ledger goes from a decision nowhere else (`GoesOn`).
16. **The fees of a position.** `FeesReadAreOwed`: while the position has liquidity, the
   growth inside its range has moved, modulo the accumulators, by what really grew since
   its last update (`Tracks`). The arithmetic is done once (`WrapSubGroup`: wrapped
   differences may be taken in any order, cancel, and grow by one); `InsideByTick`
   brings the three cases of the price to it, and `SwapMovesInside` each crossing.
17. **The readers.** `ReadsInv`: what a reader holds is still so if no swap and no change
   came since (`InFlight`). `QuietFeeShareIsEarned`: the checkpoint of a certificate is
   `Known`, that is, of the position as it is and of no more growth than by now, until
   somebody changes the position. `SnapshotsMeasureEarned`: accumulators count swaps
   (`Counted`), so that a pool read twice the same has not moved and a new row is of this
   moment; any two rows of one position agree, in either order (`RowsAgree`), because in
   the order of time they differ by what was earned (`FeesInOrder`) and out of order by
   nothing or by more than the ceiling (`FeesOutOfOrder`). All pairs are in the invariant,
   not the neighbours of the property, for a late collector inserts rows between them.

*Only model-checked.* All liveness, which the prover cannot do: `DueIsSettled`,
`PaymentIsDecided`, the fairness in `PaysWhatIsQueued`, `ExecutorPays`, `ScanCredits`,
`ShopDecides`, `PageOffers`, `PanelShows`, `FirstIsSettled`. And the eight properties that
the code violates, of which there is nothing to prove. `MCProcesses` and `MCProtocol` run
several components, one at a time; the theorems are about each of them.

## 6. What is not modelled

- Prices, caps and estimates: floating point. The ledger is checked for all terms.
- Amounts above 2^52 micro-USDC, and reserves above some 900,000 USDC where a product
  with basis points would be rounded too.
- Addresses, signatures, mints and decimals of transfers: a transfer has an amount,
  a reference, and passes or fails the parser's filter.
- The status route's reconciliation of a position with the chain, the fee
  checkpoint's read in the cycle (it cannot fail the cycle; `RecordFeeCheckpoint`
  is an action of the ledger).
- Appends cut short: an append is whole or throws. A clock that steps back.
- `expireStale` and `needsAttention` of the order ledger, which no code calls; the
  operator's report, which reads the events file with a third fold of its own.
- Building and streaming datasets: the stream succeeds or breaks.
- In `FeeGrowth`: the truncation of Q64.64 (growth is in whole units), swaps too small
  to pay a fee; in `FeeReads` a node that answers from different heights within one
  call, rewards, and the batching of the collector over several positions.
- Of the pages: layout, validation, estimates, browsers without sessionStorage. The
  rate limiter's counting: a request may meet a 429 at any time.
- Of the core: the monitor loop and auto-close, which are sequences of RPC calls; the
  store's persistence directory, which no caller sets.
- Ingestion, the SQL stores, reports, drills and scripts. They are most of the
  repository's lines, with tests, pages, styles, data and the superseded prototype:
  the mapped definitions cover about a tenth of its TypeScript.
- Everything marked so in section 1.

## 7. What the runs found

Each is a run that TLC ends with a counterexample, and a finding in `PROJECT.json`
with the line it contradicts.

- **`hedge_deadlock`.** `runCycleOnce` runs the cycle inside `withHedge`; its price
  reader (`settlement-scheduler.ts:53`) awaits `withHedge`. The inner call waits for
  the outer one: at the first due certificate the web process never uses the ledger
  again. In the process as it is, this hides the next one.
- **`hedge_lost_payout`.** With two certificates due, a price read that throws for
  the second (`runner.ts:144`) drops the report that held the first one's payout;
  the settlement is saved, and the certificate is not due again.
- **`payout_repeated`.** A transfer that lands although its confirmation throws
  (`payout-executor.ts:160`) is sent again: the reference is a key of the receipts
  file, not of the chain.
- **`payment_pruned`.** A transaction the node has no copy of is skipped and the
  cursor moves past it (`payment-watcher.ts:42`); only a restart finds it again.
- **`payment_unclaimed`.** A transfer without a reference that lands in time is seen
  by no scan when its order expires before the next one
  (`order-watcher.ts:63`): neither credited nor owed back.
- **`download_lost`.** The grant is consumed before the file is streamed. When the
  stream breaks, the page's token is worthless, and the page asks for no other: its poll
  ends with the order's fulfilment (`checkout.tsx:246`). The buyer who stays, and clicks
  again, has paid and has no file, though "a failed download is recoverable because the
  claim secret can re-issue a fresh grant" (`order-ledger.ts:261-262`); a reload loses the
  order altogether. The page offers an e-mail address.
- **`protocol_renewal`.** The store finds the first certificate of a position
  (`store.ts:139`); when a position is insured again, the second certificate is never
  settled, its exposure stays, and the position cannot be released.
- **`fee_read_torn`.** The settlement's fee reader does not read the pool again
  (`fee-reader.ts:67`): a swap across a boundary tick between its calls makes growth
  from outside the range look earned, and the buyer is charged for it.

Read in the code, with no run of their own: a crash between saving the ledger and
appending to the outbox (`settlement-scheduler.ts:179`) loses the payouts, as a failing
cycle does; a transfer that lands unconfirmed is not taken from the cycle's budget
(`payout-executor.ts:147`), so a cycle may exceed the float cap; a payout above the cap,
which only a refund can be, holds up all later ones (`payout-executor.ts:128`); a line
that does not parse is dropped without quarantine (`payout-executor.ts:57`); of more
than 200 signatures between two scans the oldest are never looked at
(`payment-watcher.ts:26`); after an expiry a tag may be drawn again, and a late transfer
for the first order then pays for the second (`payment.ts:45`). In the pool: a depositor
of 100.000001 USDC who withdraws every share gets 100.000000 back, and one micro-USDC
stays in a pool without shares, because the product of the two amounts is no double
(`pool.ts:162-164`); the test "deposit + full withdraw = no loss (conservation)"
(`pool.test.ts:107`) uses 10 USDC, where it is one. A deposit may get one share more
than the formula of `pool.ts:66` says. Both stay below one micro-USDC, which is what the
theorems of the core say. In the browser: "Approve in your wallet" stays enabled after a
payment was sent; the panel's effect depends on `quote`, which every poll sets anew, so
that it polls without its pause of five seconds until the limiter answers 429.

## Running the checks

    tlc -config CertificateLedger.cfg MCCertificateLedger
    tlapm LedgerIntegrityProofs.tla

and so for every entry of `PROJECT.json`. The longest run takes about three minutes
with two workers, all proofs together about a quarter of an hour.
