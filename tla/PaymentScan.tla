---------------------------- MODULE PaymentScan ----------------------------
(***************************************************************************)
(* The chain adapter of the settlement cycle: scanTreasuryPayments         *)
(* (packages/hedge/src/adapters/payment-watcher.ts) over the transactions  *)
(* that touch the treasury account, payment-parse.ts, and the cursor that  *)
(* the scheduler keeps in memory from one cycle to the next.               *)
(*                                                                         *)
(* A scan sees at most Limit signatures, the newest ones back to the       *)
(* cursor, from a node that may be behind; a node may also have no copy of *)
(* a transaction whose signature it lists.  What the ledger then does with *)
(* a transfer is CertificateLedger; here it only counts it once.           *)
(***************************************************************************)
EXTENDS Integers, Sequences, FiniteSets

CONSTANTS
  Txs,            \* what a transaction may look like
  Limit,          \* signatures per scan
  MaxBurst,       \* signatures between two scans
  NodesMayLag,    \* TRUE: a scan may be answered from an older state
  MaxPruned,      \* bounds of the model: transactions a node could not return
  MaxReboots,    \* reboots of the web process
  MaxHistory      \* length of the history

ASSUME ScanAssumption ==
  /\ Txs \subseteq [failed : BOOLEAN, delta : Int, memo : BOOLEAN]
  /\ Limit \in Nat \ {0} /\ MaxBurst \in Nat
  /\ NodesMayLag \in BOOLEAN
  /\ MaxPruned \in Nat /\ MaxReboots \in Nat /\ MaxHistory \in Nat

VARIABLES
  history,    \* transactions of the treasury account, in chain order
  since,      \* how many of them came after the last scan
  cursor,     \* index of the last signature scanned, 0 = null
  credited,   \* indices of the transfers the ledger has, in the order observed
  pruned, reboots

scanVars == <<history, since, cursor, credited, pruned, reboots>>

-----------------------------------------------------------------------------

\* extractUsdcPayment: what arrived, with a memo that names what it is for.
IsPayment(tx) == ~tx.failed /\ tx.delta > 0 /\ tx.memo

MaxOf(a, b) == IF a >= b THEN a ELSE b

WindowOfOne(tip) ==  \* mutant: only the newest signature is fetched
  LET until == IF cursor <= tip THEN cursor ELSE 0
  IN  (MaxOf(until, tip - 1) + 1)..tip

\* Signatures a node at `tip' lists: newest first until the cursor, which it
\* may not know yet, and no more than Limit.
Window(tip) ==
  LET until == IF cursor <= tip THEN cursor ELSE 0
  IN  (MaxOf(until, tip - Limit) + 1)..tip

NewestFirst(S) ==  \* mutant: not reversed
  CHOOSE f \in [1..Cardinality(S) -> S] :
    \A i, j \in 1..Cardinality(S) : i < j => f[i] > f[j]

\* The elements of a set of indices, oldest first (transfers.reverse()).
OldestFirst(S) ==
  CHOOSE f \in [1..Cardinality(S) -> S] :
    \A i, j \in 1..Cardinality(S) : i < j => f[i] < f[j]

CreditedForgotten == {}  \* mutant: no idempotence on the signature

Credited == {credited[i] : i \in DOMAIN credited}

\* One scan, its transfers observed and saved, the cursor moved.  observePayment
\* is a no-op for a signature it has.
Scan(tip, missing) ==
  LET found == {i \in Window(tip) \ missing : IsPayment(history[i])}
  IN  /\ Window(tip) # {}
      /\ missing \subseteq Window(tip)
      /\ Cardinality(missing) <= MaxPruned - pruned
      /\ pruned' = pruned + Cardinality(missing)
      /\ credited' = credited \o OldestFirst(found \ Credited)
      /\ cursor' = tip
      /\ since' = Len(history) - tip
      /\ UNCHANGED <<history, reboots>>

Finalize(tx) ==
  /\ Len(history) < MaxHistory
  /\ since < MaxBurst
  /\ history' = Append(history, tx)
  /\ since' = since + 1
  /\ UNCHANGED <<cursor, credited, pruned, reboots>>

\* The cursor is memory; what the ledger has is on disk.
RestartScanner ==
  /\ reboots < MaxReboots
  /\ reboots' = reboots + 1
  /\ cursor' = 0
  /\ UNCHANGED <<history, since, credited, pruned>>

-----------------------------------------------------------------------------

ScanInit ==
  /\ history = <<>> /\ since = 0
  /\ cursor = 0 /\ credited = <<>>
  /\ pruned = 0 /\ reboots = 0

\* How far behind the chain an answering node may be.
Tips == IF NodesMayLag THEN 0..Len(history) ELSE {Len(history)}

ScanAny == \E tip \in Tips : \E missing \in SUBSET Window(tip) : Scan(tip, missing)

ScanNext == ScanAny \/ (\E tx \in Txs : Finalize(tx)) \/ RestartScanner

\* Cycles go on for ever, and a node that is up to date and complete answers
\* some of them.
ScanFairness == SF_scanVars(Scan(Len(history), {}))

ScanSpec == ScanInit /\ [][ScanNext]_scanVars /\ ScanFairness

-----------------------------------------------------------------------------
(* Properties *)

\* The cursor is a place in the history, a transfer is credited once.
ScanTypeOK ==
  /\ history \in Seq(Txs)
  /\ since \in 0..Len(history)
  /\ cursor \in 0..Len(history)
  /\ \A i \in DOMAIN credited : credited[i] \in DOMAIN history
  /\ \A i, j \in DOMAIN credited : credited[i] = credited[j] => i = j
  /\ pruned \in 0..MaxPruned /\ reboots \in 0..MaxReboots

\* "Oldest-first so the ledger sees payments in chain order"
\* (payment-watcher.ts:46): across scans, lagging nodes and reboots, which
\* decides who gets the last of the headroom.
ChainOrder ==
  \A i, j \in DOMAIN credited : i < j => credited[i] < credited[j]

\* Every payment to the treasury reaches the ledger.  Without it "the money
\* would sit in the treasury unaccounted for" (instrumentation.ts:8-11), and a
\* transaction the node could not return is promised another try: "pruned by
\* RPC - the next scan window will retry" (payment-watcher.ts:42).
EveryPaymentCredited ==
  \A i \in 1..MaxHistory :
    (i \in DOMAIN history /\ IsPayment(history[i])) ~> i \in Credited
=============================================================================
