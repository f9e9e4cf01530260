-------------------------- MODULE PayoutExecutor --------------------------
(***************************************************************************)
(* The key-holding payout executor, services/ops-jobs/src/                 *)
(* payout-executor.ts.  It re-reads the outbox that the web process        *)
(* appends to, skips what it has a receipt for, and pays the rest in file  *)
(* order from a budget: the balance of the hot wallet, at most FloatCap    *)
(* per cycle.  The files outlive the process; its cycle does not.          *)
(*                                                                         *)
(* A line of the outbox is known by its reference and by what the reader   *)
(* can make of it.  `paid' counts the transfers that landed on chain,      *)
(* `spent' what this cycle's transfers have taken from the wallet: both    *)
(* are for the properties, the process knows only its budget.              *)
(***************************************************************************)
EXTENDS Naturals, Sequences, FiniteSets

CONSTANTS
  Refs,               \* references of payouts: certificates and transfers
  Amount,             \* what each reference is owed
  FloatCap,           \* HOT_WALLET_FLOAT_CAP_USDC
  Balances,           \* what the wallet may hold when a cycle starts
  MayDamageLines,     \* TRUE: the file may hold lines the web never writes
  MaxLostAnswers,     \* bounds of the model: transfers landed unconfirmed,
  MaxRestarts         \* restarts in the middle of a cycle

ASSUME ExecutorAssumption ==
  /\ Amount \in [Refs -> Nat \ {0}]
  /\ FloatCap \in Nat
  /\ Balances \subseteq Nat
  /\ MayDamageLines \in BOOLEAN
  /\ MaxLostAnswers \in Nat /\ MaxRestarts \in Nat

VARIABLES outbox, receipts, quarantine, todo, budget, paid, spent, lost, restarts

files == <<outbox, receipts, quarantine>>

vars == <<outbox, receipts, quarantine, todo, budget, paid, spent, lost, restarts>>

-----------------------------------------------------------------------------
(* The files *)

\* "malformed" parses as JSON but fails validEntry, "unparseable" does not parse.
Line == [ref : Refs, kind : {"valid", "malformed", "unparseable"}]

Lines == {outbox[i] : i \in DOMAIN outbox}

\* readJsonl drops what does not parse; receipts are keyed by reference alone.
PendingReceipted ==  \* mutant: what was paid is pending again
  {i \in DOMAIN outbox : outbox[i].kind # "unparseable"}

Pending ==
  {i \in DOMAIN outbox : outbox[i].kind # "unparseable" /\ outbox[i].ref \notin receipts}

\* The web process appends; it queues a decision once (module HedgeService).
Enqueue(line) ==
  /\ \A l \in Lines : l.ref # line.ref
  /\ line.kind # "valid" => MayDamageLines
  /\ outbox' = Append(outbox, line)
  /\ UNCHANGED <<receipts, quarantine, todo, budget, paid, spent, lost, restarts>>

-----------------------------------------------------------------------------
(* One cycle: `todo' are the numbers of the lines it has not come to yet *)

Idle == todo = {}

First == CHOOSE i \in todo : \A j \in todo : i <= j

Current == outbox[First]

Rest == todo \ {First}

BalanceAlone(balance, cap) == balance  \* mutant: no float cap

MinOf(a, b) == IF a <= b THEN a ELSE b

StartCycle(balance) ==
  /\ Idle
  /\ Pending # {}
  /\ todo' = Pending
  /\ budget' = MinOf(balance, FloatCap)
  /\ spent' = 0
  /\ UNCHANGED <<files, paid, lost, restarts>>

QuarantineStops ==  \* mutant: a malformed line ends the cycle
  /\ ~Idle
  /\ Current.kind = "malformed"
  /\ quarantine' = quarantine \cup {Current.ref}
  /\ todo' = {}
  /\ UNCHANGED <<outbox, receipts, budget, paid, spent, lost, restarts>>

Quarantine ==
  /\ ~Idle
  /\ Current.kind = "malformed"
  /\ quarantine' = quarantine \cup {Current.ref}
  /\ todo' = Rest
  /\ UNCHANGED <<outbox, receipts, budget, paid, spent, lost, restarts>>

\* The first payout that the budget cannot cover ends the cycle.
Defer ==
  /\ ~Idle
  /\ Current.kind = "valid"
  /\ Amount[Current.ref] > budget
  /\ todo' = {}
  /\ UNCHANGED <<files, budget, paid, spent, lost, restarts>>

Payable(ref) ==
  /\ ~Idle
  /\ Current = [ref |-> ref, kind |-> "valid"]
  /\ Amount[ref] <= budget

Landed(ref) ==
  /\ paid' = [paid EXCEPT ![ref] = @ + 1]
  /\ spent' = spent + Amount[ref]

Pay(ref) ==
  /\ Payable(ref)
  /\ Landed(ref)
  /\ budget' = budget - Amount[ref]
  /\ receipts' = receipts \cup {ref}
  /\ todo' = Rest
  /\ UNCHANGED <<outbox, quarantine, lost, restarts>>

\* The transfer is refused, or expires without landing: logged, no receipt.
PayFails ==
  /\ \E ref \in Refs : Payable(ref)
  /\ todo' = Rest
  /\ UNCHANGED <<files, budget, paid, spent, lost, restarts>>

\* The transfer lands, but sendAndConfirmTransaction throws (a timeout, a lost
\* answer), the receipt cannot be written, or the process dies before it is.
PayUnconfirmed(ref) ==
  /\ lost < MaxLostAnswers
  /\ Payable(ref)
  /\ Landed(ref)
  /\ todo' \in {Rest, {}}
  /\ lost' = lost + 1
  /\ budget' \in {budget, budget - Amount[ref]}
  /\ UNCHANGED <<files, restarts>>

Restart ==
  /\ ~Idle
  /\ restarts < MaxRestarts
  /\ restarts' = restarts + 1
  /\ todo' = {}
  /\ UNCHANGED <<files, budget, paid, spent, lost>>

-----------------------------------------------------------------------------

Init ==
  /\ outbox = <<>>
  /\ receipts = {} /\ quarantine = {}
  /\ todo = {} /\ budget = 0
  /\ paid = [ref \in Refs |-> 0]
  /\ spent = 0 /\ lost = 0 /\ restarts = 0

Execute ==
  \/ \E balance \in Balances : StartCycle(balance)
  \/ Quarantine
  \/ Defer
  \/ \E ref \in Refs : Pay(ref)
  \/ PayFails
  \/ \E ref \in Refs : PayUnconfirmed(ref)
  \/ Restart

Next == Execute \/ \E line \in Line : Enqueue(line)

\* The resident loop always starts another cycle and a started one goes on.
\* The wallet is topped up again and again (RB-2), and a transfer does not
\* fail for ever.
Fairness ==
  /\ WF_vars(Quarantine) /\ WF_vars(Defer)
  /\ \A balance \in Balances : SF_vars(StartCycle(balance))
  /\ SF_vars(\E ref \in Refs : Pay(ref))

Spec == Init /\ [][Next]_vars /\ Fairness

-----------------------------------------------------------------------------
(* Properties *)

\* The files hold lines and references; the cycle works on lines it has read.
TypeOK ==
  /\ outbox \in Seq(Line)
  /\ receipts \subseteq Refs /\ quarantine \subseteq Refs
  /\ todo \subseteq DOMAIN outbox
  /\ budget \in 0..FloatCap
  /\ paid \in [Refs -> Nat]
  /\ spent \in Nat /\ lost \in 0..MaxLostAnswers
  /\ restarts \in 0..MaxRestarts

\* Whatever fails or restarts, a receipted transfer is never repeated: each
\* repetition is a transfer whose answer was lost, and so is what a cycle takes
\* from the wallet beyond the float cap.
RepeatsAreLostAnswers ==
  /\ \A ref \in Refs :
       /\ ref \in receipts => paid[ref] > 0
       /\ paid[ref] <= lost + (IF ref \in receipts THEN 1 ELSE 0)
  /\ lost = 0 => spent <= FloatCap

\* Only a line the file holds, and that passed validEntry, is ever paid.
OnlyValidPaid ==
  \A ref \in Refs : paid[ref] > 0 => [ref |-> ref, kind |-> "valid"] \in Lines

\* Every payout that fits the float, with all that are queued before it, is paid
\* at last, whatever fails, restarts or is damaged.  The cycle stops at the first
\* payout the budget does not cover, so one above the float cap holds up all
\* behind it: the guard says how far "refunds ... can never consume the funds
\* owed to settling buyers" (packages/hedge/src/runner.ts:139-140) goes.
QueuedIsPaid ==
  \A ref \in Refs :
    (\E i \in DOMAIN outbox :
       /\ outbox[i] = [ref |-> ref, kind |-> "valid"]
       /\ \A j \in 1..i : outbox[j].kind = "valid" => Amount[outbox[j].ref] <= FloatCap)
      ~> ref \in receipts

\* "already-executed references are recorded in receipts.jsonl and skipped"
\* (payout-executor.ts:11-12): a reference is paid at most once.
PaidAtMostOnce == \A ref \in Refs : paid[ref] <= 1
=============================================================================
