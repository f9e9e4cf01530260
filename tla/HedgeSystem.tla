---------------------------- MODULE HedgeSystem ----------------------------
(***************************************************************************)
(* The web process (HedgeService) and the payout executor (PayoutExecutor) *)
(* side by side.  They share one file, the outbox: the web process appends *)
(* references of decided payouts, the executor reads them.                 *)
(***************************************************************************)
EXTENDS HedgeService

CONSTANTS Amount, FloatCap, Balances, MaxLostAnswers, MaxRestarts

ASSUME SystemAssumption ==
  /\ Amount \in [Refs -> Nat \ {0}]
  /\ FloatCap \in Nat
  /\ Balances \subseteq Nat
  /\ MaxLostAnswers \in Nat /\ MaxRestarts \in Nat

VARIABLES receipts, quarantine, todo, budget, paid, spent, lost, restarts

executorVars == <<receipts, quarantine, todo, budget, paid, spent, lost, restarts>>

systemVars == <<vars, executorVars>>

\* Every line the web process writes is a JSON object that passes validEntry.
Written == [i \in DOMAIN outbox |-> [ref |-> outbox[i], kind |-> "valid"]]

Executor == INSTANCE PayoutExecutor WITH outbox <- Written, MayDamageLines <- FALSE

SystemInit == Init /\ Executor!Init

SystemNext ==
  \/ Next /\ UNCHANGED executorVars
  \/ UNCHANGED vars /\ Executor!Execute

ExecutorFairness ==
  /\ WF_systemVars(UNCHANGED vars /\ Executor!Defer)
  /\ \A balance \in Balances :
       SF_systemVars(UNCHANGED vars /\ Executor!StartCycle(balance))
  /\ SF_systemVars(UNCHANGED vars /\ \E ref \in Refs : Executor!Pay(ref))

SystemSpec ==
  SystemInit /\ [][SystemNext]_systemVars /\ Fairness /\ ExecutorFairness

-----------------------------------------------------------------------------
(* Properties *)

\* Money leaves the wallet only for a decision that a restart of the web
\* process will find in its log.
OnlyDecidedPaid == \A ref \in Refs : paid[ref] > 0 => ref \in disk.owed

\* The web process keeps the assumption the executor is built on: the outbox
\* only grows, by one valid line at a time, never by a reference it has.
FeedsExecutor == Executor!Init /\ [][Executor!Next]_(Executor!vars)

\* However both processes crash and cycles fail, what the web process has
\* queued the executor pays exactly once and at last, as long as the answer to
\* a landed transfer is not lost.
Payouts == INSTANCE OwedPayouts WITH owed <- {outbox[i] : i \in DOMAIN outbox}

PaysWhatIsQueued == Payouts!Spec
=============================================================================
