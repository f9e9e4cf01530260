----------------------------- MODULE DataShop -----------------------------
(***************************************************************************)
(* The web process around the order ledger: the order, status and download *)
(* routes (apps/web/src/app/api/data), the lookup by reference             *)
(* (payment-lookup.ts) and the watcher that credits by amount              *)
(* (order-watcher.ts).  Both ways to a payment read the chain first and    *)
(* credit later, and each may find what the other has credited.            *)
(*                                                                         *)
(* withOrders (order-ledger.ts) runs one synchronous callback at a time    *)
(* and appends its events before it answers: each use of it is one step.   *)
(* No callback throws after it has changed the ledger.                     *)
(***************************************************************************)
EXTENDS OrderLedger, FiniteSets

CONSTANTS
  NoOrderId,
  Payments,       \* the transfers buyers make: reference and amount
  Polls,          \* status requests served at the same time
  ScanLimit,      \* signatures inspected per watcher cycle
  MaxTxs, MaxCrashes   \* bounds of the model

ASSUME ShopAssumption ==
  /\ NoOrderId \notin Orders
  /\ Payments \subseteq [ref : Orders \cup {NoOrderId}, amount : Amounts]
  /\ ScanLimit \in Nat /\ MaxTxs \in Nat /\ MaxCrashes \in Nat

VARIABLES
  ledger,     \* in memory
  disk,       \* what order-events.jsonl replays to
  chain,      \* transfers to the revenue wallet, in order
  late,       \* orders past expiresAtTs
  over,       \* orders whose current grant is past its lifetime
  polls,      \* the status requests
  watcher,    \* the watcher's cycle
  held,       \* orders whose buyer holds the token of the current grant
  uses,       \* how often the current grant of an order was redeemed
  delivered,  \* orders whose file reached the buyer
  crashes

clients == <<held, uses, delivered>>

shopVars == <<ledger, disk, chain, late, over, polls, watcher, clients, crashes>>

Tx == [ref : Orders \cup {NoOrderId}, amount : Amounts]

Poll ==
  [pc : {"idle", "crediting", "answering"},
   order : Orders \cup {NoOrderId}, claim : BOOLEAN, tx : Nat,
   token : {"none", "current", "stale"}]   \* of which grant it has the token

IdlePoll ==
  [pc |-> "idle", order |-> NoOrderId, claim |-> FALSE, tx |-> 0, token |-> "none"]

Watcher == [open : SUBSET Orders, listed : BOOLEAN, todo : Seq(Nat)]

IdleWatcher == [open |-> {}, listed |-> FALSE, todo |-> <<>>]

-----------------------------------------------------------------------------
(* withOrders: the events are on disk when the caller continues *)

Commit(after, events) == ledger' = after /\ disk' = ReplayAll(disk, events)

Open(o) == Awaiting(ledger, o) /\ o \notin late

\* A new grant makes the tokens of the earlier one worthless, also those on
\* their way to the buyer.
Issue(o) ==
  /\ held' = held \ {o}
  /\ over' = over \ {o}
  /\ uses' = [uses EXCEPT ![o] = 0]
  /\ UNCHANGED delivered

WithoutToken(o) ==
  [p \in Polls |-> IF polls[p].order = o /\ polls[p].token = "current"
                     THEN [polls[p] EXCEPT !.token = "stale"] ELSE polls[p]]

-----------------------------------------------------------------------------
(* The order route *)

OpenAmounts(o) == {ledger.orders[p].amount : p \in {q \in Orders \ {o} : Open(q)}}

CreateOrder(o, amount) ==
  /\ ledger.orders[o] = NoOrder
  /\ amount \notin OpenAmounts(o)
  /\ Commit(Created(ledger, o, amount), <<OrderCreated(o, amount)>>)
  /\ UNCHANGED <<chain, late, over, polls, watcher, clients, crashes>>

-----------------------------------------------------------------------------
(* observePayment, and fulfil right after it unless the order is a pre-order *)

IgnoredUnlessSettled(o, i) == ~Awaiting(ledger, o)  \* mutant: a signature may pay twice

IgnoredWhenLate(o, i) ==  \* mutant: a late payment raises no refund
  i \in ledger.used \/ ~Awaiting(ledger, o) \/ o \in late

Ignored(o, i) == i \in ledger.used \/ ~Awaiting(ledger, o)

Refused(o, i) == chain[i].amount # ledger.orders[o].amount \/ o \in late

Accepted(o, i) == ~Ignored(o, i) /\ ~Refused(o, i)

IsPreOrder(o) == ledger.orders[o].amount \in PreOrdered

Credit(o, i) ==
  \/ /\ Ignored(o, i)
     /\ UNCHANGED <<ledger, disk, over, clients>>
  \/ /\ ~Ignored(o, i) /\ Refused(o, i)
     /\ Commit(RefundOwed(ledger, o, i), <<RefundDue(o, i)>>)
     /\ UNCHANGED <<over, clients>>
  \/ /\ Accepted(o, i) /\ IsPreOrder(o)
     /\ Commit(Paid(ledger, o, i), <<PaymentObserved(o, i)>>)
     /\ UNCHANGED <<over, clients>>
  \/ /\ Accepted(o, i) /\ ~IsPreOrder(o)
     /\ Commit(Granted(Paid(ledger, o, i), o),
               <<PaymentObserved(o, i), OrderFulfilled(o)>>)
     /\ Issue(o)

Grants(o, i) == Accepted(o, i) /\ ~IsPreOrder(o)

-----------------------------------------------------------------------------
(* The status route *)

\* Transactions that name the order's reference and carry its exact amount.
PaymentsOf(o) ==
  {i \in DOMAIN chain : chain[i].ref = o /\ chain[i].amount = ledger.orders[o].amount}

PollOf(pc, o, claim, i) ==
  [pc |-> pc, order |-> o, claim |-> claim, tx |-> i, token |-> "none"]

\* The order is read, and its payment looked up if it has none: the newest that
\* the node returns.
FindPayment(p, o, claim) ==
  /\ polls[p].pc = "idle"
  /\ Awaiting(ledger, o)
  /\ \E i \in PaymentsOf(o) : polls' = [polls EXCEPT ![p] = PollOf("crediting", o, claim, i)]
  /\ UNCHANGED <<ledger, disk, chain, late, over, watcher, clients, crashes>>

\* There is no payment to look for, or none is found, or the lookup fails.
FindNothing(p, o, claim) ==
  /\ polls[p].pc = "idle"
  /\ ledger.orders[o].status # "none"
  /\ polls' = [polls EXCEPT ![p] = PollOf("answering", o, claim, 0)]
  /\ UNCHANGED <<ledger, disk, chain, late, over, watcher, clients, crashes>>

CreditPoll(p) ==
  LET o == polls[p].order
      i == polls[p].tx
  IN  /\ polls[p].pc = "crediting"
      /\ Credit(o, i)
      /\ polls' = [(IF Grants(o, i) THEN WithoutToken(o) ELSE polls)
                     EXCEPT ![p].pc = "answering",
                            ![p].token = IF Grants(o, i) /\ polls[p].claim THEN "current" ELSE "none"]
      /\ UNCHANGED <<chain, late, watcher, crashes>>

HeldAfter(p) == IF polls[p].token = "current" THEN held \cup {polls[p].order} ELSE held

\* For a caller who has proved the claim and has no token: a fresh grant.
AnswerWithoutReissue(p) ==  \* mutant: the token is returned once and never again
  /\ polls[p].pc = "answering"
  /\ polls' = [polls EXCEPT ![p] = IdlePoll]
  /\ held' = HeldAfter(p)
  /\ UNCHANGED <<ledger, disk, chain, late, over, watcher, uses, delivered, crashes>>

Answer(p) ==
  LET o == polls[p].order
      reissue == polls[p].claim /\ polls[p].token = "none" /\ ledger.orders[o].status = "fulfilled"
  IN  /\ polls[p].pc = "answering"
      /\ \/ /\ reissue
            /\ Commit(Granted(ledger, o), <<OrderFulfilled(o)>>)
            /\ Issue(o)
            /\ polls' = [WithoutToken(o) EXCEPT ![p].token = "current"]
         \/ /\ ~reissue
            /\ polls' = [polls EXCEPT ![p] = IdlePoll]
            /\ held' = HeldAfter(p)
            /\ UNCHANGED <<ledger, disk, over, uses, delivered>>
      /\ UNCHANGED <<chain, late, watcher, crashes>>

-----------------------------------------------------------------------------
(* The download route: redeem, then stream; the stream may break *)

Redeemable(o) == ledger.orders[o].grant /\ o \notin over

Download(o) ==
  /\ o \in held
  /\ Redeemable(o)
  /\ Commit(Redeemed(ledger, o), <<DownloadRedeemed(o)>>)
  /\ uses' = [uses EXCEPT ![o] = @ + 1]
  /\ delivered' \in {delivered, delivered \cup {o}}
  /\ UNCHANGED <<chain, late, over, polls, watcher, held, crashes>>

-----------------------------------------------------------------------------
(* The watcher *)

Newest == [i \in 1..Min({ScanLimit, Len(chain)}) |-> Len(chain) + 1 - i]

\* The orders that are open now are those of the whole scan ...
StartScan ==
  /\ watcher = IdleWatcher
  /\ \E o \in Orders : Open(o)
  /\ watcher' = [IdleWatcher EXCEPT !.open = {o \in Orders : Open(o)}]
  /\ UNCHANGED <<ledger, disk, chain, late, over, polls, clients, crashes>>

\* ... and the signatures are listed when the node answers.
ListSignatures ==
  /\ watcher # IdleWatcher /\ ~watcher.listed
  /\ watcher' = [watcher EXCEPT !.listed = TRUE, !.todo = Newest]
  /\ UNCHANGED <<ledger, disk, chain, late, over, polls, clients, crashes>>

Matches(i) == {o \in watcher.open : ledger.orders[o].amount = chain[i].amount}

\* One transaction: credited to the only order of that amount that was open
\* when the scan began, or passed over.
Inspect ==
  LET i == Head(watcher.todo)
  IN  /\ watcher.todo # <<>>
      /\ \/ /\ Cardinality(Matches(i)) # 1
            /\ watcher' = [watcher EXCEPT !.todo = Tail(@)]
            /\ UNCHANGED <<ledger, disk, over, polls, clients>>
         \/ \E o \in Matches(i) :
              /\ Cardinality(Matches(i)) = 1
              /\ Credit(o, i)
              /\ polls' = IF Grants(o, i) THEN WithoutToken(o) ELSE polls
              /\ watcher' = [watcher EXCEPT !.open = IF Accepted(o, i) THEN @ \ {o} ELSE @,
                                            !.todo = Tail(@)]
      /\ UNCHANGED <<chain, late, crashes>>

\* The list is done, or a read failed.
EndScan ==
  /\ watcher # IdleWatcher
  /\ watcher' = IdleWatcher
  /\ UNCHANGED <<ledger, disk, chain, late, over, polls, clients, crashes>>

-----------------------------------------------------------------------------
(* The world *)

\* A transfer to the revenue wallet, with or without an order's reference.
Transfer(tx) ==
  /\ Len(chain) < MaxTxs
  /\ tx.ref \in Orders => ledger.orders[tx.ref].status # "none"
  /\ chain' = Append(chain, tx)
  /\ UNCHANGED <<ledger, disk, late, over, polls, watcher, clients, crashes>>

OrderExpires(o) ==
  /\ Open(o)
  /\ late' = late \cup {o}
  /\ UNCHANGED <<ledger, disk, chain, over, polls, watcher, clients, crashes>>

\* The lifetime (a day) is longer than an answer takes.
GrantExpires(o) ==
  /\ ledger.orders[o].grant /\ o \notin over
  /\ \A p \in Polls : ~(polls[p].order = o /\ polls[p].token = "current")
  /\ over' = over \cup {o}
  /\ UNCHANGED <<ledger, disk, chain, late, polls, watcher, clients, crashes>>

\* The response does not arrive, or its tab is closed.
LoseToken(o) ==
  /\ o \in held
  /\ held' = held \ {o}
  /\ UNCHANGED <<ledger, disk, chain, late, over, polls, watcher, uses, delivered, crashes>>

Crash ==
  /\ crashes < MaxCrashes
  /\ crashes' = crashes + 1
  /\ ledger' = disk
  /\ polls' = [p \in Polls |-> IdlePoll]
  /\ watcher' = IdleWatcher
  /\ UNCHANGED <<disk, chain, late, over, clients>>

-----------------------------------------------------------------------------

ShopInit ==
  /\ ledger = Opened /\ disk = Opened
  /\ chain = <<>>
  /\ late = {} /\ over = {}
  /\ polls = [p \in Polls |-> IdlePoll] /\ watcher = IdleWatcher
  /\ held = {} /\ uses = [o \in Orders |-> 0] /\ delivered = {}
  /\ crashes = 0

ShopNext ==
  \/ \E o \in Orders, amount \in Amounts : CreateOrder(o, amount)
  \/ \E p \in Polls, o \in Orders, claim \in BOOLEAN :
       FindPayment(p, o, claim) \/ FindNothing(p, o, claim)
  \/ \E p \in Polls : CreditPoll(p) \/ Answer(p)
  \/ \E o \in Orders : Download(o)
  \/ StartScan \/ ListSignatures \/ Inspect \/ EndScan
  \/ \E tx \in Payments : Transfer(tx)
  \/ \E o \in Orders : OrderExpires(o) \/ GrantExpires(o) \/ LoseToken(o)
  \/ Crash

\* The server answers, and a buyer who has paid keeps asking while the order
\* awaits payment; a lookup may fail any number of times, but not at every attempt.
ShopFairness ==
  /\ \A p \in Polls : WF_shopVars(CreditPoll(p)) /\ WF_shopVars(Answer(p))
  /\ \A o \in Orders :
       SF_shopVars(\E p \in Polls, claim \in BOOLEAN : FindPayment(p, o, claim))

ShopSpec == ShopInit /\ [][ShopNext]_shopVars /\ ShopFairness

\* The watcher's timer goes on as well, and not every read of it fails.
WatchedSpec ==
  /\ ShopSpec
  /\ WF_shopVars(StartScan) /\ WF_shopVars(EndScan)
  /\ SF_shopVars(ListSignatures) /\ SF_shopVars(Inspect)

-----------------------------------------------------------------------------
(* Properties *)

\* The variables keep their types, and an order that is paid or owed a refund
\* has the transaction that says to whom and how much.
ShopTypeOK ==
  /\ ledger \in LedgerState
  /\ \A o \in Orders :
       ledger.orders[o].status \in {"paid", "fulfilled", "refund-due"}
         <=> ledger.orders[o].tx \in DOMAIN chain \cap ledger.used
  /\ chain \in Seq(Tx) /\ Len(chain) <= MaxTxs
  /\ late \subseteq Orders /\ over \subseteq Orders
  /\ polls \in [Polls -> Poll] /\ watcher \in Watcher
  /\ held \subseteq Orders /\ uses \in [Orders -> Nat] /\ delivered \subseteq Orders
  /\ crashes \in 0..MaxCrashes

\* "a restart replays to the identical state" (order-ledger.ts:3-5), for every
\* operation, whoever ran it.
RestartReproduces == ledger = disk

\* No file and no pre-order without money: a paid order has a transaction of
\* its exact amount, and no transaction pays for two orders, whichever of
\* status route and watcher came first and across restarts; and "the link works
\* once" (order-ledger.ts:256), also with requests at the same time.
DownloadIsBought ==
  /\ \A o \in Orders :
       ledger.orders[o].status \in {"paid", "fulfilled"} =>
         chain[ledger.orders[o].tx].amount = ledger.orders[o].amount
  /\ \A o, p \in Orders :
       o # p /\ ledger.orders[o].tx # 0 => ledger.orders[o].tx # ledger.orders[p].tx
  /\ \A o \in delivered : ledger.orders[o].status = "fulfilled"
  /\ \A o \in Orders : uses[o] <= 1

\* An exact payment that names the order's reference settles the order or has
\* it owe a refund, in time or late, unless it was taken for another order that
\* was later given the same amount.
ReferencePaymentIsDecided ==
  \A o \in Orders :
    PaymentsOf(o) # {} ~> (~Awaiting(disk, o) \/ PaymentsOf(o) \cap disk.used # {})

\* A payment of the exact amount of an order that is open when it lands is
\* credited, or owed back; without that "the order expired, no file was
\* delivered, no refund was raised, and the money sat in the revenue wallet
\* unaccounted for" (order-watcher.ts:8-9).
ManualPaymentIsDecided ==
  \A o \in Orders, i \in 1..MaxTxs :
    (i \in DOMAIN chain /\ Open(o) /\ chain[i].amount = ledger.orders[o].amount)
      ~> i \in disk.used
=============================================================================
