------------------------- MODULE CertificateLedger -------------------------
(***************************************************************************)
(* The hedge certificate ledger, packages/hedge/src/ledger.ts: the         *)
(* event-sourced state machine that quotes protection for a position,      *)
(* takes the payments seen on-chain, activates certificates, refunds what  *)
(* cannot activate and settles certificates at expiry.                     *)
(*                                                                         *)
(* `state' is the LedgerState record of the process, `log' the event log.  *)
(* The log is represented by what a restart makes of it: the state that    *)
(* fromEvents rebuilds by applying the events one at a time, and whether   *)
(* every one of them was accepted (fromEvents throws at the first event    *)
(* that dangles or breaks an invariant).  Money is integer micro-USDC;     *)
(* a quote is known by its position in the sequence of quotes, which       *)
(* stands both for its random id and for its payment reference.            *)
(***************************************************************************)
EXTENDS PrefixSums, Sequences, FiniteSets

CONSTANTS
  Mints, Wallets, TxIds,      \* positions, owners/payers, transaction signatures
  Terms,                      \* what priceCertificate may return
  Amounts,                    \* amounts a transfer to the treasury may carry
  Fees,                       \* accrued LP fees that a settlement may be given
  Checkpoints,                \* fee-growth checkpoints
  FloatDust,                  \* how far float rounding may leave the caps
  InitialReserves,
  UMaxBps, FeeSplitBps,
  QuoteTtl, Tenor, RegimeMaxAge,
  PerBuyerCapLimit,           \* 0 = no cap
  MaxOpenQuotesPerOwner,      \* 0 = no cap
  MaxLifetimeQuotes,          \* 0 = no ceiling
  MaxClock                    \* bound of the model: the clock stops here

FullBps == 10000  \* a whole, in basis points

ASSUME AmountsAssumption ==
  /\ Terms \subseteq [premium : Nat, capDown : Nat, capUp : Nat]
  /\ Amounts \subseteq Nat
  /\ Fees \subseteq Nat
  /\ FloatDust \in Nat
  /\ InitialReserves \in Nat

ASSUME ConfigAssumption ==
  /\ UMaxBps \in 0..FullBps
  /\ FeeSplitBps \in Nat
  /\ QuoteTtl \in Nat /\ Tenor \in Nat /\ RegimeMaxAge \in Nat
  /\ PerBuyerCapLimit \in Nat
  /\ MaxOpenQuotesPerOwner \in Nat
  /\ MaxLifetimeQuotes \in Nat
  /\ MaxClock \in Nat

VARIABLES now, state, log

vars == <<now, state, log>>

-----------------------------------------------------------------------------
(* Records, types.ts *)

Quote ==
  [mint : Mints, owner : Wallets, premium : Nat, capDown : Nat, capUp : Nat,
   validUntil : Nat, status : {"open", "lapsed", "consumed"}]

NoQuote == 0  \* the reference of a transfer that names no quote

Payment ==
  [tx : TxIds, ref : Nat, sender : Wallets, amount : Nat, matched : BOOLEAN]

Settlement == [payoff : Int, feeSplit : Nat, amount : Nat]

\* The two optional fields are sets of at most one element.
Certificate ==
  [mint : Mints, buyer : Wallets, premium : Nat, capDown : Nat, capUp : Nat,
   expiry : Nat, status : {"active", "settled", "expired"},
   feeCheckpoint : SUBSET Checkpoints, settlement : SUBSET Settlement]

OpenedState ==
  [paused |-> FALSE, treasury |-> InitialReserves,
   totalIn |-> 0, totalSettled |-> 0, totalRefunded |-> 0,
   quotes |-> <<>>, payments |-> <<>>, certs |-> [q \in {} |-> {}]]

TotalPayable(q) == q.premium + q.capUp

MaxOf(a, b) == IF a >= b THEN a ELSE b

MinOf(a, b) == IF a <= b THEN a ELSE b

-----------------------------------------------------------------------------
(* Sums and invariants of a ledger state, invariants.ts *)

IsActive(s, id) == id \in DOMAIN s.certs /\ s.certs[id].status = "active"

UnmatchedFloat(s) ==
  Sum(Len(s.payments), [i \in DOMAIN s.payments |->
        IF s.payments[i].matched THEN 0 ELSE s.payments[i].amount])

\* The sum of weight[id] over the active certificates.
SumActive(s, weight) ==
  Sum(Len(s.quotes), [id \in DOMAIN s.quotes |->
        IF IsActive(s, id) THEN weight[id] ELSE 0])

ActiveCollateral(s) == SumActive(s, [id \in DOMAIN s.certs |-> s.certs[id].capUp])

ActiveCapDown(s) == SumActive(s, [id \in DOMAIN s.certs |-> s.certs[id].capDown])

WorstObligations(s) ==
  SumActive(s, [id \in DOMAIN s.certs |-> s.certs[id].capDown + s.certs[id].capUp])

NetReserves(s) == s.treasury - UnmatchedFloat(s) - ActiveCollateral(s)

\* I1: the treasury covers the unprocessed payments, the held collateral and
\* the worst case of every active certificate at once.
SolventState(s) ==
  /\ s.treasury >= UnmatchedFloat(s) + ActiveCollateral(s)
  /\ s.treasury >= UnmatchedFloat(s) + WorstObligations(s)

\* I2: a certificate stands on a consumed quote and a matched payment of
\* exactly its price.
BackedState(s) ==
  \A id \in DOMAIN s.certs :
    /\ id \in DOMAIN s.quotes
    /\ s.quotes[id].status = "consumed"
    /\ \E i \in DOMAIN s.payments :
         /\ s.payments[i].ref = id
         /\ s.payments[i].matched
         /\ s.payments[i].amount = TotalPayable(s.quotes[id])

\* I3: conservation.
ConservedState(s) ==
  s.treasury = InitialReserves + s.totalIn - s.totalSettled - s.totalRefunded

\* I4: a settlement stays inside the caps and obeys the formula of the terms.
BoundedState(s) ==
  /\ s.treasury >= 0
  /\ \A id \in DOMAIN s.certs : \A st \in s.certs[id].settlement :
       LET c == s.certs[id]
       IN  /\ st.amount \in 0..(c.capDown + c.capUp)
           /\ st.payoff \in -c.capUp..c.capDown
           /\ st.amount = MaxOf(0, st.payoff - st.feeSplit + c.capUp)

InvariantsOk(s) ==
  SolventState(s) /\ BackedState(s) /\ ConservedState(s) /\ BoundedState(s)

-----------------------------------------------------------------------------
(* The event log: commit and replay *)

QuoteIssued(quote) == [kind |-> "QuoteIssued", quote |-> quote]

QuotesLapsed(ids) == [kind |-> "QuotesLapsed", ids |-> ids]

PaymentObserved(payment) == [kind |-> "PaymentObserved", payment |-> payment]

CertificateActivated(id, cert, tx) ==
  [kind |-> "CertificateActivated", id |-> id, cert |-> cert, tx |-> tx]

FeeCheckpointRecorded(id, checkpoint) ==
  [kind |-> "FeeCheckpointRecorded", id |-> id, checkpoint |-> checkpoint]

PaymentRefunded(tx, amount) ==
  [kind |-> "PaymentRefunded", tx |-> tx, amount |-> amount]

CertificateSettled(id, settlement, finalStatus) ==
  [kind |-> "CertificateSettled", id |-> id, settlement |-> settlement,
   finalStatus |-> finalStatus]

PausedSet(paused) == [kind |-> "PausedSet", paused |-> paused]

Matched(payments, tx) ==
  [i \in DOMAIN payments |->
     IF payments[i].tx = tx THEN [payments[i] EXCEPT !.matched = TRUE]
                            ELSE payments[i]]

WithCertificate(certs, id, cert) ==
  [k \in DOMAIN certs \cup {id} |-> IF k = id THEN cert ELSE certs[k]]

Lapsed(quotes, ids) ==
  [id \in DOMAIN quotes |->
     IF id \in ids THEN [quotes[id] EXCEPT !.status = "lapsed"] ELSE quotes[id]]

HasPayment(s, tx) == \E i \in DOMAIN s.payments : s.payments[i].tx = tx

\* Whether applyReplay finds everything the event refers to.
Resolves(s, e) ==
  CASE e.kind = "QuotesLapsed"         -> e.ids \subseteq DOMAIN s.quotes
    [] e.kind = "CertificateActivated" -> e.id \in DOMAIN s.quotes /\ HasPayment(s, e.tx)
    [] e.kind = "PaymentRefunded"      -> HasPayment(s, e.tx)
    [] e.kind = "CertificateSettled"   -> e.id \in DOMAIN s.certs
    [] OTHER                           -> TRUE

ApplyReplay(s, e) ==
  CASE e.kind = "QuoteIssued" ->
         [s EXCEPT !.quotes = Append(@, e.quote)]
    [] e.kind = "QuotesLapsed" ->
         [s EXCEPT !.quotes = Lapsed(@, e.ids)]
    [] e.kind = "PaymentObserved" ->
         [s EXCEPT !.payments = Append(@, e.payment),
                   !.treasury = @ + e.payment.amount,
                   !.totalIn = @ + e.payment.amount]
    [] e.kind = "CertificateActivated" ->
         [s EXCEPT !.certs = WithCertificate(@, e.id, e.cert),
                   !.payments = Matched(@, e.tx),
                   !.quotes[e.id].status = "consumed"]
    [] e.kind = "FeeCheckpointRecorded" ->
         IF e.id \in DOMAIN s.certs /\ s.certs[e.id].feeCheckpoint = {}
         THEN [s EXCEPT !.certs[e.id].feeCheckpoint = {e.checkpoint}]
         ELSE s
    [] e.kind = "PaymentRefunded" ->
         [s EXCEPT !.payments = Matched(@, e.tx),
                   !.treasury = @ - e.amount,
                   !.totalRefunded = @ + e.amount]
    [] e.kind = "CertificateSettled" ->
         [s EXCEPT !.certs[e.id].status = e.finalStatus,
                   !.certs[e.id].settlement = {e.settlement},
                   !.treasury = @ - e.settlement.amount,
                   !.totalSettled = @ + e.settlement.amount]
    [] e.kind = "PausedSet" ->
         [s EXCEPT !.paused = e.paused]

\* The log l after commit(e) in the state s: commit asserts the invariants of
\* the live state first and appends nothing when they fail.
Committed(l, s, e) ==
  IF InvariantsOk(s)
  THEN [state |-> ApplyReplay(l.state, e),
        loads |-> /\ l.loads
                  /\ Resolves(l.state, e)
                  /\ InvariantsOk(ApplyReplay(l.state, e))]
  ELSE l

Commit(s, e) == state' = s /\ log' = Committed(log, s, e)

-----------------------------------------------------------------------------
(* Operations, ledger.ts *)

SetPaused(paused) ==
  /\ Commit([state EXCEPT !.paused = paused], PausedSet(paused))
  /\ UNCHANGED now

\* Exposure guard, evaluated when a quote is issued and again at activation.
HasHeadroomOnTreasury(s, capDown) ==  \* mutant: counts other people's money
  (ActiveCapDown(s) + capDown) * FullBps <= s.treasury * UMaxBps

HasHeadroomEachAlone(s, capDown) ==  \* mutant: forgets the exposure there is
  capDown * FullBps <= NetReserves(s) * UMaxBps

HasHeadroom(s, capDown) ==
  (ActiveCapDown(s) + capDown) * FullBps <= NetReserves(s) * UMaxBps

IsOpen(s, id) == s.quotes[id].status = "open" /\ now <= s.quotes[id].validUntil

OpenQuotesOf(w) ==
  {id \in DOMAIN state.quotes : IsOpen(state, id) /\ state.quotes[id].owner = w}

BlocksQuoteHalfOpen(m) ==  \* mutant: free again while the last second can be paid
  \E id \in DOMAIN state.quotes :
    /\ state.quotes[id].mint = m
    /\ state.quotes[id].status = "open" /\ now < state.quotes[id].validUntil

BlocksQuote(m) ==
  \E id \in DOMAIN state.quotes : state.quotes[id].mint = m /\ IsOpen(state, id)

IsProtected(m) ==
  \E id \in DOMAIN state.certs : state.certs[id].mint = m /\ IsActive(state, id)

IssueQuote(m, w, terms, regimeUpdatedAt) ==
  /\ ~state.paused
  /\ now - regimeUpdatedAt <= RegimeMaxAge
  /\ ~BlocksQuote(m)
  /\ ~IsProtected(m)
  /\ MaxLifetimeQuotes > 0 => Len(state.quotes) < MaxLifetimeQuotes
  /\ MaxOpenQuotesPerOwner > 0 =>
       Cardinality(OpenQuotesOf(w)) < MaxOpenQuotesPerOwner
  /\ HasHeadroom(state, terms.capDown)
  /\ LET quote == [mint |-> m, owner |-> w, premium |-> terms.premium,
                   capDown |-> terms.capDown, capUp |-> terms.capUp,
                   validUntil |-> now + QuoteTtl, status |-> "open"]
     IN  Commit([state EXCEPT !.quotes = Append(@, quote)], QuoteIssued(quote))
  /\ UNCHANGED now

RecordFeeCheckpointInLogOnly(id, checkpoint) ==  \* mutant: live state not updated
  /\ id \in DOMAIN state.certs
  /\ state.certs[id].feeCheckpoint = {}
  /\ Commit(state, FeeCheckpointRecorded(id, checkpoint))
  /\ UNCHANGED now

RecordFeeCheckpointAgain(id, checkpoint) ==  \* mutant: not write-once
  /\ id \in DOMAIN state.certs
  /\ Commit([state EXCEPT !.certs[id].feeCheckpoint = {checkpoint}],
            FeeCheckpointRecorded(id, checkpoint))
  /\ UNCHANGED now

\* Write-once: a second checkpoint for the same certificate is ignored.
RecordFeeCheckpoint(id, checkpoint) ==
  /\ id \in DOMAIN state.certs
  /\ state.certs[id].feeCheckpoint = {}
  /\ Commit([state EXCEPT !.certs[id].feeCheckpoint = {checkpoint}],
            FeeCheckpointRecorded(id, checkpoint))
  /\ UNCHANGED now

ExpiredOpenQuotes ==
  {id \in DOMAIN state.quotes :
     state.quotes[id].status = "open" /\ now > state.quotes[id].validUntil}

\* The code commits one event per quote; they touch different quotes and
\* nothing that an invariant reads, so one batch stands for them.
LapseExpiredQuotes ==
  /\ ExpiredOpenQuotes # {}
  /\ Commit([state EXCEPT !.quotes = Lapsed(@, ExpiredOpenQuotes)],
            QuotesLapsed(ExpiredOpenQuotes))
  /\ UNCHANGED now

BuyerExposure(s, w) ==
  SumActive(s, [id \in DOMAIN s.certs |->
                  IF s.certs[id].buyer = w THEN s.certs[id].capDown ELSE 0])

WithinBuyerLimitBefore(s, w, capDown) ==  \* mutant: the new certificate not counted
  PerBuyerCapLimit > 0 => BuyerExposure(s, w) < PerBuyerCapLimit

WithinBuyerLimit(s, w, capDown) ==
  PerBuyerCapLimit > 0 => BuyerExposure(s, w) + capDown <= PerBuyerCapLimit

\* tryActivate's early returns, as the condition under which none is taken.
CanActivate(s, p) ==
  /\ ~s.paused
  /\ p.ref \in DOMAIN s.quotes
  /\ IsOpen(s, p.ref)
  /\ p.amount = TotalPayable(s.quotes[p.ref])
  /\ p.ref \notin DOMAIN s.certs
  /\ p.sender = s.quotes[p.ref].owner
  /\ WithinBuyerLimit(s, p.sender, s.quotes[p.ref].capDown)
  /\ HasHeadroom(s, s.quotes[p.ref].capDown)

NewCertificate(q) ==
  [mint |-> q.mint, buyer |-> q.owner, premium |-> q.premium,
   capDown |-> q.capDown, capUp |-> q.capUp, expiry |-> now + Tenor,
   status |-> "active", feeCheckpoint |-> {}, settlement |-> {}]

Received(s, p) ==
  [s EXCEPT !.payments = Append(@, p),
            !.treasury = @ + p.amount,
            !.totalIn = @ + p.amount]

ActivatedLeavingPayment(s, p) ==  \* mutant: the payment stays refundable
  [s EXCEPT !.quotes[p.ref].status = "consumed",
            !.certs = WithCertificate(@, p.ref, NewCertificate(s.quotes[p.ref]))]

Activated(s, p) ==
  [s EXCEPT !.payments = Matched(@, p.tx),
            !.quotes[p.ref].status = "consumed",
            !.certs = WithCertificate(@, p.ref, NewCertificate(s.quotes[p.ref]))]

\* A transfer delivered again is a no-op; a new one is credited and then tried.
\* Two events are committed when it activates, the second on top of the first.
ObservePayment(p) ==
  LET received == Received(state, p)
      credited == Committed(log, received, PaymentObserved(p))
      active   == Activated(received, p)
  IN  /\ ~HasPayment(state, p.tx)
      /\ \/ /\ InvariantsOk(received)
            /\ CanActivate(received, p)
            /\ state' = active
            /\ log' = Committed(credited, active,
                        CertificateActivated(p.ref, active.certs[p.ref], p.tx))
         \/ /\ ~(InvariantsOk(received) /\ CanActivate(received, p))
            /\ state' = received
            /\ log' = credited
      /\ UNCHANGED now

Refundable(p) ==
  p.ref \in DOMAIN state.quotes =>
    ~IsOpen(state, p.ref) \/ p.amount # TotalPayable(state.quotes[p.ref])

RefundPaymentMatched(i) ==  \* mutant: an activated or refunded payment too
  LET p == state.payments[i]
  IN  /\ Refundable(p)
      /\ Commit([state EXCEPT !.payments = Matched(@, p.tx),
                              !.treasury = @ - p.amount,
                              !.totalRefunded = @ + p.amount],
                PaymentRefunded(p.tx, p.amount))
      /\ UNCHANGED now

RefundPayment(i) ==
  LET p == state.payments[i]
  IN  /\ ~p.matched
      /\ Refundable(p)
      /\ Commit([state EXCEPT !.payments = Matched(@, p.tx),
                              !.treasury = @ - p.amount,
                              !.totalRefunded = @ + p.amount],
                PaymentRefunded(p.tx, p.amount))
      /\ UNCHANGED now

\* payoffRaw is V(entry) - V(price), truncated: inside the caps up to dust.
SettlementOf(c, payoffRaw, fees) ==
  LET payoff   == MinOf(MaxOf(payoffRaw, -c.capUp), c.capDown)
      feeSplit == (FeeSplitBps * fees) \div FullBps
  IN  [payoff |-> payoff, feeSplit |-> feeSplit,
       amount |-> MaxOf(0, payoff - feeSplit + c.capUp)]

FinalStatus(st) == IF st.payoff = 0 THEN "expired" ELSE "settled"

IsDue(id) == IsActive(state, id) /\ now >= state.certs[id].expiry

\* No paused guard.
Settle(id, payoffRaw, fees) ==
  LET st == SettlementOf(state.certs[id], payoffRaw, fees)
  IN  /\ IsDue(id)
      /\ st.amount <= state.treasury
      /\ Commit([state EXCEPT !.certs[id].status = FinalStatus(st),
                              !.certs[id].settlement = {st},
                              !.treasury = @ - st.amount,
                              !.totalSettled = @ + st.amount],
                CertificateSettled(id, st, FinalStatus(st)))
      /\ UNCHANGED now

Tick == now < MaxClock /\ now' = now + 1 /\ UNCHANGED <<state, log>>

-----------------------------------------------------------------------------

Init ==
  /\ now = 0
  /\ state = OpenedState
  /\ log = [state |-> OpenedState, loads |-> TRUE]

Transfers ==
  [tx : TxIds, ref : DOMAIN state.quotes \cup {NoQuote}, sender : Wallets,
   amount : Amounts, matched : {FALSE}]

RawPayoffs(c) == (-c.capUp - FloatDust)..(c.capDown + FloatDust)

Next ==
  \/ Tick
  \/ \E paused \in BOOLEAN : SetPaused(paused)
  \/ \E m \in Mints, w \in Wallets, terms \in Terms, regimeUpdatedAt \in 0..now :
       IssueQuote(m, w, terms, regimeUpdatedAt)
  \/ \E id \in DOMAIN state.certs, checkpoint \in Checkpoints :
       RecordFeeCheckpoint(id, checkpoint)
  \/ LapseExpiredQuotes
  \/ \E p \in Transfers : ObservePayment(p)
  \/ \E i \in DOMAIN state.payments : RefundPayment(i)
  \/ \E id \in DOMAIN state.certs, fees \in Fees :
       \E payoffRaw \in RawPayoffs(state.certs[id]) : Settle(id, payoffRaw, fees)

Spec == Init /\ [][Next]_vars

-----------------------------------------------------------------------------
(* Properties *)

StateTypeOk(s) ==
  /\ s \in [paused : BOOLEAN, treasury : Int, totalIn : Nat, totalSettled : Nat,
            totalRefunded : Nat, quotes : Seq(Quote), payments : Seq(Payment),
            certs : [DOMAIN s.certs -> Certificate]]
  /\ DOMAIN s.certs \subseteq DOMAIN s.quotes

\* The records of types.ts keep their types, a certificate has a quote.
TypeOK ==
  /\ now \in 0..MaxClock
  /\ StateTypeOk(state)

\* The monitors of invariants.ts hold in every reachable state, so the
\* assertion in commit() never throws: it has no way to undo the change of
\* state that precedes it, and a throw would leave memory and log apart.
InvariantsHold == InvariantsOk(state)

\* Activations respect the utilization ceiling when they happen, and neither
\* the settlements nor the refunds that follow push the exposure above it.
UtilizationBound ==
  ActiveCapDown(state) * FullBps <= NetReserves(state) * UMaxBps

\* Every micro-USDC ever received is still unmatched, was refunded, or bought
\* exactly one certificate: no payment is both refunded and used, or used twice.
\* (I2 alone accepts a certificate whose only exact payment was refunded.)
InflowsAccounted ==
  state.totalIn =
    UnmatchedFloat(state) + state.totalRefunded
    + Sum(Len(state.quotes), [id \in DOMAIN state.quotes |->
            IF id \in DOMAIN state.certs
            THEN state.certs[id].premium + state.certs[id].capUp ELSE 0])

\* A position is protected at most once at a time.  activation does not look
\* at other certificates of the position: it relies on issueQuote refusing a
\* second quote up to and including the last second in which the first can
\* still be paid.
OneCertificatePerPosition ==
  \A a, b \in DOMAIN state.certs :
    IsActive(state, a) /\ IsActive(state, b) /\ state.certs[a].mint = state.certs[b].mint
      => a = b

\* FR-H9: several quotes may be open when the cap is computed, and it is the
\* activations that must keep within it.
BuyerWithinLimit ==
  PerBuyerCapLimit > 0 =>
    \A w \in Wallets : BuyerExposure(state, w) <= PerBuyerCapLimit

\* settle()'s last check ("unreachable if I1 holds") cannot refuse a
\* certificate: whatever the price and the fees say, the amount is there
\* without touching the money of payments still unmatched.
SettlementCovered ==
  LET available == state.treasury - UnmatchedFloat(state)
  IN  \A id \in DOMAIN state.certs : IsActive(state, id) =>
        \A fees \in Fees, payoffRaw \in RawPayoffs(state.certs[id]) :
          SettlementOf(state.certs[id], payoffRaw, fees).amount <= available

\* A restart that replays the log finds the state the process had, and every
\* prefix of the log loads.
RestartReproduces == log = [state |-> state, loads |-> TRUE]

\* Decisions are final: a matched payment stays matched, a quote leaves "open"
\* once, a settled certificate and a recorded checkpoint never change, and no
\* record disappears.
DecisionsFinal ==
  /\ \A i \in DOMAIN state.payments :
       /\ i \in DOMAIN state'.payments
       /\ state.payments[i].matched => state'.payments[i] = state.payments[i]
  /\ \A id \in DOMAIN state.quotes :
       /\ id \in DOMAIN state'.quotes
       /\ state.quotes[id].status # "open" => state'.quotes[id] = state.quotes[id]
  /\ \A id \in DOMAIN state.certs :
       /\ id \in DOMAIN state'.certs
       /\ ~IsActive(state, id) =>
            state'.certs[id].settlement = state.certs[id].settlement
       /\ state.certs[id].feeCheckpoint \subseteq state'.certs[id].feeCheckpoint

DecisionsAreFinal == [][DecisionsFinal]_vars

\* The ledger keeps the treasury's promise (module ReserveAccounting).
Accounts ==
  INSTANCE ReserveAccounting WITH
    reserves   <- NetReserves(state),
    exposure   <- ActiveCapDown(state),
    deposits   <- UnmatchedFloat(state),
    collateral <- ActiveCollateral(state)

ImplementsReserveAccounting == Accounts!Spec
=============================================================================
