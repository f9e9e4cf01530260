---------------------- MODULE CertificateLedgerProofs ----------------------
(***************************************************************************)
(* The certificate ledger for all constants that satisfy its assumptions:  *)
(* its records keep their types, and it keeps the accounts of              *)
(* ReserveAccounting: every operation is one of its steps or leaves the    *)
(* accounts alone.  Solvency of the ledger is then solvency of the         *)
(* accounts.                                                               *)
(***************************************************************************)
EXTENDS CertificateLedger, PrefixSumsProofs, TLAPS

-----------------------------------------------------------------------------
(* The records an operation writes are well typed *)

LEMMA StateFields ==
  ASSUME NEW s, StateTypeOk(s)
  PROVE  /\ s.paused \in BOOLEAN /\ s.treasury \in Int /\ s.totalIn \in Nat
         /\ s.totalSettled \in Nat /\ s.totalRefunded \in Nat
         /\ s.quotes \in Seq(Quote) /\ s.payments \in Seq(Payment)
         /\ s.certs \in [DOMAIN s.certs -> Certificate]
         /\ DOMAIN s.certs \subseteq DOMAIN s.quotes
BY DEF StateTypeOk

\* Marking payments as matched changes nothing else of the sequence.
LEMMA MatchedType ==
  ASSUME NEW payments \in Seq(Payment), NEW tx
  PROVE  /\ Matched(payments, tx) \in Seq(Payment)
         /\ Len(Matched(payments, tx)) = Len(payments)
         /\ \A i \in 1..Len(payments) :
              /\ Matched(payments, tx)[i].amount = payments[i].amount
              /\ Matched(payments, tx)[i].tx = payments[i].tx
              /\ Matched(payments, tx)[i].ref = payments[i].ref
              /\ Matched(payments, tx)[i].matched
                   = (payments[i].matched \/ payments[i].tx = tx)
<1> DEFINE M == Matched(payments, tx)
<1>1. DOMAIN payments = 1..Len(payments) /\ Len(payments) \in Nat
  OBVIOUS
<1>2. \A i \in 1..Len(payments) : payments[i] \in Payment
  OBVIOUS
<1>3. M = [i \in 1..Len(payments) |->
             IF payments[i].tx = tx THEN [payments[i] EXCEPT !.matched = TRUE]
                                    ELSE payments[i]]
  BY <1>1 DEF Matched
<1>4. \A i \in 1..Len(payments) : M[i] \in Payment
  BY <1>2, <1>3, ZenonT(30) DEF Payment
<1>5. M \in Seq(Payment) /\ Len(M) = Len(payments)
  BY <1>1, <1>3, <1>4
<1>6. \A i \in 1..Len(payments) :
        /\ M[i].amount = payments[i].amount
        /\ M[i].tx = payments[i].tx
        /\ M[i].ref = payments[i].ref
        /\ M[i].matched = (payments[i].matched \/ payments[i].tx = tx)
  BY <1>2, <1>3 DEF Payment
<1>7. QED
  BY <1>5, <1>6

\* Lapsing quotes changes their status only.
LEMMA LapsedType ==
  ASSUME NEW quotes \in Seq(Quote), NEW ids
  PROVE  /\ Lapsed(quotes, ids) \in Seq(Quote)
         /\ Len(Lapsed(quotes, ids)) = Len(quotes)
<1> DEFINE L == Lapsed(quotes, ids)
<1>1. DOMAIN quotes = 1..Len(quotes) /\ Len(quotes) \in Nat
  OBVIOUS
<1>2. L = [id \in 1..Len(quotes) |->
             IF id \in ids THEN [quotes[id] EXCEPT !.status = "lapsed"] ELSE quotes[id]]
  BY <1>1 DEF Lapsed
<1>3. \A id \in 1..Len(quotes) : quotes[id] \in Quote
  OBVIOUS
<1>4. ASSUME NEW id \in 1..Len(quotes) PROVE L[id] \in Quote
  <2>1. quotes[id] \in Quote
    BY <1>3
  <2>2. [quotes[id] EXCEPT !.status = "lapsed"] \in Quote
    BY <2>1 DEF Quote
  <2>3. QED
    BY <1>2, <2>1, <2>2
<1>5. QED
  BY <1>1, <1>2, <1>4

\* What a settlement pays lies between nothing and both caps.
LEMMA SettlementType ==
  ASSUME NEW c \in Certificate, NEW payoffRaw \in Int, NEW fees \in Nat
  PROVE  /\ SettlementOf(c, payoffRaw, fees) \in Settlement
         /\ SettlementOf(c, payoffRaw, fees).payoff \in (-c.capUp)..c.capDown
         /\ SettlementOf(c, payoffRaw, fees).amount \in 0..(c.capUp + c.capDown)
<1> DEFINE payoff   == MinOf(MaxOf(payoffRaw, -c.capUp), c.capDown)
           feeSplit == (FeeSplitBps * fees) \div FullBps
           amount   == MaxOf(0, payoff - feeSplit + c.capUp)
<1>1. c.capUp \in Nat /\ c.capDown \in Nat
  BY DEF Certificate
<1>2. payoff \in (-c.capUp)..c.capDown
  BY <1>1 DEF MinOf, MaxOf
<1>3. feeSplit \in Nat
  <2>1. FeeSplitBps * fees \in Nat
    BY ConfigAssumption
  <2>2. \A n \in Nat : n \div FullBps \in Nat
    BY DEF FullBps
  <2>3. QED
    BY <2>1, <2>2
<1>4. amount \in Nat /\ amount \in 0..(c.capUp + c.capDown)
  <2> HIDE DEF payoff, feeSplit
  <2>1. QED
    BY <1>1, <1>2, <1>3 DEF MaxOf
<1>5. SettlementOf(c, payoffRaw, fees)
        = [payoff |-> payoff, feeSplit |-> feeSplit, amount |-> amount]
  BY DEF SettlementOf
<1> HIDE DEF payoff, feeSplit, amount
<1>6. payoff \in Int
  BY <1>1, <1>2
<1>7. QED
  BY <1>2, <1>3, <1>4, <1>5, <1>6 DEF Settlement

-----------------------------------------------------------------------------
(* Type correctness, one lemma per kind of update *)

LEMMA PausedKeepsType ==
  ASSUME NEW s, StateTypeOk(s), NEW paused \in BOOLEAN
  PROVE  StateTypeOk([s EXCEPT !.paused = paused])
BY DEF StateTypeOk

LEMMA QuotesKeepType ==
  ASSUME NEW s, StateTypeOk(s), NEW quotes \in Seq(Quote), Len(quotes) >= Len(s.quotes)
  PROVE  StateTypeOk([s EXCEPT !.quotes = quotes])
<1>1. DOMAIN s.quotes = 1..Len(s.quotes) /\ DOMAIN quotes = 1..Len(quotes)
  BY StateFields
<1>2. DOMAIN s.quotes \subseteq DOMAIN quotes
  BY <1>1, StateFields
<1>3. QED
  BY <1>2 DEF StateTypeOk

LEMMA ReceivedKeepsType ==
  ASSUME NEW s, StateTypeOk(s), NEW p \in Payment
  PROVE  StateTypeOk(Received(s, p))
<1>1. p.amount \in Nat
  BY DEF Payment
<1>2. Append(s.payments, p) \in Seq(Payment)
  BY StateFields
<1>3. s.treasury + p.amount \in Int /\ s.totalIn + p.amount \in Nat
  BY <1>1, StateFields
<1> DEFINE treasury == s.treasury + p.amount
           totalIn  == s.totalIn + p.amount
<1>4. Received(s, p) = [s EXCEPT !.payments = Append(s.payments, p),
                                 !.treasury = treasury, !.totalIn = totalIn]
  BY DEF Received
<1> HIDE DEF treasury, totalIn
<1>5. QED
  BY <1>2, <1>3, <1>4 DEF StateTypeOk, treasury, totalIn

LEMMA WithCertificateKeepsType ==
  ASSUME NEW s, StateTypeOk(s), NEW id \in DOMAIN s.quotes, NEW cert \in Certificate
  PROVE  /\ WithCertificate(s.certs, id, cert)
              \in [DOMAIN WithCertificate(s.certs, id, cert) -> Certificate]
         /\ DOMAIN WithCertificate(s.certs, id, cert) = DOMAIN s.certs \cup {id}
BY StateFields DEF WithCertificate

LEMMA ConsumedType ==
  ASSUME NEW quotes \in Seq(Quote), NEW id \in DOMAIN quotes
  PROVE  /\ [quotes EXCEPT ![id].status = "consumed"] \in Seq(Quote)
         /\ Len([quotes EXCEPT ![id].status = "consumed"]) = Len(quotes)
<1>1. quotes[id] \in Quote
  OBVIOUS
<1>2. [quotes[id] EXCEPT !.status = "consumed"] \in Quote
  BY <1>1 DEF Quote
<1>3. QED
  BY <1>2

LEMMA NewCertificateType ==
  ASSUME now \in Nat, NEW q \in Quote
  PROVE  NewCertificate(q) \in Certificate
<1>1. now + Tenor \in Nat
  BY ConfigAssumption
<1>2. QED
  BY <1>1 DEF NewCertificate, Certificate, Quote

LEMMA ActivatedKeepsType ==
  ASSUME now \in Nat, NEW s, StateTypeOk(s), NEW p, p.ref \in DOMAIN s.quotes
  PROVE  StateTypeOk(Activated(s, p))
<1> DEFINE id     == p.ref
           cert   == NewCertificate(s.quotes[id])
           quotes == [s.quotes EXCEPT ![id].status = "consumed"]
           certs  == WithCertificate(s.certs, id, cert)
<1>1. s.quotes \in Seq(Quote) /\ s.quotes[id] \in Quote
  BY StateFields
<1>2. cert \in Certificate
  BY <1>1, NewCertificateType
<1>3. quotes \in Seq(Quote) /\ Len(quotes) = Len(s.quotes)
  BY <1>1, ConsumedType
<1>4. DOMAIN quotes = DOMAIN s.quotes
  BY <1>1, <1>3
<1>5. certs \in [DOMAIN certs -> Certificate] /\ DOMAIN certs = DOMAIN s.certs \cup {id}
  <2> HIDE DEF cert
  <2>1. QED
    BY <1>2, WithCertificateKeepsType
<1>6. DOMAIN certs \subseteq DOMAIN quotes
  BY <1>4, <1>5, StateFields
<1>7. Matched(s.payments, p.tx) \in Seq(Payment)
  BY StateFields, MatchedType
<1>8. Activated(s, p) = [s EXCEPT !.payments = Matched(s.payments, p.tx),
                                  !.quotes = quotes, !.certs = certs]
  BY StateFields DEF Activated, StateTypeOk
<1> HIDE DEF quotes, certs
<1>9. QED
  BY <1>3, <1>5, <1>6, <1>7, <1>8 DEF StateTypeOk

LEMMA RefundKeepsType ==
  ASSUME NEW s, StateTypeOk(s), NEW tx, NEW amount \in Nat
  PROVE  StateTypeOk([s EXCEPT !.payments = Matched(@, tx),
                               !.treasury = @ - amount,
                               !.totalRefunded = @ + amount])
<1>1. Matched(s.payments, tx) \in Seq(Payment)
  BY StateFields, MatchedType
<1> DEFINE treasury == s.treasury - amount
           totalRefunded == s.totalRefunded + amount
<1>2. treasury \in Int /\ totalRefunded \in Nat
  BY StateFields
<1> HIDE DEF treasury, totalRefunded
<1>3. StateTypeOk([s EXCEPT !.payments = Matched(s.payments, tx),
                            !.treasury = treasury, !.totalRefunded = totalRefunded])
  BY <1>1, <1>2 DEF StateTypeOk
<1>4. QED
  BY <1>3 DEF treasury, totalRefunded

LEMMA CheckpointKeepsType ==
  ASSUME NEW s, StateTypeOk(s), NEW id \in DOMAIN s.certs, NEW checkpoint \in Checkpoints
  PROVE  StateTypeOk([s EXCEPT !.certs[id].feeCheckpoint = {checkpoint}])
<1>1. s.certs[id] \in Certificate
  BY StateFields
<1>2. [s.certs[id] EXCEPT !.feeCheckpoint = {checkpoint}] \in Certificate
  BY <1>1 DEF Certificate
<1>3. QED
  BY <1>2 DEF StateTypeOk

LEMMA SettledKeepsType ==
  ASSUME NEW s, StateTypeOk(s), NEW id \in DOMAIN s.certs, NEW st \in Settlement
  PROVE  StateTypeOk([s EXCEPT !.certs[id].status = FinalStatus(st),
                               !.certs[id].settlement = {st},
                               !.treasury = @ - st.amount,
                               !.totalSettled = @ + st.amount])
<1> DEFINE settled == [s.certs[id] EXCEPT !.status = FinalStatus(st), !.settlement = {st}]
<1>1. s.certs[id] \in Certificate
  BY StateFields
<1>2. settled \in Certificate
  BY <1>1 DEF Certificate, FinalStatus
<1>3. [s.certs EXCEPT ![id] = settled] \in [DOMAIN s.certs -> Certificate]
  <2> HIDE DEF settled
  <2>1. QED
    BY <1>2, StateFields
<1> DEFINE treasury == s.treasury - st.amount
           totalSettled == s.totalSettled + st.amount
<1>4. treasury \in Int /\ totalSettled \in Nat
  <2>1. st.amount \in Nat
    BY DEF Settlement
  <2>2. QED
    BY <2>1, StateFields
<1>5. [s EXCEPT !.certs[id].status = FinalStatus(st),
                !.certs[id].settlement = {st},
                !.treasury = @ - st.amount,
                !.totalSettled = @ + st.amount]
        = [s EXCEPT !.certs = [s.certs EXCEPT ![id] = settled],
                    !.treasury = treasury, !.totalSettled = totalSettled]
  BY <1>1, ZenonT(30) DEF StateTypeOk, Certificate
<1> HIDE DEF settled, treasury, totalSettled
<1>6. StateTypeOk([s EXCEPT !.certs = [s.certs EXCEPT ![id] = settled],
                            !.treasury = treasury, !.totalSettled = totalSettled])
  BY <1>3, <1>4 DEF StateTypeOk
<1>7. QED
  BY <1>5, <1>6

-----------------------------------------------------------------------------
(* Type correctness of the specification *)

LEMMA NewQuoteType ==
  ASSUME now \in Nat, NEW m \in Mints, NEW w \in Wallets, NEW terms \in Terms
  PROVE  [mint |-> m, owner |-> w, premium |-> terms.premium,
          capDown |-> terms.capDown, capUp |-> terms.capUp,
          validUntil |-> now + QuoteTtl, status |-> "open"] \in Quote
<1>1. terms.premium \in Nat /\ terms.capDown \in Nat /\ terms.capUp \in Nat
  BY AmountsAssumption
<1>2. now + QuoteTtl \in Nat
  BY ConfigAssumption
<1>3. QED
  BY <1>1, <1>2 DEF Quote

LEMMA AppendQuoteKeepsType ==
  ASSUME NEW s, StateTypeOk(s), NEW quote \in Quote
  PROVE  StateTypeOk([s EXCEPT !.quotes = Append(@, quote)])
<1>1. s.quotes \in Seq(Quote)
  BY StateFields
<1>2. Append(s.quotes, quote) \in Seq(Quote) /\ Len(Append(s.quotes, quote)) >= Len(s.quotes)
  BY <1>1
<1>3. QED
  BY <1>2, QuotesKeepType

LEMMA TransferType ==
  ASSUME NEW p \in Transfers, StateTypeOk(state)
  PROVE  p \in Payment
<1>1. DOMAIN state.quotes \subseteq Nat
  BY StateFields
<1>2. p.ref \in Nat
  BY <1>1 DEF Transfers, NoQuote
<1>3. p.amount \in Nat
  BY AmountsAssumption DEF Transfers
<1>4. QED
  BY <1>2, <1>3 DEF Transfers, Payment

LEMMA RawPayoffType ==
  ASSUME NEW c \in Certificate, NEW payoffRaw \in RawPayoffs(c)
  PROVE  payoffRaw \in Int
BY AmountsAssumption DEF RawPayoffs, Certificate

LEMMA TypeInit == Init => TypeOK
<1> SUFFICES ASSUME Init PROVE TypeOK
  OBVIOUS
<1>1. InitialReserves \in Int /\ MaxClock \in Nat
  BY AmountsAssumption, ConfigAssumption
<1>2. [q \in {} |-> {}] \in [{} -> Certificate] /\ DOMAIN [q \in {} |-> {}] = {}
  OBVIOUS
<1>3. StateTypeOk(OpenedState)
  BY <1>1, <1>2 DEF StateTypeOk, OpenedState
<1>4. QED
  BY <1>1, <1>3 DEF Init, TypeOK

LEMMA TypeStep == TypeOK /\ [Next]_vars => TypeOK'
<1> SUFFICES ASSUME TypeOK, [Next]_vars PROVE TypeOK'
  OBVIOUS
<1>1. now \in 0..MaxClock /\ now \in Nat /\ StateTypeOk(state)
  BY ConfigAssumption DEF TypeOK
<1>2. CASE Tick
  <2>1. now + 1 \in 0..MaxClock
    BY <1>1, <1>2, ConfigAssumption DEF Tick
  <2>2. QED
    BY <1>1, <1>2, <2>1 DEF Tick, TypeOK
<1>3. ASSUME NEW paused \in BOOLEAN, SetPaused(paused) PROVE TypeOK'
  BY <1>1, <1>3, PausedKeepsType DEF SetPaused, Commit, TypeOK
<1>4. ASSUME NEW m \in Mints, NEW w \in Wallets, NEW terms \in Terms,
             NEW regimeUpdatedAt \in 0..now, IssueQuote(m, w, terms, regimeUpdatedAt)
      PROVE  TypeOK'
  <2> DEFINE quote == [mint |-> m, owner |-> w, premium |-> terms.premium,
                       capDown |-> terms.capDown, capUp |-> terms.capUp,
                       validUntil |-> now + QuoteTtl, status |-> "open"]
  <2>1. quote \in Quote
    BY <1>1, NewQuoteType
  <2>2. state' = [state EXCEPT !.quotes = Append(@, quote)] /\ now' = now
    BY <1>4 DEF IssueQuote, Commit
  <2> HIDE DEF quote
  <2>3. StateTypeOk(state')
    BY <1>1, <2>1, <2>2, AppendQuoteKeepsType
  <2>4. QED
    BY <1>1, <2>2, <2>3 DEF TypeOK
<1>5. ASSUME NEW id \in DOMAIN state.certs, NEW checkpoint \in Checkpoints,
             RecordFeeCheckpoint(id, checkpoint)
      PROVE  TypeOK'
  BY <1>1, <1>5, CheckpointKeepsType DEF RecordFeeCheckpoint, Commit, TypeOK
<1>6. CASE LapseExpiredQuotes
  <2>1. state' = [state EXCEPT !.quotes = Lapsed(@, ExpiredOpenQuotes)] /\ now' = now
    BY <1>6 DEF LapseExpiredQuotes, Commit
  <2>2. /\ Lapsed(state.quotes, ExpiredOpenQuotes) \in Seq(Quote)
        /\ Len(Lapsed(state.quotes, ExpiredOpenQuotes)) = Len(state.quotes)
    BY <1>1, StateFields, LapsedType
  <2>3. Len(Lapsed(state.quotes, ExpiredOpenQuotes)) >= Len(state.quotes)
    BY <1>1, <2>2, StateFields
  <2>4. StateTypeOk([state EXCEPT !.quotes = Lapsed(state.quotes, ExpiredOpenQuotes)])
    BY <1>1, <2>2, <2>3, QuotesKeepType
  <2>5. QED
    BY <1>1, <2>1, <2>4 DEF TypeOK
<1>7. ASSUME NEW p \in Transfers, ObservePayment(p) PROVE TypeOK'
  <2>1. p \in Payment
    BY <1>1, TransferType
  <2>2. StateTypeOk(Received(state, p))
    BY <1>1, <2>1, ReceivedKeepsType
  <2>3. CanActivate(Received(state, p), p) => StateTypeOk(Activated(Received(state, p), p))
    BY <1>1, <2>2, ActivatedKeepsType DEF CanActivate
  <2>4. /\ now' = now
        /\ \/ state' = Received(state, p)
           \/ CanActivate(Received(state, p), p) /\ state' = Activated(Received(state, p), p)
    BY <1>7 DEF ObservePayment
  <2>5. QED
    BY <1>1, <2>2, <2>3, <2>4 DEF TypeOK
<1>8. ASSUME NEW i \in DOMAIN state.payments, RefundPayment(i) PROVE TypeOK'
  <2> DEFINE p == state.payments[i]
  <2>1. p.amount \in Nat
    <3>1. p \in Payment
      BY <1>1, StateFields
    <3>2. QED
      BY <3>1 DEF Payment
  <2>2. now' = now /\ state' = [state EXCEPT !.payments = Matched(@, p.tx),
                                  !.treasury = @ - p.amount,
                                  !.totalRefunded = @ + p.amount]
    BY <1>8 DEF RefundPayment, Commit
  <2> HIDE DEF p
  <2>3. StateTypeOk(state')
    BY <1>1, <2>1, <2>2, RefundKeepsType
  <2>4. QED
    BY <1>1, <2>2, <2>3 DEF TypeOK
<1>9. ASSUME NEW id \in DOMAIN state.certs, NEW fees \in Fees,
             NEW payoffRaw \in RawPayoffs(state.certs[id]), Settle(id, payoffRaw, fees)
      PROVE  TypeOK'
  <2> DEFINE st == SettlementOf(state.certs[id], payoffRaw, fees)
  <2>1. state.certs[id] \in Certificate /\ fees \in Nat
    BY <1>1, StateFields, AmountsAssumption
  <2>2. st \in Settlement
    BY <2>1, RawPayoffType, SettlementType
  <2>3. now' = now /\ state' = [state EXCEPT !.certs[id].status = FinalStatus(st),
                                  !.certs[id].settlement = {st},
                                  !.treasury = @ - st.amount,
                                  !.totalSettled = @ + st.amount]
    BY <1>9 DEF Settle, Commit
  <2> HIDE DEF st
  <2>4. StateTypeOk(state')
    BY <1>1, <2>2, <2>3, SettledKeepsType
  <2>5. QED
    BY <1>1, <2>3, <2>4 DEF TypeOK
<1>10. CASE UNCHANGED vars
  BY <1>1, <1>10 DEF vars, TypeOK
<1>11. QED
  BY <1>2, <1>3, <1>4, <1>5, <1>6, <1>7, <1>8, <1>9, <1>10 DEF Next

\* The records of the ledger keep their types, and every certificate has a
\* quote.
THEOREM LedgerTypeOK == Spec => []TypeOK
BY TypeInit, TypeStep, PTL DEF Spec

-----------------------------------------------------------------------------
(* The sums of a ledger state *)

\* The terms of SumActive and of UnmatchedFloat.
ActiveTerms(s, weight) ==
  [id \in DOMAIN s.quotes |-> IF IsActive(s, id) THEN weight[id] ELSE 0]

FloatTerms(s) ==
  [i \in DOMAIN s.payments |-> IF s.payments[i].matched THEN 0 ELSE s.payments[i].amount]

\* The terms of a sum over the active certificates are the weights of the
\* active ones and 0 for every other quote.
LEMMA ActiveTermsType ==
  ASSUME NEW s, StateTypeOk(s), NEW weight,
         \A id \in DOMAIN s.certs : weight[id] \in Nat
  PROVE  /\ Len(s.quotes) \in Nat /\ DOMAIN s.quotes = 1..Len(s.quotes)
         /\ \A id \in 1..Len(s.quotes) :
              /\ ActiveTerms(s, weight)[id] \in Nat
              /\ ActiveTerms(s, weight)[id] = IF IsActive(s, id) THEN weight[id] ELSE 0
         /\ SumActive(s, weight) = Sum(Len(s.quotes), ActiveTerms(s, weight))
         /\ SumActive(s, weight) \in Nat
<1>1. Len(s.quotes) \in Nat /\ DOMAIN s.quotes = 1..Len(s.quotes)
  BY StateFields
<1>2. \A id \in 1..Len(s.quotes) :
        ActiveTerms(s, weight)[id] = IF IsActive(s, id) THEN weight[id] ELSE 0
  BY <1>1 DEF ActiveTerms
<1>3. \A id \in 1..Len(s.quotes) : ActiveTerms(s, weight)[id] \in Nat
  BY <1>2 DEF IsActive
<1>4. SumActive(s, weight) = Sum(Len(s.quotes), ActiveTerms(s, weight))
  BY DEF SumActive, ActiveTerms
<1>5. Sum(Len(s.quotes), ActiveTerms(s, weight)) \in Nat
  BY <1>1, <1>3, SumNat
<1>6. QED
  BY <1>1, <1>2, <1>3, <1>4, <1>5

\* No certificate changes its activity or weight: the sum stays, also when a
\* quote is added (a quote without a certificate adds nothing).
LEMMA SumActiveSame ==
  ASSUME NEW s, StateTypeOk(s), NEW t, StateTypeOk(t), NEW v, NEW w,
         \A id \in DOMAIN s.certs : v[id] \in Nat,
         \A id \in DOMAIN t.certs : w[id] \in Nat,
         Len(t.quotes) \in {Len(s.quotes), Len(s.quotes) + 1},
         \A id : IsActive(t, id) <=> IsActive(s, id),
         \A id : IsActive(s, id) => w[id] = v[id]
  PROVE  SumActive(t, w) = SumActive(s, v)
<1> DEFINE n == Len(s.quotes)
           f == ActiveTerms(s, v)
           g == ActiveTerms(t, w)
<1>1. n \in Nat /\ DOMAIN s.quotes = 1..n /\ SumActive(s, v) = Sum(n, f)
  BY ActiveTermsType
<1>2. SumActive(t, w) = Sum(Len(t.quotes), g) /\ DOMAIN t.quotes = 1..Len(t.quotes)
  BY ActiveTermsType
<1>3. \A id \in 1..n : f[id] = IF IsActive(s, id) THEN v[id] ELSE 0
  BY ActiveTermsType
<1>4. \A id \in 1..Len(t.quotes) : g[id] = IF IsActive(t, id) THEN w[id] ELSE 0
  BY ActiveTermsType
<1> HIDE DEF f, g
<1>5. \A id \in 1..n : f[id] = g[id]
  BY <1>1, <1>3, <1>4
<1>6. Sum(n, g) = Sum(n, f)
  BY <1>1, <1>5, SumAgree
<1>7. CASE Len(t.quotes) = n
  BY <1>1, <1>2, <1>6, <1>7
<1>8. CASE Len(t.quotes) = n + 1
  <2>1. ~IsActive(s, n + 1)
    BY <1>1, StateFields DEF IsActive
  <2>2. g[n + 1] = 0
    BY <1>1, <1>4, <1>8, <2>1
  <2>3. Sum(n, f) \in Nat
    BY <1>1, ActiveTermsType
  <2>4. QED
    BY <1>1, <1>2, <1>6, <1>8, <2>2, <2>3, SumStep
<1>9. QED
  BY <1>7, <1>8

\* One certificate becomes active: its weight is added.
LEMMA SumActiveMore ==
  ASSUME NEW s, StateTypeOk(s), NEW t, StateTypeOk(t), NEW v, NEW w,
         \A id \in DOMAIN s.certs : v[id] \in Nat,
         \A id \in DOMAIN t.certs : w[id] \in Nat,
         Len(t.quotes) = Len(s.quotes),
         NEW k, ~IsActive(s, k), IsActive(t, k),
         \A id : id # k => (IsActive(t, id) <=> IsActive(s, id)),
         \A id : IsActive(s, id) => w[id] = v[id]
  PROVE  SumActive(t, w) = SumActive(s, v) + w[k]
<1> DEFINE n == Len(s.quotes)
           f == ActiveTerms(s, v)
           g == ActiveTerms(t, w)
<1>1. n \in Nat /\ DOMAIN s.quotes = 1..n /\ SumActive(s, v) = Sum(n, f)
  BY ActiveTermsType
<1>2. SumActive(t, w) = Sum(n, g) /\ DOMAIN t.quotes = 1..n
  BY ActiveTermsType
<1>3. \A id \in 1..n : f[id] \in Int /\ f[id] = IF IsActive(s, id) THEN v[id] ELSE 0
  BY ActiveTermsType
<1>4. \A id \in 1..n : g[id] \in Int /\ g[id] = IF IsActive(t, id) THEN w[id] ELSE 0
  BY ActiveTermsType
<1>5. k \in 1..n
  BY <1>2, StateFields DEF IsActive
<1> HIDE DEF f, g
<1>6. \A id \in 1..n : id # k => g[id] = f[id]
  BY <1>3, <1>4
<1>7. Sum(n, g) = Sum(n, f) - f[k] + g[k]
  BY <1>1, <1>3, <1>4, <1>5, <1>6, SumUpdate, ZenonT(30)
<1>8. f[k] = 0 /\ g[k] = w[k] /\ w[k] \in Int
  BY <1>3, <1>4, <1>5
<1>9. Sum(n, f) \in Int
  BY <1>1, <1>3, SumInt
<1>10. QED
  BY <1>1, <1>2, <1>7, <1>8, <1>9

LEMMA CertificateAmounts ==
  ASSUME NEW s, StateTypeOk(s), NEW id \in DOMAIN s.certs
  PROVE  /\ s.certs[id] \in Certificate
         /\ s.certs[id].capUp \in Nat /\ s.certs[id].capDown \in Nat
         /\ s.certs[id].capDown + s.certs[id].capUp \in Nat
<1>1. s.certs[id] \in Certificate
  BY StateFields
<1>2. s.certs[id].capUp \in Nat /\ s.certs[id].capDown \in Nat
  BY <1>1 DEF Certificate
<1>3. QED
  BY <1>1, <1>2

\* The worst case of the active certificates is their collateral and their
\* exposure together.
LEMMA WorstIsBoth ==
  ASSUME NEW s, StateTypeOk(s)
  PROVE  /\ ActiveCollateral(s) \in Nat /\ ActiveCapDown(s) \in Nat
         /\ WorstObligations(s) = ActiveCollateral(s) + ActiveCapDown(s)
<1> DEFINE up   == [id \in DOMAIN s.certs |-> s.certs[id].capUp]
           down == [id \in DOMAIN s.certs |-> s.certs[id].capDown]
           both == [id \in DOMAIN s.certs |-> s.certs[id].capDown + s.certs[id].capUp]
           n    == Len(s.quotes)
<1>1. \A id \in DOMAIN s.certs :
        /\ up[id] \in Nat /\ down[id] \in Nat /\ both[id] \in Nat
        /\ both[id] = up[id] + down[id]
  BY CertificateAmounts
<1>2. /\ ActiveCollateral(s) = SumActive(s, up)
      /\ ActiveCapDown(s) = SumActive(s, down)
      /\ WorstObligations(s) = SumActive(s, both)
  BY DEF ActiveCollateral, ActiveCapDown, WorstObligations
<1> HIDE DEF up, down, both
<1>3. /\ n \in Nat /\ SumActive(s, up) = Sum(n, ActiveTerms(s, up)) /\ SumActive(s, up) \in Nat
      /\ \A id \in 1..n : ActiveTerms(s, up)[id] = IF IsActive(s, id) THEN up[id] ELSE 0
  BY <1>1, ActiveTermsType
<1>4. /\ SumActive(s, down) = Sum(n, ActiveTerms(s, down)) /\ SumActive(s, down) \in Nat
      /\ \A id \in 1..n : ActiveTerms(s, down)[id] = IF IsActive(s, id) THEN down[id] ELSE 0
  BY <1>1, ActiveTermsType
<1>5. /\ SumActive(s, both) = Sum(n, ActiveTerms(s, both))
      /\ \A id \in 1..n : ActiveTerms(s, both)[id] = IF IsActive(s, id) THEN both[id] ELSE 0
  BY <1>1, ActiveTermsType
<1> DEFINE f == ActiveTerms(s, up)
           g == ActiveTerms(s, down)
           h == ActiveTerms(s, both)
<1>6. ASSUME NEW id \in 1..n
      PROVE  f[id] \in Int /\ g[id] \in Int /\ h[id] = f[id] + g[id]
  <2>1. CASE IsActive(s, id)
    <3>1. id \in DOMAIN s.certs
      BY <2>1 DEF IsActive
    <3>2. f[id] = up[id] /\ g[id] = down[id] /\ h[id] = both[id]
      BY <1>3, <1>4, <1>5, <2>1
    <3>3. QED
      BY <1>1, <3>1, <3>2
  <2>2. CASE ~IsActive(s, id)
    BY <1>3, <1>4, <1>5, <2>2
  <2>3. QED
    BY <2>1, <2>2
<1> HIDE DEF f, g, h
<1>7. Sum(n, h) = Sum(n, f) + Sum(n, g)
  BY <1>3, <1>6, SumPlus, SMTT(30)
<1>8. QED
  BY <1>2, <1>3, <1>4, <1>5, <1>7 DEF f, g, h

\* Operations that touch no certificate's status or terms leave the sums alone.
LEMMA ActiveSumsStay ==
  ASSUME NEW s, StateTypeOk(s), NEW t, StateTypeOk(t),
         Len(t.quotes) \in {Len(s.quotes), Len(s.quotes) + 1},
         DOMAIN t.certs = DOMAIN s.certs,
         \A id \in DOMAIN s.certs :
           /\ t.certs[id].status = s.certs[id].status
           /\ t.certs[id].capUp = s.certs[id].capUp
           /\ t.certs[id].capDown = s.certs[id].capDown
  PROVE  /\ ActiveCollateral(t) = ActiveCollateral(s)
         /\ ActiveCapDown(t) = ActiveCapDown(s)
<1> DEFINE upS   == [id \in DOMAIN s.certs |-> s.certs[id].capUp]
           downS == [id \in DOMAIN s.certs |-> s.certs[id].capDown]
           upT   == [id \in DOMAIN t.certs |-> t.certs[id].capUp]
           downT == [id \in DOMAIN t.certs |-> t.certs[id].capDown]
<1>1. \A id : IsActive(t, id) <=> IsActive(s, id)
  BY DEF IsActive
<1>2. /\ \A id \in DOMAIN s.certs : upS[id] \in Nat
      /\ \A id \in DOMAIN t.certs : upT[id] \in Nat
      /\ \A id : IsActive(s, id) => upT[id] = upS[id]
  BY CertificateAmounts DEF IsActive
<1>3. /\ \A id \in DOMAIN s.certs : downS[id] \in Nat
      /\ \A id \in DOMAIN t.certs : downT[id] \in Nat
      /\ \A id : IsActive(s, id) => downT[id] = downS[id]
  BY CertificateAmounts DEF IsActive
<1>5. /\ ActiveCollateral(s) = SumActive(s, upS) /\ ActiveCollateral(t) = SumActive(t, upT)
      /\ ActiveCapDown(s) = SumActive(s, downS) /\ ActiveCapDown(t) = SumActive(t, downT)
  BY DEF ActiveCollateral, ActiveCapDown
<1> HIDE DEF upS, upT, downS, downT
<1>6. SumActive(t, upT) = SumActive(s, upS)
  BY <1>1, <1>2, SumActiveSame
<1>7. SumActive(t, downT) = SumActive(s, downS)
  BY <1>1, <1>3, SumActiveSame
<1>8. QED
  BY <1>5, <1>6, <1>7

\* A certificate that becomes active adds its caps to the sums.
LEMMA ActiveSumsGrow ==
  ASSUME NEW s, StateTypeOk(s), NEW t, StateTypeOk(t),
         Len(t.quotes) = Len(s.quotes),
         NEW k, ~IsActive(s, k), IsActive(t, k),
         \A id : id # k => (IsActive(t, id) <=> IsActive(s, id)),
         \A id : IsActive(s, id) =>
                   /\ t.certs[id].capUp = s.certs[id].capUp
                   /\ t.certs[id].capDown = s.certs[id].capDown
  PROVE  /\ ActiveCollateral(t) = ActiveCollateral(s) + t.certs[k].capUp
         /\ ActiveCapDown(t) = ActiveCapDown(s) + t.certs[k].capDown
<1> DEFINE upS   == [id \in DOMAIN s.certs |-> s.certs[id].capUp]
           downS == [id \in DOMAIN s.certs |-> s.certs[id].capDown]
           upT   == [id \in DOMAIN t.certs |-> t.certs[id].capUp]
           downT == [id \in DOMAIN t.certs |-> t.certs[id].capDown]
<1>1. \A id \in DOMAIN s.certs : upS[id] \in Nat /\ downS[id] \in Nat
  BY CertificateAmounts
<1>2. \A id \in DOMAIN t.certs : upT[id] \in Nat /\ downT[id] \in Nat
  BY CertificateAmounts
<1>3. \A id : IsActive(s, id) => IsActive(t, id)
  OBVIOUS
<1>4. \A id : IsActive(s, id) => upT[id] = upS[id] /\ downT[id] = downS[id]
  BY <1>3 DEF IsActive
<1>5. upT[k] = t.certs[k].capUp /\ downT[k] = t.certs[k].capDown
  BY DEF IsActive
<1>6. /\ ActiveCollateral(s) = SumActive(s, upS) /\ ActiveCollateral(t) = SumActive(t, upT)
      /\ ActiveCapDown(s) = SumActive(s, downS) /\ ActiveCapDown(t) = SumActive(t, downT)
  BY DEF ActiveCollateral, ActiveCapDown
<1> HIDE DEF upS, upT, downS, downT
<1>7. SumActive(t, upT) = SumActive(s, upS) + upT[k]
  BY <1>1, <1>2, <1>4, SumActiveMore
<1>8. SumActive(t, downT) = SumActive(s, downS) + downT[k]
  BY <1>1, <1>2, <1>4, SumActiveMore
<1>9. QED
  BY <1>5, <1>6, <1>7, <1>8

\* A certificate that stops being active takes its caps out of the sums.
LEMMA ActiveSumsShrink ==
  ASSUME NEW s, StateTypeOk(s), NEW t, StateTypeOk(t),
         Len(t.quotes) = Len(s.quotes),
         NEW k, IsActive(s, k), ~IsActive(t, k),
         \A id : id # k => (IsActive(t, id) <=> IsActive(s, id)),
         \A id : IsActive(t, id) =>
                   /\ t.certs[id].capUp = s.certs[id].capUp
                   /\ t.certs[id].capDown = s.certs[id].capDown
  PROVE  /\ ActiveCollateral(s) = ActiveCollateral(t) + s.certs[k].capUp
         /\ ActiveCapDown(s) = ActiveCapDown(t) + s.certs[k].capDown
<1>1. \A id : id # k => (IsActive(s, id) <=> IsActive(t, id))
  OBVIOUS
<1>2. \A id : IsActive(t, id) => /\ s.certs[id].capUp = t.certs[id].capUp
                                /\ s.certs[id].capDown = t.certs[id].capDown
  OBVIOUS
<1>3. Len(s.quotes) = Len(t.quotes)
  OBVIOUS
<1>4. QED
  BY <1>1, <1>2, <1>3, ActiveSumsGrow

-----------------------------------------------------------------------------
(* The float of unmatched payments *)

LEMMA FloatTermsType ==
  ASSUME NEW s, StateTypeOk(s)
  PROVE  /\ Len(s.payments) \in Nat /\ DOMAIN s.payments = 1..Len(s.payments)
         /\ \A i \in 1..Len(s.payments) :
              /\ s.payments[i].amount \in Nat /\ s.payments[i].matched \in BOOLEAN
              /\ FloatTerms(s)[i] \in Nat
              /\ FloatTerms(s)[i] = IF s.payments[i].matched THEN 0 ELSE s.payments[i].amount
         /\ UnmatchedFloat(s) = Sum(Len(s.payments), FloatTerms(s))
         /\ UnmatchedFloat(s) \in Nat
<1>1. Len(s.payments) \in Nat /\ DOMAIN s.payments = 1..Len(s.payments)
  BY StateFields
<1>2. ASSUME NEW i \in 1..Len(s.payments)
      PROVE  s.payments[i].amount \in Nat /\ s.payments[i].matched \in BOOLEAN
  <2>1. s.payments[i] \in Payment
    BY StateFields
  <2>2. QED
    BY <2>1 DEF Payment
<1>3. \A i \in 1..Len(s.payments) :
        FloatTerms(s)[i] = IF s.payments[i].matched THEN 0 ELSE s.payments[i].amount
  BY <1>1 DEF FloatTerms
<1>4. \A i \in 1..Len(s.payments) : FloatTerms(s)[i] \in Nat
  BY <1>2, <1>3
<1>5. UnmatchedFloat(s) = Sum(Len(s.payments), FloatTerms(s))
  BY DEF UnmatchedFloat, FloatTerms
<1>6. Sum(Len(s.payments), FloatTerms(s)) \in Nat
  BY <1>1, <1>4, SumNat
<1>7. QED
  BY <1>1, <1>2, <1>3, <1>4, <1>5, <1>6

\* A payment received adds its amount.
LEMMA FloatReceives ==
  ASSUME NEW s, StateTypeOk(s), NEW p \in Payment, ~p.matched
  PROVE  UnmatchedFloat(Received(s, p)) = UnmatchedFloat(s) + p.amount
<1> DEFINE t == Received(s, p)
           n == Len(s.payments)
           f == FloatTerms(s)
           g == FloatTerms(t)
<1>1. StateTypeOk(t)
  BY ReceivedKeepsType
<1>2. t.payments = Append(s.payments, p)
  BY StateFields DEF Received, StateTypeOk
<1>3. s.payments \in Seq(Payment)
  BY StateFields
<1> HIDE DEF t
<1>4. /\ n \in Nat /\ Len(t.payments) = n + 1 /\ t.payments[n + 1] = p
      /\ \A i \in 1..n : t.payments[i] = s.payments[i]
  BY <1>2, <1>3
<1>5. /\ UnmatchedFloat(s) = Sum(n, f)
      /\ \A i \in 1..n : f[i] = IF s.payments[i].matched THEN 0 ELSE s.payments[i].amount
  BY FloatTermsType
<1>6. /\ UnmatchedFloat(t) = Sum(n + 1, g)
      /\ \A i \in 1..n + 1 : g[i] = IF t.payments[i].matched THEN 0 ELSE t.payments[i].amount
  BY <1>1, <1>4, FloatTermsType
<1> HIDE DEF f, g
<1>7. \A i \in 1..n : g[i] = f[i]
  BY <1>4, <1>5, <1>6
<1>8. g[n + 1] = p.amount
  BY <1>4, <1>6
<1>9. Sum(n, g) = Sum(n, f)
  BY <1>4, <1>7, SumAgree
<1>10. Sum(n + 1, g) = Sum(n, g) + g[n + 1]
  BY <1>4, SumStep
<1>11. QED
  BY <1>5, <1>6, <1>8, <1>9, <1>10 DEF t

\* Every payment of the ledger has a transaction of its own.
UniqueTx(s) ==
  \A i, j \in DOMAIN s.payments : s.payments[i].tx = s.payments[j].tx => i = j

\* Matching an unmatched payment takes its amount out of the float.
LEMMA FloatMatches ==
  ASSUME NEW s, StateTypeOk(s), UniqueTx(s), NEW t, StateTypeOk(t),
         NEW k \in DOMAIN s.payments, ~s.payments[k].matched,
         t.payments = Matched(s.payments, s.payments[k].tx)
  PROVE  UnmatchedFloat(t) = UnmatchedFloat(s) - s.payments[k].amount
<1> DEFINE n == Len(s.payments)
           f == FloatTerms(s)
           g == FloatTerms(t)
<1>1. /\ UnmatchedFloat(s) = Sum(n, f) /\ n \in Nat /\ DOMAIN s.payments = 1..n
      /\ \A i \in 1..n :
           /\ f[i] \in Int
           /\ f[i] = IF s.payments[i].matched THEN 0 ELSE s.payments[i].amount
  BY FloatTermsType
<1>2. Len(t.payments) = n
  BY MatchedType, StateFields
<1>3. \A i \in 1..n :
        /\ t.payments[i].amount = s.payments[i].amount
        /\ t.payments[i].matched
             = (s.payments[i].matched \/ s.payments[i].tx = s.payments[k].tx)
  BY MatchedType, StateFields
<1>4. /\ UnmatchedFloat(t) = Sum(n, g)
      /\ \A i \in 1..n :
           /\ g[i] \in Int
           /\ g[i] = IF t.payments[i].matched THEN 0 ELSE t.payments[i].amount
  BY <1>2, FloatTermsType
<1> HIDE DEF f, g
<1>5. \A i \in 1..n : i # k => s.payments[i].tx # s.payments[k].tx
  BY <1>1 DEF UniqueTx
<1>6. \A i \in 1..n : f[i] \in Int /\ g[i] \in Int /\ (i # k => g[i] = f[i])
  BY <1>1, <1>3, <1>4, <1>5
<1>7. f[k] = s.payments[k].amount /\ g[k] = 0
  BY <1>1, <1>3, <1>4
<1>8. Sum(n, g) = Sum(n, f) - f[k] + g[k]
  <2>1. k \in 1..n
    BY <1>1
  <2>2. QED
    BY <1>1, <1>6, <2>1, SumUpdate
<1>9. Sum(n, f) \in Int /\ s.payments[k].amount \in Int
  BY <1>1, FloatTermsType
<1>10. QED
  BY <1>1, <1>4, <1>7, <1>8, <1>9

-----------------------------------------------------------------------------
(* What each update does to the accounts *)

SameAccounts(s, t) ==
  /\ NetReserves(t) = NetReserves(s)
  /\ UnmatchedFloat(t) = UnmatchedFloat(s)
  /\ ActiveCollateral(t) = ActiveCollateral(s)
  /\ ActiveCapDown(t) = ActiveCapDown(s)

LEMMA AccountsTypes ==
  ASSUME NEW s, StateTypeOk(s)
  PROVE  /\ s.treasury \in Int /\ UnmatchedFloat(s) \in Nat
         /\ ActiveCollateral(s) \in Nat /\ ActiveCapDown(s) \in Nat
         /\ NetReserves(s) \in Int
         /\ NetReserves(s) = s.treasury - UnmatchedFloat(s) - ActiveCollateral(s)
BY StateFields, WorstIsBoth, FloatTermsType DEF NetReserves

\* Quotes, checkpoints and the pause switch move no money.
LEMMA AccountsStay ==
  ASSUME NEW s, StateTypeOk(s), NEW t, StateTypeOk(t),
         t.treasury = s.treasury, t.payments = s.payments,
         Len(t.quotes) \in {Len(s.quotes), Len(s.quotes) + 1},
         DOMAIN t.certs = DOMAIN s.certs,
         \A id \in DOMAIN s.certs :
           /\ t.certs[id].status = s.certs[id].status
           /\ t.certs[id].capUp = s.certs[id].capUp
           /\ t.certs[id].capDown = s.certs[id].capDown
  PROVE  SameAccounts(s, t)
<1>1. ActiveCollateral(t) = ActiveCollateral(s) /\ ActiveCapDown(t) = ActiveCapDown(s)
  BY ActiveSumsStay
<1>2. UnmatchedFloat(t) = UnmatchedFloat(s)
  BY DEF UnmatchedFloat
<1>3. QED
  BY <1>1, <1>2 DEF SameAccounts, NetReserves

\* A payment received is a deposit.
LEMMA ReceivedIsDeposit ==
  ASSUME NEW s, StateTypeOk(s), NEW p \in Payment, ~p.matched
  PROVE  LET t == Received(s, p)
         IN  /\ UnmatchedFloat(t) = UnmatchedFloat(s) + p.amount
             /\ NetReserves(t) = NetReserves(s)
             /\ ActiveCollateral(t) = ActiveCollateral(s)
             /\ ActiveCapDown(t) = ActiveCapDown(s)
<1> DEFINE t == Received(s, p)
<1>1. StateTypeOk(t)
  BY ReceivedKeepsType
<1>2. UnmatchedFloat(t) = UnmatchedFloat(s) + p.amount
  BY FloatReceives
<1>3. t.quotes = s.quotes /\ t.certs = s.certs /\ t.treasury = s.treasury + p.amount
  BY StateFields DEF Received, StateTypeOk
<1> HIDE DEF t
<1>4. ActiveCollateral(t) = ActiveCollateral(s) /\ ActiveCapDown(t) = ActiveCapDown(s)
  BY <1>1, <1>3, ActiveSumsStay
<1>5. p.amount \in Nat
  BY DEF Payment
<1>6. NetReserves(t) = NetReserves(s)
  BY <1>1, <1>2, <1>3, <1>4, <1>5, AccountsTypes, SMTT(30)
<1>7. QED
  BY <1>2, <1>4, <1>6 DEF t

\* An activation turns the deposit it matches into premium and collateral,
\* and adds the certificate's cap to the exposure.
LEMMA ActivatedIsSale ==
  ASSUME now \in Nat, NEW s, StateTypeOk(s), UniqueTx(s),
         NEW k \in DOMAIN s.payments, NEW p, p = s.payments[k], ~p.matched,
         p.ref \in DOMAIN s.quotes, p.ref \notin DOMAIN s.certs,
         p.amount = TotalPayable(s.quotes[p.ref])
  PROVE  LET t == Activated(s, p)
             q == s.quotes[p.ref]
         IN  /\ t.treasury = s.treasury
             /\ UnmatchedFloat(t) = UnmatchedFloat(s) - p.amount
             /\ NetReserves(t) = NetReserves(s) + q.premium
             /\ ActiveCollateral(t) = ActiveCollateral(s) + q.capUp
             /\ ActiveCapDown(t) = ActiveCapDown(s) + q.capDown
<1> DEFINE t == Activated(s, p)
           q == s.quotes[p.ref]
           id == p.ref
<1>1. StateTypeOk(t)
  BY ActivatedKeepsType, SMTT(30)
<1>2. /\ s.quotes \in Seq(Quote) /\ q \in Quote /\ id \in DOMAIN s.quotes
      /\ q.premium \in Nat /\ q.capUp \in Nat /\ q.capDown \in Nat
  <2>1. s.quotes \in Seq(Quote) /\ q \in Quote
    BY StateFields
  <2>2. QED
    BY <2>1 DEF Quote
<1>3. /\ t.treasury = s.treasury /\ t.payments = Matched(s.payments, p.tx)
      /\ t.quotes = [s.quotes EXCEPT ![id].status = "consumed"]
      /\ t.certs = WithCertificate(s.certs, id, NewCertificate(q))
  BY StateFields DEF Activated, StateTypeOk
<1> HIDE DEF t
<1>4. Len(t.quotes) = Len(s.quotes)
  <2> HIDE DEF id
  <2>1. QED
    BY <1>2, <1>3, ConsumedType
<1>5. /\ DOMAIN t.certs = DOMAIN s.certs \cup {id}
      /\ t.certs[id] = NewCertificate(q)
      /\ \A k2 \in DOMAIN s.certs : t.certs[k2] = s.certs[k2]
  BY <1>3 DEF WithCertificate
<1>6. /\ t.certs[id].status = "active"
      /\ t.certs[id].capUp = q.capUp /\ t.certs[id].capDown = q.capDown
  BY <1>5, SMTT(30) DEF NewCertificate
<1>7. /\ ~IsActive(s, id) /\ IsActive(t, id)
      /\ \A k2 : k2 # id => (IsActive(t, k2) <=> IsActive(s, k2))
      /\ \A k2 : IsActive(s, k2) => /\ t.certs[k2].capUp = s.certs[k2].capUp
                                    /\ t.certs[k2].capDown = s.certs[k2].capDown
  BY <1>5, <1>6 DEF IsActive
<1>8. /\ ActiveCollateral(t) = ActiveCollateral(s) + q.capUp
      /\ ActiveCapDown(t) = ActiveCapDown(s) + q.capDown
  <2> HIDE DEF id
  <2>1. /\ ActiveCollateral(t) = ActiveCollateral(s) + t.certs[id].capUp
        /\ ActiveCapDown(t) = ActiveCapDown(s) + t.certs[id].capDown
    BY <1>1, <1>4, <1>7, ActiveSumsGrow
  <2>2. QED
    BY <1>6, <2>1
<1>9. UnmatchedFloat(t) = UnmatchedFloat(s) - p.amount
  BY <1>1, <1>3, FloatMatches
<1>10. p.amount = q.premium + q.capUp
  BY DEF TotalPayable
<1>11. NetReserves(t) = NetReserves(s) + q.premium
  <2>1. /\ s.treasury \in Int /\ UnmatchedFloat(s) \in Nat
        /\ ActiveCollateral(s) \in Nat /\ NetReserves(s) \in Int
        /\ NetReserves(s) = s.treasury - UnmatchedFloat(s) - ActiveCollateral(s)
    BY AccountsTypes
  <2>2. /\ t.treasury \in Int /\ UnmatchedFloat(t) \in Nat
        /\ ActiveCollateral(t) \in Nat /\ NetReserves(t) \in Int
        /\ NetReserves(t) = t.treasury - UnmatchedFloat(t) - ActiveCollateral(t)
    BY <1>1, AccountsTypes, SMTT(30)
  <2>3. t.treasury = s.treasury /\ q.premium \in Nat /\ q.capUp \in Nat
    BY <1>2, <1>3
  <2>4. UnmatchedFloat(t) = UnmatchedFloat(s) - (q.premium + q.capUp)
    BY <1>9, <1>10
  <2> HIDE DEF q
  <2>5. QED
    BY <2>1, <2>2, <2>3, <2>4, <1>8
<1>12. QED
  BY <1>3, <1>8, <1>9, <1>11 DEF t

\* A refund returns a deposit.
LEMMA RefundIsReturn ==
  ASSUME NEW s, StateTypeOk(s), UniqueTx(s),
         NEW k \in DOMAIN s.payments, ~s.payments[k].matched,
         NEW t, t = [s EXCEPT !.payments = Matched(@, s.payments[k].tx),
                              !.treasury = @ - s.payments[k].amount,
                              !.totalRefunded = @ + s.payments[k].amount]
  PROVE  /\ UnmatchedFloat(t) = UnmatchedFloat(s) - s.payments[k].amount
         /\ NetReserves(t) = NetReserves(s)
         /\ ActiveCollateral(t) = ActiveCollateral(s)
         /\ ActiveCapDown(t) = ActiveCapDown(s)
<1>1. s.payments[k].amount \in Nat
  BY FloatTermsType
<1>2. StateTypeOk(t)
  BY <1>1, RefundKeepsType
<1>3. /\ t.payments = Matched(s.payments, s.payments[k].tx)
      /\ t.treasury = s.treasury - s.payments[k].amount
      /\ t.quotes = s.quotes /\ t.certs = s.certs
  BY StateFields DEF StateTypeOk
<1>4. ActiveCollateral(t) = ActiveCollateral(s) /\ ActiveCapDown(t) = ActiveCapDown(s)
  BY <1>2, <1>3, ActiveSumsStay
<1>5. UnmatchedFloat(t) = UnmatchedFloat(s) - s.payments[k].amount
  BY <1>2, <1>3, FloatMatches, ZenonT(30)
<1>6. NetReserves(t) = NetReserves(s)
  <2>1. /\ s.treasury \in Int /\ UnmatchedFloat(s) \in Nat
        /\ ActiveCollateral(s) \in Nat /\ NetReserves(s) \in Int
        /\ NetReserves(s) = s.treasury - UnmatchedFloat(s) - ActiveCollateral(s)
    BY AccountsTypes
  <2>2. /\ t.treasury \in Int /\ UnmatchedFloat(t) \in Nat
        /\ ActiveCollateral(t) \in Nat /\ NetReserves(t) \in Int
        /\ NetReserves(t) = t.treasury - UnmatchedFloat(t) - ActiveCollateral(t)
    BY <1>2, AccountsTypes
  <2>3. QED
    BY <2>1, <2>2, <1>1, <1>3, <1>4, <1>5
<1>7. QED
  BY <1>4, <1>5, <1>6

\* A certificate that ends releases its collateral and its exposure.
LEMMA EndedIsSettlement ==
  ASSUME NEW s, StateTypeOk(s), NEW t, StateTypeOk(t), NEW id, IsActive(s, id),
         NEW amount \in Nat, t.treasury = s.treasury - amount,
         t.payments = s.payments, t.quotes = s.quotes, DOMAIN t.certs = DOMAIN s.certs,
         t.certs[id].status # "active",
         \A k \in DOMAIN s.certs : k # id => t.certs[k] = s.certs[k]
  PROVE  /\ UnmatchedFloat(t) = UnmatchedFloat(s)
         /\ NetReserves(t) = NetReserves(s) - amount + s.certs[id].capUp
         /\ ActiveCollateral(t) = ActiveCollateral(s) - s.certs[id].capUp
         /\ ActiveCapDown(t) = ActiveCapDown(s) - s.certs[id].capDown
<1>1. s.certs[id].capUp \in Nat /\ s.certs[id].capDown \in Nat
  BY CertificateAmounts DEF IsActive
<1>2. ~IsActive(t, id)
  BY DEF IsActive
<1>3. /\ \A k : k # id => (IsActive(t, k) <=> IsActive(s, k))
      /\ \A k : IsActive(t, k) => /\ t.certs[k].capUp = s.certs[k].capUp
                                  /\ t.certs[k].capDown = s.certs[k].capDown
  BY DEF IsActive
<1>4. /\ ActiveCollateral(s) = ActiveCollateral(t) + s.certs[id].capUp
      /\ ActiveCapDown(s) = ActiveCapDown(t) + s.certs[id].capDown
  <2>1. Len(t.quotes) = Len(s.quotes)
    OBVIOUS
  <2>2. QED
    BY <1>2, <1>3, <2>1, ActiveSumsShrink
<1>5. UnmatchedFloat(t) = UnmatchedFloat(s)
  BY DEF UnmatchedFloat
<1>6. NetReserves(t) = NetReserves(s) - amount + s.certs[id].capUp
  <2>1. /\ s.treasury \in Int /\ UnmatchedFloat(s) \in Nat
        /\ ActiveCollateral(s) \in Nat /\ NetReserves(s) \in Int
        /\ NetReserves(s) = s.treasury - UnmatchedFloat(s) - ActiveCollateral(s)
    BY AccountsTypes
  <2>2. /\ t.treasury \in Int /\ UnmatchedFloat(t) \in Nat
        /\ ActiveCollateral(t) \in Nat /\ NetReserves(t) \in Int
        /\ NetReserves(t) = t.treasury - UnmatchedFloat(t) - ActiveCollateral(t)
    BY AccountsTypes
  <2>3. QED
    BY <2>1, <2>2, <1>1, <1>4, <1>5
<1>7. ActiveCollateral(t) \in Nat /\ ActiveCapDown(t) \in Nat
  BY AccountsTypes
<1>8. QED
  BY <1>1, <1>4, <1>5, <1>6, <1>7

LEMMA SettledIsSettlement ==
  ASSUME NEW s, StateTypeOk(s), NEW id, IsActive(s, id), NEW st \in Settlement
  PROVE  LET t == [s EXCEPT !.certs[id].status = FinalStatus(st),
                            !.certs[id].settlement = {st},
                            !.treasury = @ - st.amount,
                            !.totalSettled = @ + st.amount]
         IN  /\ UnmatchedFloat(t) = UnmatchedFloat(s)
             /\ NetReserves(t) = NetReserves(s) - st.amount + s.certs[id].capUp
             /\ ActiveCollateral(t) = ActiveCollateral(s) - s.certs[id].capUp
             /\ ActiveCapDown(t) = ActiveCapDown(s) - s.certs[id].capDown
<1> DEFINE t == [s EXCEPT !.certs[id].status = FinalStatus(st),
                          !.certs[id].settlement = {st},
                          !.treasury = @ - st.amount,
                          !.totalSettled = @ + st.amount]
<1>1. id \in DOMAIN s.certs
  BY DEF IsActive
<1>2. StateTypeOk(t)
  BY <1>1, SettledKeepsType
<1>3. s.certs[id] \in Certificate
  BY <1>1, CertificateAmounts
<1>4. /\ t.payments = s.payments /\ t.quotes = s.quotes
      /\ t.treasury = s.treasury - st.amount
      /\ DOMAIN t.certs = DOMAIN s.certs
      /\ t.certs[id].status = FinalStatus(st)
      /\ \A k \in DOMAIN s.certs : k # id => t.certs[k] = s.certs[k]
  BY <1>1, <1>3, StateFields DEF StateTypeOk, Certificate
<1>5. FinalStatus(st) # "active"
  BY DEF FinalStatus
<1>6. st.amount \in Nat
  BY DEF Settlement
<1> HIDE DEF t
<1>7. /\ UnmatchedFloat(t) = UnmatchedFloat(s)
      /\ NetReserves(t) = NetReserves(s) - st.amount + s.certs[id].capUp
      /\ ActiveCollateral(t) = ActiveCollateral(s) - s.certs[id].capUp
      /\ ActiveCapDown(t) = ActiveCapDown(s) - s.certs[id].capDown
  BY <1>2, <1>4, <1>5, <1>6, EndedIsSettlement
<1>8. QED
  BY <1>7 DEF t

-----------------------------------------------------------------------------
(* Transactions are credited once *)

LEMMA UniqueTxReceived ==
  ASSUME NEW s, StateTypeOk(s), UniqueTx(s), NEW p \in Payment, ~HasPayment(s, p.tx)
  PROVE  UniqueTx(Received(s, p))
<1> DEFINE t == Received(s, p)
           n == Len(s.payments)
<1>1. t.payments = Append(s.payments, p)
  BY StateFields DEF Received, StateTypeOk
<1>2. s.payments \in Seq(Payment)
  BY StateFields
<1> HIDE DEF t
<1>3. /\ n \in Nat /\ DOMAIN s.payments = 1..n /\ DOMAIN t.payments = 1..n + 1
      /\ t.payments[n + 1] = p /\ \A i \in 1..n : t.payments[i] = s.payments[i]
  BY <1>1, <1>2
<1>4. \A i \in 1..n : s.payments[i].tx # p.tx
  BY <1>3 DEF HasPayment
<1>5. ASSUME NEW i \in DOMAIN t.payments, NEW j \in DOMAIN t.payments,
             t.payments[i].tx = t.payments[j].tx
      PROVE  i = j
  <2>1. \A k \in 1..n + 1 : k \in 1..n \/ k = n + 1
    BY <1>3
  <2>2. QED
    BY <1>3, <1>4, <1>5, <2>1 DEF UniqueTx
<1>6. QED
  BY <1>5 DEF UniqueTx, t

LEMMA UniqueTxMatched ==
  ASSUME NEW s, StateTypeOk(s), UniqueTx(s), NEW tx, NEW t,
         t.payments = Matched(s.payments, tx)
  PROVE  UniqueTx(t)
<1>1. s.payments \in Seq(Payment) /\ t.payments \in Seq(Payment)
  BY StateFields, MatchedType
<1>2. /\ Len(t.payments) = Len(s.payments)
      /\ \A i \in 1..Len(s.payments) : t.payments[i].tx = s.payments[i].tx
  BY <1>1, MatchedType
<1>3. DOMAIN t.payments = 1..Len(s.payments) /\ DOMAIN s.payments = 1..Len(s.payments)
  BY <1>1, <1>2
<1>4. QED
  BY <1>2, <1>3 DEF UniqueTx

-----------------------------------------------------------------------------
(* Every step of the ledger is a step of the accounts or leaves them alone *)

LEMMA SameAccountsStutters ==
  ASSUME SameAccounts(state, state')
  PROVE  UNCHANGED Accounts!accounts
BY DEF SameAccounts, Accounts!accounts

AccountingInv == TypeOK /\ UniqueTx(state)

LEMMA AccountingInit == Init => AccountingInv
BY TypeInit DEF AccountingInv, Init, UniqueTx, OpenedState

LEMMA ObserveAccounts ==
  ASSUME AccountingInv, NEW p \in Transfers, ObservePayment(p)
  PROVE  UniqueTx(state') /\ (Accounts!Deposit \/ Accounts!Sell)
<1> DEFINE r == Received(state, p)
           q == r.quotes[p.ref]
           t == Activated(r, p)
<1>1. now \in Nat /\ StateTypeOk(state) /\ UniqueTx(state)
  BY ConfigAssumption DEF AccountingInv, TypeOK
<1>2. p \in Payment /\ ~p.matched /\ p.amount \in Nat
  <2>1. p \in Payment
    BY <1>1, TransferType
  <2>2. QED
    BY <2>1 DEF Transfers, Payment
<1>3. StateTypeOk(r)
  BY <1>1, <1>2, ReceivedKeepsType
<1>4. UniqueTx(r)
  BY <1>1, <1>2, UniqueTxReceived DEF ObservePayment
<1>5. /\ UnmatchedFloat(r) = UnmatchedFloat(state) + p.amount
      /\ NetReserves(r) = NetReserves(state)
      /\ ActiveCollateral(r) = ActiveCollateral(state)
      /\ ActiveCapDown(r) = ActiveCapDown(state)
  BY <1>1, <1>2, ReceivedIsDeposit
<1>6. UnmatchedFloat(state) \in Nat /\ UnmatchedFloat(r) \in Nat
  BY <1>1, <1>3, AccountsTypes
<1>7. \E k \in DOMAIN r.payments : r.payments[k] = p
  <2>1. r.payments = Append(state.payments, p) /\ state.payments \in Seq(Payment)
    BY <1>1, StateFields DEF Received, StateTypeOk
  <2>2. QED
    BY <2>1
<1>8. state' = r \/ (CanActivate(r, p) /\ state' = t)
  BY DEF ObservePayment
<1> HIDE DEF r
<1>9. CASE state' = r
  <2>1. UnmatchedFloat(r) >= UnmatchedFloat(state)
    BY <1>2, <1>5, <1>6
  <2>2. Accounts!Deposit
    BY <1>5, <1>6, <1>9, <2>1 DEF Accounts!Deposit
  <2>3. QED
    BY <1>4, <1>9, <2>2
<1>10. CASE CanActivate(r, p) /\ state' = t
  <2>1. /\ p.ref \in DOMAIN r.quotes /\ p.ref \notin DOMAIN r.certs
        /\ p.amount = TotalPayable(q) /\ HasHeadroom(r, q.capDown)
    BY <1>10 DEF CanActivate
  <2>2. /\ UnmatchedFloat(t) = UnmatchedFloat(r) - p.amount
        /\ NetReserves(t) = NetReserves(r) + q.premium
        /\ ActiveCollateral(t) = ActiveCollateral(r) + q.capUp
        /\ ActiveCapDown(t) = ActiveCapDown(r) + q.capDown
    BY <1>1, <1>2, <1>3, <1>4, <1>7, <2>1, ActivatedIsSale
  <2>3. q.premium \in Nat /\ q.capUp \in Nat /\ q.capDown \in Nat
    <3>1. q \in Quote
      BY <1>3, <2>1, StateFields
    <3>2. QED
      BY <3>1 DEF Quote
  <2>4. StateTypeOk(t)
    BY <1>1, <1>3, <2>1, ActivatedKeepsType
  <2>5. UniqueTx(t)
    <3>1. t.payments = Matched(r.payments, p.tx)
      BY <1>3, StateFields DEF Activated, StateTypeOk
    <3>2. QED
      BY <1>3, <1>4, <3>1, UniqueTxMatched
  <2> HIDE DEF t, q
  <2>6. /\ NetReserves(t) \in Int /\ ActiveCollateral(t) \in Nat /\ ActiveCapDown(t) \in Nat
        /\ NetReserves(r) \in Int /\ ActiveCollateral(r) \in Nat /\ ActiveCapDown(r) \in Nat
    BY <1>3, <2>4, AccountsTypes
  <2>7. /\ NetReserves(t) >= NetReserves(r) /\ ActiveCollateral(t) >= ActiveCollateral(r)
        /\ ActiveCapDown(t) >= ActiveCapDown(r)
    BY <2>2, <2>3, <2>6
  <2>8. UnmatchedFloat(t) = UnmatchedFloat(state)
    BY <1>2, <1>5, <1>6, <2>2
  <2>9. ActiveCapDown(t) * FullBps <= NetReserves(state) * UMaxBps
    BY <1>5, <2>1, <2>2, Zenon DEF HasHeadroom
  <2>10. ActiveCapDown(t) * Accounts!FullBps <= NetReserves(state) * UMaxBps
    BY <2>9 DEF FullBps, Accounts!FullBps
  <2>11. Accounts!Sell
    BY <1>5, <1>10, <2>6, <2>7, <2>8, <2>10, Zenon DEF Accounts!Sell
  <2>12. QED
    BY <1>10, <2>5, <2>11
<1>11. QED
  BY <1>8, <1>9, <1>10

LEMMA RefundAccounts ==
  ASSUME AccountingInv, NEW i \in DOMAIN state.payments, RefundPayment(i)
  PROVE  UniqueTx(state') /\ Accounts!Return
<1> DEFINE p == state.payments[i]
           t == [state EXCEPT !.payments = Matched(@, p.tx),
                              !.treasury = @ - p.amount,
                              !.totalRefunded = @ + p.amount]
<1>1. StateTypeOk(state) /\ UniqueTx(state)
  BY DEF AccountingInv, TypeOK
<1>2. state' = t /\ ~p.matched
  BY DEF RefundPayment, Commit
<1>3. /\ UnmatchedFloat(t) = UnmatchedFloat(state) - p.amount
      /\ NetReserves(t) = NetReserves(state)
      /\ ActiveCollateral(t) = ActiveCollateral(state)
      /\ ActiveCapDown(t) = ActiveCapDown(state)
  BY <1>1, <1>2, RefundIsReturn
<1>4. p.amount \in Nat
  BY <1>1, FloatTermsType
<1>5. StateTypeOk(t)
  BY <1>1, <1>4, RefundKeepsType
<1>6. t.payments = Matched(state.payments, p.tx)
  BY <1>1, StateFields DEF StateTypeOk
<1>7. UniqueTx(t)
  BY <1>1, <1>6, UniqueTxMatched
<1> HIDE DEF t, p
<1>8. UnmatchedFloat(t) \in Nat /\ UnmatchedFloat(state) \in Nat
  BY <1>1, <1>5, AccountsTypes
<1>9. UnmatchedFloat(t) \in 0..UnmatchedFloat(state)
  BY <1>3, <1>4, <1>8
<1>10. Accounts!Return
  BY <1>2, <1>3, <1>9, Zenon DEF Accounts!Return
<1>11. QED
  BY <1>2, <1>7, <1>10

LEMMA SettleAccounts ==
  ASSUME AccountingInv, NEW id \in DOMAIN state.certs, NEW fees \in Fees,
         NEW payoffRaw \in RawPayoffs(state.certs[id]), Settle(id, payoffRaw, fees)
  PROVE  UniqueTx(state') /\ Accounts!SettleOne
<1> DEFINE c  == state.certs[id]
           st == SettlementOf(c, payoffRaw, fees)
           t  == [state EXCEPT !.certs[id].status = FinalStatus(st),
                               !.certs[id].settlement = {st},
                               !.treasury = @ - st.amount,
                               !.totalSettled = @ + st.amount]
<1>1. StateTypeOk(state) /\ UniqueTx(state)
  BY DEF AccountingInv, TypeOK
<1>2. state' = t /\ IsActive(state, id)
  BY DEF Settle, Commit, IsDue
<1>3. c \in Certificate /\ c.capUp \in Nat /\ c.capDown \in Nat
  BY <1>1, CertificateAmounts
<1>4. st \in Settlement /\ st.amount \in 0..(c.capUp + c.capDown)
  <2>1. fees \in Nat /\ payoffRaw \in Int
    BY <1>3, RawPayoffType, AmountsAssumption
  <2> HIDE DEF c
  <2>2. st \in Settlement /\ st.amount \in 0..(c.capUp + c.capDown)
    BY <1>3, <2>1, SettlementType, SMTT(30)
  <2>3. QED
    BY <2>2
<1> HIDE DEF st
<1>5. /\ UnmatchedFloat(t) = UnmatchedFloat(state)
      /\ NetReserves(t) = NetReserves(state) - st.amount + c.capUp
      /\ ActiveCollateral(t) = ActiveCollateral(state) - c.capUp
      /\ ActiveCapDown(t) = ActiveCapDown(state) - c.capDown
  BY <1>1, <1>2, <1>4, SettledIsSettlement
<1>6. StateTypeOk(t) /\ t.payments = state.payments
  <2>1. t.payments = state.payments
    BY <1>1, StateFields DEF StateTypeOk
  <2>2. QED
    BY <1>1, <1>4, <2>1, SettledKeepsType
<1>7. UniqueTx(t)
  BY <1>1, <1>6 DEF UniqueTx
<1> HIDE DEF t, c
<1>8. /\ NetReserves(t) \in Int /\ ActiveCollateral(t) \in Nat /\ ActiveCapDown(t) \in Nat
      /\ NetReserves(state) \in Int /\ ActiveCollateral(state) \in Nat
      /\ ActiveCapDown(state) \in Nat
  BY <1>1, <1>6, AccountsTypes
<1>9. /\ ActiveCollateral(t) \in 0..ActiveCollateral(state)
      /\ ActiveCapDown(t) \in 0..ActiveCapDown(state)
      /\ NetReserves(state) - NetReserves(t) + (ActiveCollateral(state) - ActiveCollateral(t))
           \in 0..((ActiveCollateral(state) - ActiveCollateral(t))
                     + (ActiveCapDown(state) - ActiveCapDown(t)))
  BY <1>3, <1>4, <1>5, <1>8
<1>10. Accounts!SettleOne
  BY <1>2, <1>5, <1>8, <1>9, Zenon DEF Accounts!SettleOne
<1>11. QED
  BY <1>2, <1>7, <1>10

LEMMA AccountingStep ==
  ASSUME AccountingInv, [Next]_vars
  PROVE  AccountingInv' /\ [Accounts!Next]_(Accounts!accounts)
<1> DEFINE UniqueNext == UniqueTx(state')
           StepNext   == [Accounts!Next]_(Accounts!accounts)
<1>1. TypeOK'
  BY TypeStep DEF AccountingInv
<1>2. StateTypeOk(state) /\ StateTypeOk(state') /\ UniqueTx(state)
  BY <1>1 DEF AccountingInv, TypeOK
<1>3. ASSUME state'.treasury = state.treasury, state'.payments = state.payments,
             Len(state'.quotes) \in {Len(state.quotes), Len(state.quotes) + 1},
             DOMAIN state'.certs = DOMAIN state.certs,
             \A id \in DOMAIN state.certs :
               /\ state'.certs[id].status = state.certs[id].status
               /\ state'.certs[id].capUp = state.certs[id].capUp
               /\ state'.certs[id].capDown = state.certs[id].capDown
      PROVE  UniqueNext /\ StepNext
  <2>1. SameAccounts(state, state')
    BY <1>2, <1>3, AccountsStay
  <2>2. UniqueTx(state')
    BY <1>2, <1>3 DEF UniqueTx
  <2>3. QED
    BY <2>1, <2>2, SameAccountsStutters
<1>4. ASSUME UNCHANGED state PROVE UniqueNext /\ StepNext
  BY <1>2, <1>3, <1>4
<1>5. ASSUME NEW paused \in BOOLEAN, SetPaused(paused) PROVE UniqueNext /\ StepNext
  <2>1. state' = [state EXCEPT !.paused = paused]
    BY <1>5 DEF SetPaused, Commit
  <2>2. /\ state'.treasury = state.treasury /\ state'.payments = state.payments
        /\ state'.quotes = state.quotes /\ state'.certs = state.certs
    BY <1>2, <2>1, StateFields DEF StateTypeOk
  <2>3. QED
    BY <1>3, <2>2
<1>6. ASSUME NEW m \in Mints, NEW w \in Wallets, NEW terms \in Terms,
             NEW regimeUpdatedAt \in 0..now, IssueQuote(m, w, terms, regimeUpdatedAt)
      PROVE  UniqueNext /\ StepNext
  <2>1. PICK quote : state' = [state EXCEPT !.quotes = Append(@, quote)]
    BY <1>6 DEF IssueQuote, Commit
  <2>2. /\ state'.treasury = state.treasury /\ state'.payments = state.payments
        /\ state'.quotes = Append(state.quotes, quote) /\ state'.certs = state.certs
    BY <1>2, <2>1, StateFields DEF StateTypeOk
  <2>3. Len(state'.quotes) = Len(state.quotes) + 1
    BY <1>2, <2>2, StateFields
  <2>4. QED
    BY <1>3, <2>2, <2>3
<1>7. ASSUME NEW id \in DOMAIN state.certs, NEW checkpoint \in Checkpoints,
             RecordFeeCheckpoint(id, checkpoint)
      PROVE  UniqueNext /\ StepNext
  <2>1. state' = [state EXCEPT !.certs[id].feeCheckpoint = {checkpoint}]
    BY <1>7 DEF RecordFeeCheckpoint, Commit
  <2>2. state.certs[id] \in Certificate
    BY <1>2, CertificateAmounts
  <2>3. /\ state'.treasury = state.treasury /\ state'.payments = state.payments
        /\ state'.quotes = state.quotes /\ DOMAIN state'.certs = DOMAIN state.certs
        /\ \A k \in DOMAIN state.certs :
             state'.certs[k] = IF k = id
                               THEN [state.certs[id] EXCEPT !.feeCheckpoint = {checkpoint}]
                               ELSE state.certs[k]
    BY <1>2, <2>1, StateFields DEF StateTypeOk
  <2>4. \A k \in DOMAIN state.certs :
          /\ state'.certs[k].status = state.certs[k].status
          /\ state'.certs[k].capUp = state.certs[k].capUp
          /\ state'.certs[k].capDown = state.certs[k].capDown
    BY <2>2, <2>3 DEF Certificate
  <2>5. QED
    BY <1>3, <2>3, <2>4
<1>8. ASSUME LapseExpiredQuotes PROVE UniqueNext /\ StepNext
  <2>1. state' = [state EXCEPT !.quotes = Lapsed(@, ExpiredOpenQuotes)]
    BY <1>8 DEF LapseExpiredQuotes, Commit
  <2>2. /\ state'.treasury = state.treasury /\ state'.payments = state.payments
        /\ state'.quotes = Lapsed(state.quotes, ExpiredOpenQuotes)
        /\ state'.certs = state.certs
    BY <1>2, <2>1, StateFields DEF StateTypeOk
  <2>3. Len(state'.quotes) = Len(state.quotes)
    BY <1>2, <2>2, StateFields, LapsedType
  <2>4. QED
    BY <1>3, <2>2, <2>3
<1>9. ASSUME NEW p \in Transfers, ObservePayment(p) PROVE UniqueNext /\ StepNext
  BY <1>9, ObserveAccounts DEF Accounts!Next
<1>10. ASSUME NEW i \in DOMAIN state.payments, RefundPayment(i) PROVE UniqueNext /\ StepNext
  BY <1>10, RefundAccounts DEF Accounts!Next
<1>11. ASSUME NEW id \in DOMAIN state.certs, NEW fees \in Fees,
              NEW payoffRaw \in RawPayoffs(state.certs[id]), Settle(id, payoffRaw, fees)
       PROVE  UniqueNext /\ StepNext
  BY <1>11, SettleAccounts DEF Accounts!Next
<1>12. UniqueNext /\ StepNext
  <2> HIDE DEF UniqueNext, StepNext
  <2>1. CASE Tick
    BY <1>4, <2>1 DEF Tick
  <2>2. CASE UNCHANGED vars
    BY <1>4, <2>2 DEF vars
  <2>3. QED
    BY <1>5, <1>6, <1>7, <1>8, <1>9, <1>10, <1>11, <2>1, <2>2 DEF Next
<1>13. QED
  BY <1>1, <1>12 DEF AccountingInv

LEMMA AccountsInit == Init => Accounts!Init
<1> SUFFICES ASSUME Init PROVE Accounts!Init
  OBVIOUS
<1>1. state = OpenedState /\ AccountingInv
  BY AccountingInit DEF Init
<1>2. state.payments = <<>> /\ state.quotes = <<>> /\ state.treasury = InitialReserves
  BY <1>1 DEF OpenedState
<1>3. UnmatchedFloat(state) = 0
  BY <1>2, SumZero DEF UnmatchedFloat
<1>4. ActiveCollateral(state) = 0 /\ ActiveCapDown(state) = 0
  BY <1>2, SumZero DEF ActiveCollateral, ActiveCapDown, SumActive
<1>5. NetReserves(state) = InitialReserves
  BY <1>2, <1>3, <1>4, AmountsAssumption DEF NetReserves
<1>6. QED
  BY <1>3, <1>4, <1>5 DEF Accounts!Init

\* The ledger implements ReserveAccounting: a payment is a deposit, a refund
\* its return, an activation a sale, a settlement a settlement, and nothing
\* else the ledger does moves money.
THEOREM LedgerImplementsAccounting == Spec => ImplementsReserveAccounting
<1>1. Init => AccountingInv /\ Accounts!Init
  BY AccountingInit, AccountsInit
<1>2. AccountingInv /\ [Next]_vars
        => AccountingInv' /\ [Accounts!Next]_(Accounts!accounts)
  BY AccountingStep
<1>3. QED
  BY <1>1, <1>2, PTL DEF Spec, ImplementsReserveAccounting, Accounts!Spec

-----------------------------------------------------------------------------
(* Solvency of the ledger, from solvency of the accounts *)

AccountsProofs ==
  INSTANCE ReserveAccountingProofs WITH
    reserves   <- NetReserves(state),
    exposure   <- ActiveCapDown(state),
    deposits   <- UnmatchedFloat(state),
    collateral <- ActiveCollateral(state)

LEMMA AccountsConstants == AccountsProofs!ReservesConstants
BY AmountsAssumption, ConfigAssumption
   DEF AccountsProofs!ReservesConstants, AccountsProofs!FullBps, FullBps

LEMMA AccountsAreAccounts == Accounts!Spec => AccountsProofs!Spec
BY DEF Accounts!Spec, AccountsProofs!Spec, Accounts!Init, AccountsProofs!Init,
         Accounts!Next, AccountsProofs!Next, Accounts!accounts, AccountsProofs!accounts,
         Accounts!Deposit, AccountsProofs!Deposit, Accounts!Return, AccountsProofs!Return,
         Accounts!Sell, AccountsProofs!Sell, Accounts!SettleOne, AccountsProofs!SettleOne,
         Accounts!FullBps, AccountsProofs!FullBps

LEMMA SolventAccountsAreSolvent ==
  ASSUME StateTypeOk(state), AccountsProofs!Solvent
  PROVE  SolventState(state)
<1>1. /\ state.treasury \in Int /\ UnmatchedFloat(state) \in Nat
      /\ ActiveCollateral(state) \in Nat /\ ActiveCapDown(state) \in Nat
      /\ NetReserves(state) = state.treasury - UnmatchedFloat(state) - ActiveCollateral(state)
  BY AccountsTypes
<1>2. WorstObligations(state) = ActiveCollateral(state) + ActiveCapDown(state)
  BY WorstIsBoth
<1>3. NetReserves(state) + UnmatchedFloat(state) + ActiveCollateral(state)
        >= UnmatchedFloat(state) + ActiveCollateral(state) + ActiveCapDown(state)
  BY DEF AccountsProofs!Solvent
<1>4. QED
  BY <1>1, <1>2, <1>3 DEF SolventState

\* I1 always holds: in every reachable state the treasury covers the payments
\* not yet decided on, the collateral it holds and the worst case of every
\* active certificate at once.
THEOREM LedgerSolvent == Spec => []SolventState(state)
<1>1. AccountsProofs!ReservesConstants => (AccountsProofs!Spec => []AccountsProofs!Solvent)
  BY AccountsProofs!ReservesSolvent
<1>2. AccountsProofs!Spec => []AccountsProofs!Solvent
  BY <1>1, AccountsConstants
<1>3. TypeOK /\ AccountsProofs!Solvent => SolventState(state)
  BY SolventAccountsAreSolvent DEF TypeOK
<1>4. QED
  BY <1>2, <1>3, AccountsAreAccounts, LedgerImplementsAccounting, LedgerTypeOK, PTL
     DEF ImplementsReserveAccounting
=============================================================================
