----------------------- MODULE LedgerIntegrityProofs -----------------------
(***************************************************************************)
(* What the certificate ledger keeps in every reachable state, for all     *)
(* constants: the monitors I1..I4 of invariants.ts, the state a restart    *)
(* reproduces, one certificate per position, settlements that are covered, *)
(* the cap per buyer, an account of every inflow, and decisions that stay. *)
(***************************************************************************)
EXTENDS CertificateLedgerProofs

-----------------------------------------------------------------------------
(* I2: certificates are backed *)

Backed(s, id) ==
  /\ id \in DOMAIN s.quotes
  /\ s.quotes[id].status = "consumed"
  /\ \E i \in DOMAIN s.payments :
       /\ s.payments[i].ref = id
       /\ s.payments[i].matched
       /\ s.payments[i].amount = TotalPayable(s.quotes[id])

\* From s to t, nothing that backs a certificate is lost.
Keeps(s, t) ==
  /\ \A i \in DOMAIN s.payments :
       /\ i \in DOMAIN t.payments
       /\ t.payments[i].ref = s.payments[i].ref
       /\ t.payments[i].amount = s.payments[i].amount
       /\ s.payments[i].matched => t.payments[i].matched
  /\ \A id \in DOMAIN s.quotes :
       /\ id \in DOMAIN t.quotes
       /\ TotalPayable(t.quotes[id]) = TotalPayable(s.quotes[id])
       /\ s.quotes[id].status = "consumed" => t.quotes[id].status = "consumed"

LEMMA BackedIsBacked ==
  ASSUME NEW s
  PROVE  BackedState(s) <=> \A id \in DOMAIN s.certs : Backed(s, id)
BY DEF BackedState, Backed

LEMMA KeepsBacked ==
  ASSUME NEW s, NEW t, Keeps(s, t), BackedState(s),
         \A id \in DOMAIN t.certs : id \in DOMAIN s.certs \/ Backed(t, id)
  PROVE  BackedState(t)
<1> SUFFICES ASSUME NEW id \in DOMAIN t.certs, id \in DOMAIN s.certs PROVE Backed(t, id)
  BY BackedIsBacked
<1>1. /\ id \in DOMAIN s.quotes
      /\ s.quotes[id].status = "consumed"
  BY BackedIsBacked DEF Backed
<1>2. PICK i \in DOMAIN s.payments : /\ s.payments[i].ref = id
                                     /\ s.payments[i].matched
                                     /\ s.payments[i].amount = TotalPayable(s.quotes[id])
  BY BackedIsBacked DEF Backed
<1>3. /\ i \in DOMAIN t.payments
      /\ t.payments[i].ref = id /\ t.payments[i].matched
      /\ t.payments[i].amount = TotalPayable(s.quotes[id])
  BY <1>2 DEF Keeps
<1>4. /\ id \in DOMAIN t.quotes
      /\ t.quotes[id].status = "consumed"
      /\ TotalPayable(t.quotes[id]) = TotalPayable(s.quotes[id])
  BY <1>1 DEF Keeps
<1>5. QED
  BY <1>3, <1>4, Zenon DEF Backed

LEMMA PaymentsKeep ==
  ASSUME NEW s, StateTypeOk(s), NEW t, t.quotes = s.quotes, NEW tx,
         t.payments = s.payments \/ t.payments = Matched(s.payments, tx)
  PROVE  Keeps(s, t)
<1>1. CASE t.payments = s.payments
  BY <1>1 DEF Keeps
<1>2. CASE t.payments = Matched(s.payments, tx)
  <2>1. s.payments \in Seq(Payment)
    BY StateFields
  <2>2. /\ DOMAIN s.payments = 1..Len(s.payments)
        /\ t.payments \in Seq(Payment) /\ Len(t.payments) = Len(s.payments)
        /\ \A i \in 1..Len(s.payments) :
             /\ t.payments[i].amount = s.payments[i].amount
             /\ t.payments[i].ref = s.payments[i].ref
             /\ t.payments[i].matched = (s.payments[i].matched \/ s.payments[i].tx = tx)
    BY <1>2, <2>1, MatchedType
  <2>3. DOMAIN t.payments = 1..Len(s.payments)
    BY <2>2
  <2>4. QED
    BY <2>2, <2>3 DEF Keeps
<1>3. QED
  BY <1>1, <1>2

LEMMA ReceivedKeeps ==
  ASSUME NEW s, StateTypeOk(s), NEW p
  PROVE  Keeps(s, Received(s, p))
<1> DEFINE t == Received(s, p)
<1>1. t.quotes = s.quotes /\ t.payments = Append(s.payments, p)
  BY StateFields DEF Received, StateTypeOk
<1>2. s.payments \in Seq(Payment)
  BY StateFields
<1> HIDE DEF t
<1>3. \A i \in DOMAIN s.payments : i \in DOMAIN t.payments /\ t.payments[i] = s.payments[i]
  BY <1>1, <1>2
<1>4. Keeps(s, t)
  BY <1>1, <1>3 DEF Keeps
<1>5. QED
  BY <1>4 DEF t

LEMMA AppendQuoteKeeps ==
  ASSUME NEW s, StateTypeOk(s), NEW quote, NEW t,
         t.quotes = Append(s.quotes, quote), t.payments = s.payments
  PROVE  Keeps(s, t)
<1>1. s.quotes \in Seq(Quote)
  BY StateFields
<1>2. \A id \in DOMAIN s.quotes : id \in DOMAIN t.quotes /\ t.quotes[id] = s.quotes[id]
  BY <1>1
<1>3. QED
  BY <1>2 DEF Keeps

LEMMA LapsedKeeps ==
  ASSUME NEW s, StateTypeOk(s), NEW ids, NEW t,
         \A id \in ids : s.quotes[id].status # "consumed",
         t.quotes = Lapsed(s.quotes, ids), t.payments = s.payments
  PROVE  Keeps(s, t)
<1>1. ASSUME NEW id \in DOMAIN s.quotes
      PROVE  /\ id \in DOMAIN t.quotes
             /\ TotalPayable(t.quotes[id]) = TotalPayable(s.quotes[id])
             /\ s.quotes[id].status = "consumed" => t.quotes[id].status = "consumed"
  <2>1. s.quotes[id] \in Quote
    BY StateFields
  <2>2. t.quotes[id] = IF id \in ids THEN [s.quotes[id] EXCEPT !.status = "lapsed"]
                       ELSE s.quotes[id]
    BY DEF Lapsed
  <2>3. t.quotes[id].premium = s.quotes[id].premium /\ t.quotes[id].capUp = s.quotes[id].capUp
    BY <2>1, <2>2 DEF Quote
  <2>4. id \in DOMAIN t.quotes
    BY DEF Lapsed
  <2>5. QED
    BY <2>2, <2>3, <2>4 DEF TotalPayable
<1>2. QED
  BY <1>1 DEF Keeps

LEMMA ActivatedFields ==
  ASSUME NEW s, StateTypeOk(s), NEW p
  PROVE  LET t == Activated(s, p)
         IN  /\ t.paused = s.paused /\ t.treasury = s.treasury /\ t.totalIn = s.totalIn
             /\ t.totalSettled = s.totalSettled /\ t.totalRefunded = s.totalRefunded
             /\ t.payments = Matched(s.payments, p.tx)
             /\ t.quotes = [s.quotes EXCEPT ![p.ref].status = "consumed"]
             /\ t.certs = WithCertificate(s.certs, p.ref, NewCertificate(s.quotes[p.ref]))
BY DEF Activated, StateTypeOk

LEMMA ActivatedBacked ==
  ASSUME NEW s, StateTypeOk(s), BackedState(s),
         NEW k \in DOMAIN s.payments, NEW p, p = s.payments[k],
         p.ref \in DOMAIN s.quotes, p.amount = TotalPayable(s.quotes[p.ref])
  PROVE  BackedState(Activated(s, p))
<1> DEFINE t == Activated(s, p)
           id == p.ref
<1>1. /\ t.payments = Matched(s.payments, p.tx)
      /\ t.quotes = [s.quotes EXCEPT ![id].status = "consumed"]
      /\ t.certs = WithCertificate(s.certs, id, NewCertificate(s.quotes[id]))
  BY ActivatedFields
<1> HIDE DEF t
<1>2. /\ s.payments \in Seq(Payment) /\ DOMAIN s.payments = 1..Len(s.payments)
      /\ s.quotes \in Seq(Quote) /\ DOMAIN s.quotes = 1..Len(s.quotes)
  BY StateFields, SMTT(30)
<1>3. /\ t.payments \in Seq(Payment) /\ Len(t.payments) = Len(s.payments)
      /\ \A i \in 1..Len(s.payments) :
           /\ t.payments[i].amount = s.payments[i].amount
           /\ t.payments[i].ref = s.payments[i].ref
           /\ t.payments[i].matched = (s.payments[i].matched \/ s.payments[i].tx = p.tx)
  <2>1. /\ Matched(s.payments, p.tx) \in Seq(Payment)
        /\ Len(Matched(s.payments, p.tx)) = Len(s.payments)
        /\ \A i \in 1..Len(s.payments) :
             /\ Matched(s.payments, p.tx)[i].amount = s.payments[i].amount
             /\ Matched(s.payments, p.tx)[i].tx = s.payments[i].tx
             /\ Matched(s.payments, p.tx)[i].ref = s.payments[i].ref
             /\ Matched(s.payments, p.tx)[i].matched
                  = (s.payments[i].matched \/ s.payments[i].tx = p.tx)
    BY ONLY <1>2, MatchedType, SMTT(30)
  <2>2. t.payments = Matched(s.payments, p.tx)
    BY <1>1
  <2>3. QED
    BY ONLY <2>1, <2>2, ZenonT(30)
<1>4. DOMAIN t.payments = DOMAIN s.payments
  BY <1>2, <1>3
<1>5. DOMAIN t.quotes = DOMAIN s.quotes
  BY <1>1
<1>6. ASSUME NEW q \in DOMAIN s.quotes
      PROVE  /\ TotalPayable(t.quotes[q]) = TotalPayable(s.quotes[q])
             /\ s.quotes[q].status = "consumed" => t.quotes[q].status = "consumed"
             /\ q = id => t.quotes[q].status = "consumed"
  <2>1. s.quotes[q] \in Quote
    BY <1>2, SMTT(30)
  <2>2. t.quotes[q] = IF q = id THEN [s.quotes[q] EXCEPT !.status = "consumed"]
                      ELSE s.quotes[q]
    BY <1>1
  <2>3. /\ t.quotes[q].premium = s.quotes[q].premium /\ t.quotes[q].capUp = s.quotes[q].capUp
        /\ q = id => t.quotes[q].status = "consumed"
    BY <2>1, <2>2 DEF Quote
  <2>4. QED
    BY <2>2, <2>3 DEF TotalPayable
<1>7. Keeps(s, t)
  BY <1>2, <1>3, <1>4, <1>5, <1>6 DEF Keeps
<1>8. Backed(t, id)
  <2>1. /\ k \in DOMAIN t.payments /\ t.payments[k].ref = id /\ t.payments[k].matched
        /\ t.payments[k].amount = TotalPayable(s.quotes[id])
    BY <1>2, <1>3, <1>4
  <2>2. id \in DOMAIN t.quotes /\ t.quotes[id].status = "consumed"
        /\ TotalPayable(t.quotes[id]) = TotalPayable(s.quotes[id])
    BY <1>5, <1>6
  <2>3. QED
    BY <2>1, <2>2, Zenon DEF Backed
<1>9. \A q \in DOMAIN t.certs : q \in DOMAIN s.certs \/ Backed(t, q)
  BY <1>1, <1>8 DEF WithCertificate
<1>10. BackedState(t)
  BY <1>7, <1>9, KeepsBacked
<1>11. QED
  BY <1>10 DEF t

-----------------------------------------------------------------------------
(* I4: settlements are bounded *)

SettlementsBounded(s) ==
  \A id \in DOMAIN s.certs : \A st \in s.certs[id].settlement :
    LET c == s.certs[id]
    IN  /\ st.amount \in 0..(c.capDown + c.capUp)
        /\ st.payoff \in -c.capUp..c.capDown
        /\ st.amount = MaxOf(0, st.payoff - st.feeSplit + c.capUp)

LEMMA SettlementsStayBounded ==
  ASSUME NEW s, SettlementsBounded(s), NEW t, DOMAIN t.certs = DOMAIN s.certs,
         \A id \in DOMAIN s.certs :
           /\ t.certs[id].capUp = s.certs[id].capUp
           /\ t.certs[id].capDown = s.certs[id].capDown
           /\ t.certs[id].settlement = s.certs[id].settlement
  PROVE  SettlementsBounded(t)
BY DEF SettlementsBounded

LEMMA SettlementFormula ==
  ASSUME NEW c \in Certificate, NEW payoffRaw \in Int, NEW fees \in Nat,
         NEW st, st = SettlementOf(c, payoffRaw, fees)
  PROVE  /\ st.amount \in 0..(c.capDown + c.capUp)
         /\ st.payoff \in -c.capUp..c.capDown
         /\ st.amount = MaxOf(0, st.payoff - st.feeSplit + c.capUp)
<1>1. c.capUp \in Nat /\ c.capDown \in Nat
  BY DEF Certificate
<1>2. st.amount \in 0..(c.capUp + c.capDown) /\ st.payoff \in (-c.capUp)..c.capDown
  BY SettlementType
<1>3. st.amount = MaxOf(0, st.payoff - st.feeSplit + c.capUp)
  BY DEF SettlementOf
<1>4. QED
  BY <1>1, <1>2, <1>3

-----------------------------------------------------------------------------
(* I3: conservation, one lemma per movement of money *)

LEMMA ConservedIn ==
  ASSUME NEW s, StateTypeOk(s), ConservedState(s), NEW t, NEW amount \in Nat,
         t.treasury = s.treasury + amount, t.totalIn = s.totalIn + amount,
         t.totalSettled = s.totalSettled, t.totalRefunded = s.totalRefunded
  PROVE  ConservedState(t)
BY StateFields, AmountsAssumption, SMTT(30) DEF ConservedState

LEMMA ConservedOut ==
  ASSUME NEW s, StateTypeOk(s), ConservedState(s), NEW t,
         NEW settled \in Nat, NEW refunded \in Nat,
         t.treasury = s.treasury - settled - refunded, t.totalIn = s.totalIn,
         t.totalSettled = s.totalSettled + settled,
         t.totalRefunded = s.totalRefunded + refunded
  PROVE  ConservedState(t)
<1>1. /\ s.treasury \in Int /\ s.totalIn \in Nat /\ s.totalSettled \in Nat
      /\ s.totalRefunded \in Nat /\ InitialReserves \in Nat
  BY StateFields, AmountsAssumption
<1>2. \A a, b, c, d \in Int : a + b - c - d - settled - refunded
                                = a + b - (c + settled) - (d + refunded)
  OBVIOUS
<1>3. s.treasury = InitialReserves + s.totalIn - s.totalSettled - s.totalRefunded
  BY DEF ConservedState
<1>4. t.treasury = InitialReserves + t.totalIn - t.totalSettled - t.totalRefunded
  BY <1>1, <1>2, <1>3
<1>5. QED
  BY <1>4 DEF ConservedState

LEMMA ConservedSame ==
  ASSUME NEW s, ConservedState(s), NEW t,
         t.treasury = s.treasury, t.totalIn = s.totalIn,
         t.totalSettled = s.totalSettled, t.totalRefunded = s.totalRefunded
  PROVE  ConservedState(t)
BY DEF ConservedState

-----------------------------------------------------------------------------
(* The three of them together are inductive *)

Integrity(s) == BackedState(s) /\ ConservedState(s) /\ SettlementsBounded(s)

IntegrityInv == AccountingInv /\ Integrity(state)

\* Operations on quotes and on the pause switch.
LEMMA IntegrityStays ==
  ASSUME NEW s, StateTypeOk(s), Integrity(s), NEW t, Keeps(s, t), t.certs = s.certs,
         t.treasury = s.treasury, t.totalIn = s.totalIn,
         t.totalSettled = s.totalSettled, t.totalRefunded = s.totalRefunded
  PROVE  Integrity(t)
<1>1. BackedState(t)
  BY KeepsBacked DEF Integrity
<1>2. ConservedState(t)
  BY ConservedSame DEF Integrity
<1>3. SettlementsBounded(t)
  BY SettlementsStayBounded DEF Integrity
<1>4. QED
  BY <1>1, <1>2, <1>3 DEF Integrity

LEMMA IntegrityReceived ==
  ASSUME NEW s, StateTypeOk(s), Integrity(s), NEW p \in Payment
  PROVE  Integrity(Received(s, p))
<1> DEFINE t == Received(s, p)
<1>1. p.amount \in Nat
  BY DEF Payment
<1>2. /\ t.certs = s.certs
      /\ t.treasury = s.treasury + p.amount /\ t.totalIn = s.totalIn + p.amount
      /\ t.totalSettled = s.totalSettled /\ t.totalRefunded = s.totalRefunded
  BY StateFields DEF Received, StateTypeOk
<1>3. Keeps(s, t)
  BY ReceivedKeeps
<1> HIDE DEF t
<1>4. BackedState(t)
  BY <1>2, <1>3, KeepsBacked DEF Integrity
<1>5. ConservedState(t)
  BY <1>1, <1>2, ConservedIn DEF Integrity
<1>6. SettlementsBounded(t)
  BY <1>2, SettlementsStayBounded DEF Integrity
<1>7. QED
  BY <1>4, <1>5, <1>6 DEF Integrity, t

LEMMA IntegrityActivated ==
  ASSUME NEW s, StateTypeOk(s), Integrity(s),
         NEW k \in DOMAIN s.payments, NEW p, p = s.payments[k],
         p.ref \in DOMAIN s.quotes, p.ref \notin DOMAIN s.certs,
         p.amount = TotalPayable(s.quotes[p.ref])
  PROVE  Integrity(Activated(s, p))
<1> DEFINE t == Activated(s, p)
           id == p.ref
<1>1. /\ t.treasury = s.treasury /\ t.totalIn = s.totalIn
      /\ t.totalSettled = s.totalSettled /\ t.totalRefunded = s.totalRefunded
      /\ t.certs = WithCertificate(s.certs, id, NewCertificate(s.quotes[id]))
  BY ActivatedFields, ZenonT(30)
<1>2. BackedState(t)
  BY ActivatedBacked DEF Integrity
<1> HIDE DEF t, id
<1>3. ConservedState(t)
  BY <1>1, ConservedSame DEF Integrity
<1>4. t.certs[id].settlement = {}
  BY <1>1 DEF WithCertificate, NewCertificate
<1>5. \A c \in DOMAIN t.certs : c = id \/ (c \in DOMAIN s.certs /\ t.certs[c] = s.certs[c])
  BY <1>1 DEF WithCertificate
<1>6. SettlementsBounded(t)
  BY <1>4, <1>5 DEF Integrity, SettlementsBounded
<1>7. QED
  BY <1>2, <1>3, <1>6 DEF Integrity, t

LEMMA IntegrityRefunded ==
  ASSUME NEW s, StateTypeOk(s), Integrity(s), NEW tx, NEW amount \in Nat,
         NEW t, t = [s EXCEPT !.payments = Matched(@, tx),
                              !.treasury = @ - amount,
                              !.totalRefunded = @ + amount]
  PROVE  Integrity(t)
<1>1. /\ t.certs = s.certs /\ t.quotes = s.quotes /\ t.payments = Matched(s.payments, tx)
      /\ t.treasury = s.treasury - amount /\ t.totalIn = s.totalIn
      /\ t.totalSettled = s.totalSettled /\ t.totalRefunded = s.totalRefunded + amount
  BY StateFields DEF StateTypeOk
<1>2. BackedState(t)
  <2>1. Keeps(s, t)
    BY <1>1, PaymentsKeep, ZenonT(30)
  <2>2. QED
    BY <1>1, <2>1, KeepsBacked DEF Integrity
<1>3. ConservedState(t)
  <2>1. t.treasury = s.treasury - 0 - amount /\ t.totalSettled = s.totalSettled + 0
    BY <1>1, StateFields
  <2>2. QED
    BY <1>1, <2>1, ConservedOut DEF Integrity
<1>4. SettlementsBounded(t)
  BY <1>1, SettlementsStayBounded DEF Integrity
<1>5. QED
  BY <1>2, <1>3, <1>4 DEF Integrity

LEMMA IntegritySettled ==
  ASSUME NEW s, StateTypeOk(s), Integrity(s), NEW id \in DOMAIN s.certs,
         NEW st \in Settlement,
         st.amount \in 0..(s.certs[id].capDown + s.certs[id].capUp),
         st.payoff \in -s.certs[id].capUp..s.certs[id].capDown,
         st.amount = MaxOf(0, st.payoff - st.feeSplit + s.certs[id].capUp)
  PROVE  LET t == [s EXCEPT !.certs[id].status = FinalStatus(st),
                            !.certs[id].settlement = {st},
                            !.treasury = @ - st.amount,
                            !.totalSettled = @ + st.amount]
         IN  Integrity(t)
<1> DEFINE t == [s EXCEPT !.certs[id].status = FinalStatus(st),
                          !.certs[id].settlement = {st},
                          !.treasury = @ - st.amount,
                          !.totalSettled = @ + st.amount]
<1>1. s.certs[id] \in Certificate
  BY CertificateAmounts
<1>2. st.amount \in Nat
  BY DEF Settlement
<1>3. /\ t.quotes = s.quotes /\ t.payments = s.payments
      /\ DOMAIN t.certs = DOMAIN s.certs
      /\ t.treasury = s.treasury - st.amount /\ t.totalIn = s.totalIn
      /\ t.totalSettled = s.totalSettled + st.amount /\ t.totalRefunded = s.totalRefunded
      /\ t.certs[id] = [s.certs[id] EXCEPT !.status = FinalStatus(st), !.settlement = {st}]
      /\ \A k \in DOMAIN s.certs : k # id => t.certs[k] = s.certs[k]
  BY <1>1, StateFields DEF StateTypeOk, Certificate
<1> HIDE DEF t
<1>4. /\ t.certs[id].settlement = {st}
      /\ t.certs[id].capUp = s.certs[id].capUp /\ t.certs[id].capDown = s.certs[id].capDown
  BY <1>1, <1>3 DEF Certificate
<1>5. BackedState(t)
  <2>1. Keeps(s, t)
    BY <1>3, PaymentsKeep
  <2>2. QED
    BY <1>3, <2>1, KeepsBacked DEF Integrity
<1>6. ConservedState(t)
  <2>1. /\ t.treasury = s.treasury - st.amount - 0 /\ t.totalRefunded = s.totalRefunded + 0
        /\ t.totalIn = s.totalIn /\ t.totalSettled = s.totalSettled + st.amount
    BY <1>2, <1>3, StateFields
  <2>2. QED
    BY <1>2, <2>1, ConservedOut DEF Integrity
<1>7. SettlementsBounded(t)
  <2>1. /\ st.amount \in 0..(t.certs[id].capDown + t.certs[id].capUp)
        /\ st.payoff \in -t.certs[id].capUp..t.certs[id].capDown
        /\ st.amount = MaxOf(0, st.payoff - st.feeSplit + t.certs[id].capUp)
    BY <1>4, Zenon
  <2>2. ASSUME NEW k \in DOMAIN t.certs, NEW st2 \in t.certs[k].settlement
        PROVE  /\ st2.amount \in 0..(t.certs[k].capDown + t.certs[k].capUp)
               /\ st2.payoff \in -t.certs[k].capUp..t.certs[k].capDown
               /\ st2.amount = MaxOf(0, st2.payoff - st2.feeSplit + t.certs[k].capUp)
    <3>1. CASE k = id
      <4>1. st2 = st
        BY <1>4, <3>1
      <4>2. QED
        BY <2>1, <3>1, <4>1, Zenon
    <3>2. CASE k # id
      <4>1. k \in DOMAIN s.certs /\ t.certs[k] = s.certs[k]
        BY <1>3, <3>2
      <4>2. QED
        BY <4>1, Zenon DEF Integrity, SettlementsBounded
    <3>3. QED
      BY <3>1, <3>2
  <2>3. QED
    BY <2>2, Zenon DEF SettlementsBounded
<1>8. QED
  BY <1>5, <1>6, <1>7 DEF Integrity, t

-----------------------------------------------------------------------------
(* What each operation makes of the state and of the log *)

\* The steps of the ledger as constant updates, with the event each commits.
LEMMA ObserveCases ==
  ASSUME StateTypeOk(state), NEW p \in Transfers, ObservePayment(p)
  PROVE  /\ p \in Payment /\ ~p.matched
         /\ StateTypeOk(Received(state, p))
         /\ \E k \in DOMAIN Received(state, p).payments : Received(state, p).payments[k] = p
         /\ \/ state' = Received(state, p)
            \/ /\ CanActivate(Received(state, p), p)
               /\ state' = Activated(Received(state, p), p)
<1>1. p \in Payment
  BY TransferType
<1>2. ~p.matched
  BY DEF Transfers
<1>3. StateTypeOk(Received(state, p))
  BY <1>1, ReceivedKeepsType
<1>4. Received(state, p).payments = Append(state.payments, p)
  BY StateFields DEF Received, StateTypeOk
<1>5. state.payments \in Seq(Payment)
  BY StateFields
<1>6. \E k \in DOMAIN Received(state, p).payments : Received(state, p).payments[k] = p
  BY <1>4, <1>5
<1>7. QED
  BY <1>1, <1>2, <1>3, <1>6 DEF ObservePayment

LEMMA IntegrityInit == Init => IntegrityInv
<1> SUFFICES ASSUME Init PROVE IntegrityInv
  OBVIOUS
<1>1. AccountingInv
  BY AccountingInit
<1>2. state = OpenedState
  BY DEF Init
<1>3. /\ state.treasury = InitialReserves /\ state.totalIn = 0 /\ state.totalSettled = 0
      /\ state.totalRefunded = 0 /\ DOMAIN state.certs = {}
  BY <1>2 DEF OpenedState
<1>4. Integrity(state)
  BY <1>3, AmountsAssumption DEF Integrity, BackedState, ConservedState, SettlementsBounded
<1>5. QED
  BY <1>1, <1>4 DEF IntegrityInv

LEMMA IntegrityStep ==
  ASSUME IntegrityInv, [Next]_vars
  PROVE  IntegrityInv'
<1> DEFINE Goal == Integrity(state')
<1>1. AccountingInv'
  BY AccountingStep DEF IntegrityInv
<1>2. StateTypeOk(state) /\ Integrity(state)
  BY DEF IntegrityInv, AccountingInv, TypeOK
<1>3. ASSUME state' = state PROVE Goal
  BY <1>2, <1>3
<1>4. ASSUME NEW paused \in BOOLEAN, SetPaused(paused) PROVE Goal
  <2>1. state' = [state EXCEPT !.paused = paused]
    BY <1>4 DEF SetPaused, Commit
  <2>2. /\ state'.treasury = state.treasury /\ state'.payments = state.payments
        /\ state'.quotes = state.quotes /\ state'.certs = state.certs
        /\ state'.totalIn = state.totalIn /\ state'.totalSettled = state.totalSettled
        /\ state'.totalRefunded = state.totalRefunded
    BY <1>2, <2>1, StateFields DEF StateTypeOk
  <2>3. Keeps(state, state')
    BY <2>2 DEF Keeps
  <2>4. QED
    BY <1>2, <2>2, <2>3, IntegrityStays
<1>5. ASSUME NEW m \in Mints, NEW w \in Wallets, NEW terms \in Terms,
             NEW regimeUpdatedAt \in 0..now, IssueQuote(m, w, terms, regimeUpdatedAt)
      PROVE  Goal
  <2>1. PICK quote : state' = [state EXCEPT !.quotes = Append(@, quote)]
    BY <1>5 DEF IssueQuote, Commit
  <2>2. /\ state'.treasury = state.treasury /\ state'.payments = state.payments
        /\ state'.quotes = Append(state.quotes, quote) /\ state'.certs = state.certs
        /\ state'.totalIn = state.totalIn /\ state'.totalSettled = state.totalSettled
        /\ state'.totalRefunded = state.totalRefunded
    BY <1>2, <2>1, StateFields DEF StateTypeOk
  <2>3. Keeps(state, state')
    BY <1>2, <2>2, AppendQuoteKeeps
  <2>4. QED
    BY <1>2, <2>2, <2>3, IntegrityStays
<1>6. ASSUME NEW id \in DOMAIN state.certs, NEW checkpoint \in Checkpoints,
             RecordFeeCheckpoint(id, checkpoint)
      PROVE  Goal
  <2>1. state' = [state EXCEPT !.certs[id].feeCheckpoint = {checkpoint}]
    BY <1>6 DEF RecordFeeCheckpoint, Commit
  <2>2. state.certs[id] \in Certificate
    BY <1>2, CertificateAmounts
  <2>3. /\ state'.treasury = state.treasury /\ state'.payments = state.payments
        /\ state'.quotes = state.quotes /\ DOMAIN state'.certs = DOMAIN state.certs
        /\ state'.totalIn = state.totalIn /\ state'.totalSettled = state.totalSettled
        /\ state'.totalRefunded = state.totalRefunded
        /\ \A k \in DOMAIN state.certs :
             state'.certs[k] = IF k = id
                               THEN [state.certs[id] EXCEPT !.feeCheckpoint = {checkpoint}]
                               ELSE state.certs[k]
    BY <1>2, <2>1, StateFields DEF StateTypeOk
  <2>4. \A k \in DOMAIN state.certs :
          /\ state'.certs[k].capUp = state.certs[k].capUp
          /\ state'.certs[k].capDown = state.certs[k].capDown
          /\ state'.certs[k].settlement = state.certs[k].settlement
    BY <2>2, <2>3 DEF Certificate
  <2>5. SettlementsBounded(state')
    BY <1>2, <2>3, <2>4, SettlementsStayBounded DEF Integrity
  <2>6. BackedState(state')
    <3>1. Keeps(state, state')
      BY <2>3 DEF Keeps
    <3>2. QED
      BY <1>2, <2>3, <3>1, KeepsBacked DEF Integrity
  <2>7. ConservedState(state')
    BY <1>2, <2>3, ConservedSame DEF Integrity
  <2>8. QED
    BY <2>5, <2>6, <2>7 DEF Integrity
<1>7. ASSUME LapseExpiredQuotes PROVE Goal
  <2>1. state' = [state EXCEPT !.quotes = Lapsed(@, ExpiredOpenQuotes)]
    BY <1>7 DEF LapseExpiredQuotes, Commit
  <2>2. /\ state'.treasury = state.treasury /\ state'.payments = state.payments
        /\ state'.quotes = Lapsed(state.quotes, ExpiredOpenQuotes)
        /\ state'.certs = state.certs
        /\ state'.totalIn = state.totalIn /\ state'.totalSettled = state.totalSettled
        /\ state'.totalRefunded = state.totalRefunded
    BY <1>2, <2>1, StateFields DEF StateTypeOk
  <2>3. \A id \in ExpiredOpenQuotes : state.quotes[id].status # "consumed"
    BY DEF ExpiredOpenQuotes
  <2>4. Keeps(state, state')
    BY <1>2, <2>2, <2>3, LapsedKeeps
  <2>5. QED
    BY <1>2, <2>2, <2>4, IntegrityStays
<1>8. ASSUME NEW p \in Transfers, ObservePayment(p) PROVE Goal
  <2> DEFINE r == Received(state, p)
  <2>1. /\ p \in Payment /\ StateTypeOk(r)
        /\ \E k \in DOMAIN r.payments : r.payments[k] = p
        /\ \/ state' = r
           \/ CanActivate(r, p) /\ state' = Activated(r, p)
    BY <1>2, <1>8, ObserveCases
  <2>2. Integrity(r)
    BY <1>2, <2>1, IntegrityReceived
  <2> HIDE DEF r
  <2>3. CanActivate(r, p) => Integrity(Activated(r, p))
    BY <2>1, <2>2, IntegrityActivated DEF CanActivate
  <2>4. QED
    BY <2>1, <2>2, <2>3
<1>9. ASSUME NEW i \in DOMAIN state.payments, RefundPayment(i) PROVE Goal
  <2>1. state.payments[i].amount \in Nat
    BY <1>2, FloatTermsType
  <2>2. state' = [state EXCEPT !.payments = Matched(@, state.payments[i].tx),
                               !.treasury = @ - state.payments[i].amount,
                               !.totalRefunded = @ + state.payments[i].amount]
    BY <1>9, SMTT(30) DEF RefundPayment, Commit
  <2>3. QED
    BY <1>2, <2>1, <2>2, IntegrityRefunded
<1>10. ASSUME NEW id \in DOMAIN state.certs, NEW fees \in Fees,
              NEW payoffRaw \in RawPayoffs(state.certs[id]), Settle(id, payoffRaw, fees)
       PROVE  Goal
  <2> DEFINE st == SettlementOf(state.certs[id], payoffRaw, fees)
  <2>1. state.certs[id] \in Certificate /\ fees \in Nat
    BY <1>2, CertificateAmounts, AmountsAssumption
  <2>2. payoffRaw \in Int
    BY <2>1, RawPayoffType
  <2>3. st \in Settlement
    BY <2>1, <2>2, SettlementType
  <2>4. /\ st.amount \in 0..(state.certs[id].capDown + state.certs[id].capUp)
        /\ st.payoff \in -state.certs[id].capUp..state.certs[id].capDown
        /\ st.amount = MaxOf(0, st.payoff - st.feeSplit + state.certs[id].capUp)
    BY <2>1, <2>2, SettlementFormula
  <2>5. state' = [state EXCEPT !.certs[id].status = FinalStatus(st),
                               !.certs[id].settlement = {st},
                               !.treasury = @ - st.amount,
                               !.totalSettled = @ + st.amount]
    BY <1>10 DEF Settle, Commit
  <2> HIDE DEF st
  <2>6. QED
    BY <1>2, <2>3, <2>4, <2>5, IntegritySettled
<1>11. Goal
  <2> HIDE DEF Goal
  <2>1. Tick \/ UNCHANGED vars => Goal
    BY <1>3 DEF Tick, vars
  <2>2. QED
    BY <1>4, <1>5, <1>6, <1>7, <1>8, <1>9, <1>10, <2>1 DEF Next
<1>12. QED
  BY <1>1, <1>11 DEF IntegrityInv

LEMMA LedgerIntegrity == Spec => []IntegrityInv
<1>1. IntegrityInv /\ [Next]_vars => IntegrityInv'
  BY IntegrityStep
<1>2. QED
  BY <1>1, IntegrityInit, PTL DEF Spec

\* The monitors of invariants.ts hold in every reachable state: commit() never
\* throws, so no operation is left half done.
THEOREM LedgerInvariants == Spec => []InvariantsHold
<1>1. IntegrityInv /\ SolventState(state) => InvariantsHold
  <2> SUFFICES ASSUME IntegrityInv, SolventState(state) PROVE InvariantsHold
    OBVIOUS
  <2>1. StateTypeOk(state) /\ Integrity(state)
    BY DEF IntegrityInv, AccountingInv, TypeOK
  <2>2. state.treasury >= 0
    BY <2>1, AccountsTypes DEF SolventState
  <2>3. BoundedState(state)
    BY <2>1, <2>2 DEF Integrity, SettlementsBounded, BoundedState
  <2>4. QED
    BY <2>1, <2>3 DEF Integrity, InvariantsHold, InvariantsOk
<1>2. QED
  BY <1>1, LedgerIntegrity, LedgerSolvent, PTL

\* The exposure of the active certificates stays within the ceiling, whatever
\* is settled and refunded after they were accepted.
THEOREM LedgerUtilization == Spec => []UtilizationBound
<1>1. AccountsProofs!ReservesConstants
        => (AccountsProofs!Spec => []AccountsProofs!WithinUtilization)
  BY AccountsProofs!ReservesWithinUtilization
<1>2. AccountsProofs!Spec => []AccountsProofs!WithinUtilization
  BY <1>1, AccountsConstants
<1>3. AccountsProofs!WithinUtilization => UtilizationBound
  BY DEF AccountsProofs!WithinUtilization, UtilizationBound,
         AccountsProofs!FullBps, FullBps
<1>4. QED
  BY <1>2, <1>3, AccountsAreAccounts, LedgerImplementsAccounting, PTL
     DEF ImplementsReserveAccounting

-----------------------------------------------------------------------------
(* A restart reproduces the state *)

LEMMA CommitReproduces ==
  ASSUME NEW s, NEW t, NEW e, InvariantsOk(t), Resolves(s, e), ApplyReplay(s, e) = t
  PROVE  Committed([state |-> s, loads |-> TRUE], t, e) = [state |-> t, loads |-> TRUE]
BY DEF Committed

LEMMA RestartStep ==
  ASSUME TypeOK, RestartReproduces, InvariantsHold', [Next]_vars
  PROVE  RestartReproduces'
<1> DEFINE Goal == log' = [state |-> state', loads |-> TRUE]
<1>1. /\ StateTypeOk(state) /\ log = [state |-> state, loads |-> TRUE]
      /\ InvariantsOk(state')
  BY DEF TypeOK, RestartReproduces, InvariantsHold
<1>2. ASSUME NEW t, NEW e, Commit(t, e), Resolves(state, e), ApplyReplay(state, e) = t
      PROVE  Goal
  <2>1. state' = t /\ log' = Committed(log, t, e)
    BY <1>2 DEF Commit
  <2>2. QED
    BY <1>1, <1>2, <2>1, CommitReproduces
<1>3. ASSUME NEW paused \in BOOLEAN, SetPaused(paused) PROVE Goal
  <2>1. ApplyReplay(state, PausedSet(paused)) = [state EXCEPT !.paused = paused]
    BY DEF ApplyReplay, PausedSet
  <2>2. Resolves(state, PausedSet(paused))
    BY DEF Resolves, PausedSet
  <2>3. QED
    BY <1>2, <1>3, <2>1, <2>2 DEF SetPaused
<1>4. ASSUME NEW m \in Mints, NEW w \in Wallets, NEW terms \in Terms,
             NEW regimeUpdatedAt \in 0..now, IssueQuote(m, w, terms, regimeUpdatedAt)
      PROVE  Goal
  <2>1. PICK quote :
          Commit([state EXCEPT !.quotes = Append(@, quote)], QuoteIssued(quote))
    BY <1>4 DEF IssueQuote
  <2>2. ApplyReplay(state, QuoteIssued(quote)) = [state EXCEPT !.quotes = Append(@, quote)]
    BY DEF ApplyReplay, QuoteIssued
  <2>3. Resolves(state, QuoteIssued(quote))
    BY DEF Resolves, QuoteIssued
  <2>4. QED
    BY <1>2, <2>1, <2>2, <2>3
<1>5. ASSUME NEW id \in DOMAIN state.certs, NEW checkpoint \in Checkpoints,
             RecordFeeCheckpoint(id, checkpoint)
      PROVE  Goal
  <2> DEFINE e == FeeCheckpointRecorded(id, checkpoint)
             t == [state EXCEPT !.certs[id].feeCheckpoint = {checkpoint}]
  <2>1. state.certs[id].feeCheckpoint = {} /\ Commit(t, e)
    BY <1>5 DEF RecordFeeCheckpoint
  <2>2. ApplyReplay(state, e) = t
    BY <2>1 DEF ApplyReplay, FeeCheckpointRecorded
  <2>3. Resolves(state, e)
    BY DEF Resolves, FeeCheckpointRecorded
  <2> HIDE DEF e, t
  <2>4. QED
    BY <1>2, <2>1, <2>2, <2>3
<1>6. ASSUME LapseExpiredQuotes PROVE Goal
  <2> DEFINE e == QuotesLapsed(ExpiredOpenQuotes)
             t == [state EXCEPT !.quotes = Lapsed(@, ExpiredOpenQuotes)]
  <2>1. Commit(t, e)
    BY <1>6 DEF LapseExpiredQuotes
  <2>2. ApplyReplay(state, e) = t
    BY DEF ApplyReplay, QuotesLapsed
  <2>3. Resolves(state, e)
    BY DEF Resolves, QuotesLapsed, ExpiredOpenQuotes
  <2> HIDE DEF e, t
  <2>4. QED
    BY <1>2, <2>1, <2>2, <2>3
<1>7. ASSUME NEW p \in Transfers, ObservePayment(p) PROVE Goal
  <2> DEFINE r  == Received(state, p)
             t  == Activated(r, p)
             e1 == PaymentObserved(p)
             e2 == CertificateActivated(p.ref, t.certs[p.ref], p.tx)
  <2>1. \/ InvariantsOk(r) /\ CanActivate(r, p) /\ state' = t
             /\ log' = Committed(Committed(log, r, e1), t, e2)
        \/ state' = r /\ log' = Committed(log, r, e1)
    BY <1>7 DEF ObservePayment
  <2>2. Resolves(state, e1) /\ ApplyReplay(state, e1) = r
    BY DEF Resolves, ApplyReplay, PaymentObserved, Received
  <2>3. StateTypeOk(r) /\ \E k \in DOMAIN r.payments : r.payments[k] = p
    BY <1>1, <1>7, ObserveCases
  <2>4. ASSUME CanActivate(r, p)
        PROVE  Resolves(r, e2) /\ ApplyReplay(r, e2) = t
    <3>1. p.ref \in DOMAIN r.quotes
      BY <2>4 DEF CanActivate
    <3>2. HasPayment(r, p.tx)
      BY <2>3 DEF HasPayment
    <3>3. Resolves(r, e2)
      BY <3>1, <3>2 DEF Resolves, CertificateActivated
    <3> DEFINE cert == NewCertificate(r.quotes[p.ref])
    <3>4. t.certs[p.ref] = cert
      <4> HIDE DEF r
      <4>1. StateTypeOk(r)
        BY <2>3
      <4>2. t.certs = WithCertificate(r.certs, p.ref, NewCertificate(r.quotes[p.ref]))
        BY <4>1, ActivatedFields, ZenonT(30)
      <4> HIDE DEF t, cert
      <4>3. t.certs = WithCertificate(r.certs, p.ref, cert)
        BY <4>2 DEF cert
      <4>4. QED
        BY <4>3 DEF WithCertificate
    <3>5. t = [r EXCEPT !.payments = Matched(@, p.tx),
                        !.quotes[p.ref].status = "consumed",
                        !.certs = WithCertificate(@, p.ref, cert)]
      BY DEF Activated
    <3> HIDE DEF r, t, cert
    <3>6. ApplyReplay(r, e2)
            = [r EXCEPT !.certs = WithCertificate(@, p.ref, cert),
                        !.payments = Matched(@, p.tx),
                        !.quotes[p.ref].status = "consumed"]
      BY <3>4 DEF ApplyReplay, CertificateActivated
    <3>7. [r EXCEPT !.certs = WithCertificate(@, p.ref, cert),
                    !.payments = Matched(@, p.tx),
                    !.quotes[p.ref].status = "consumed"]
            = [r EXCEPT !.payments = Matched(@, p.tx),
                        !.quotes[p.ref].status = "consumed",
                        !.certs = WithCertificate(@, p.ref, cert)]
      BY <2>3 DEF StateTypeOk
    <3>8. QED
      BY <3>3, <3>5, <3>6, <3>7
  <2> HIDE DEF r, t, e1, e2
  <2>5. InvariantsOk(r) => Committed(log, r, e1) = [state |-> r, loads |-> TRUE]
    BY <1>1, <2>2, CommitReproduces
  <2>6. InvariantsOk(t) /\ CanActivate(r, p)
          => Committed([state |-> r, loads |-> TRUE], t, e2) = [state |-> t, loads |-> TRUE]
    BY <2>4, CommitReproduces
  <2>7. QED
    BY <1>1, <2>1, <2>5, <2>6
<1>8. ASSUME NEW i \in DOMAIN state.payments, RefundPayment(i) PROVE Goal
  <2> DEFINE p == state.payments[i]
             e == PaymentRefunded(p.tx, p.amount)
             t == [state EXCEPT !.payments = Matched(@, p.tx),
                                !.treasury = @ - p.amount,
                                !.totalRefunded = @ + p.amount]
  <2>1. Commit(t, e)
    BY <1>8 DEF RefundPayment
  <2>2. ApplyReplay(state, e) = t
    BY DEF ApplyReplay, PaymentRefunded
  <2>3. Resolves(state, e)
    BY DEF Resolves, PaymentRefunded, HasPayment
  <2> HIDE DEF e, t
  <2>4. QED
    BY <1>2, <2>1, <2>2, <2>3
<1>9. ASSUME NEW id \in DOMAIN state.certs, NEW fees \in Fees,
             NEW payoffRaw \in RawPayoffs(state.certs[id]), Settle(id, payoffRaw, fees)
      PROVE  Goal
  <2> DEFINE st == SettlementOf(state.certs[id], payoffRaw, fees)
             e  == CertificateSettled(id, st, FinalStatus(st))
             t  == [state EXCEPT !.certs[id].status = FinalStatus(st),
                                 !.certs[id].settlement = {st},
                                 !.treasury = @ - st.amount,
                                 !.totalSettled = @ + st.amount]
  <2>1. Commit(t, e)
    BY <1>9 DEF Settle
  <2> HIDE DEF st
  <2>2. ApplyReplay(state, e) = t
    BY DEF ApplyReplay, CertificateSettled
  <2>3. Resolves(state, e)
    BY DEF Resolves, CertificateSettled
  <2> HIDE DEF e, t
  <2>4. QED
    BY <1>2, <2>1, <2>2, <2>3
<1>10. Goal
  <2>1. Tick \/ UNCHANGED vars => Goal
    BY <1>1 DEF Tick, vars
  <2> HIDE DEF Goal
  <2>2. QED
    BY <1>3, <1>4, <1>5, <1>6, <1>7, <1>8, <1>9, <2>1 DEF Next
<1>11. QED
  BY <1>10 DEF RestartReproduces

\* What fromEvents rebuilds from the log at any moment is the state the
\* process has, and it never throws.
THEOREM LedgerRestart == Spec => []RestartReproduces
<1>1. Init => RestartReproduces
  BY DEF Init, RestartReproduces
<1>2. TypeOK /\ RestartReproduces /\ InvariantsHold' /\ [Next]_vars => RestartReproduces'
  BY RestartStep
<1>3. QED
  BY <1>1, <1>2, LedgerTypeOK, LedgerInvariants, PTL DEF Spec

-----------------------------------------------------------------------------
(* A position is protected once *)

\* At most one of a position's open quotes and active certificates is alive.
\* The activation never looks: the quote is what reserves the position, until
\* the very second in which it can last be paid.
Alive(s, id) == IsActive(s, id) \/ (id \in DOMAIN s.quotes /\ IsOpen(s, id))

MintOf(s, id) == s.quotes[id].mint

ReservedOnce ==
  /\ \A id \in DOMAIN state.certs : state.certs[id].mint = MintOf(state, id)
  /\ \A a, b \in DOMAIN state.quotes :
       Alive(state, a) /\ Alive(state, b) /\ MintOf(state, a) = MintOf(state, b) => a = b

\* Nothing comes alive and no position changes: the reservation is kept.
LEMMA ReservedStays ==
  ASSUME StateTypeOk(state), ReservedOnce,
         DOMAIN state'.certs = DOMAIN state.certs,
         \A id \in DOMAIN state.certs : state'.certs[id].mint = state.certs[id].mint,
         DOMAIN state'.quotes = DOMAIN state.quotes,
         \A id \in DOMAIN state.quotes : MintOf(state', id) = MintOf(state, id),
         \A id \in DOMAIN state.quotes : Alive(state, id)' => Alive(state, id)
  PROVE  ReservedOnce'
BY StateFields DEF ReservedOnce

LEMMA ReservedIssue ==
  ASSUME TypeOK, ReservedOnce,
         NEW m \in Mints, NEW w \in Wallets, NEW terms \in Terms,
         NEW regimeUpdatedAt \in 0..now, IssueQuote(m, w, terms, regimeUpdatedAt)
  PROVE  ReservedOnce'
<1> DEFINE n == Len(state.quotes)
<1>1. StateTypeOk(state)
  BY DEF TypeOK
<1>2. PICK quote : /\ quote.mint = m
                   /\ state' = [state EXCEPT !.quotes = Append(@, quote)]
                   /\ now' = now
  <2> DEFINE q == [mint |-> m, owner |-> w, premium |-> terms.premium,
                   capDown |-> terms.capDown, capUp |-> terms.capUp,
                   validUntil |-> now + QuoteTtl, status |-> "open"]
  <2>1. state' = [state EXCEPT !.quotes = Append(@, q)] /\ now' = now
    BY DEF IssueQuote, Commit
  <2>2. q.mint = m
    OBVIOUS
  <2> HIDE DEF q
  <2>3. QED
    BY <2>1, <2>2
<1>3. state'.quotes = Append(state.quotes, quote) /\ state'.certs = state.certs
  BY <1>1, <1>2, StateFields DEF StateTypeOk
<1>4. /\ n \in Nat /\ DOMAIN state.quotes = 1..n /\ DOMAIN state'.quotes = 1..n + 1
      /\ state'.quotes[n + 1] = quote
      /\ \A id \in 1..n : state'.quotes[id] = state.quotes[id]
  BY <1>1, <1>3, StateFields
<1>5. \A id \in 1..n : MintOf(state', id) = MintOf(state, id)
  BY <1>4 DEF MintOf
<1>6. \A id \in 1..n : Alive(state, id)' <=> Alive(state, id)
  BY <1>2, <1>3, <1>4 DEF Alive, IsActive, IsOpen
<1>7. \A id \in 1..n : Alive(state, id) => MintOf(state, id) # m
  <2>1. ~BlocksQuote(m) /\ ~IsProtected(m)
    BY DEF IssueQuote
  <2>2. ASSUME NEW id \in 1..n, Alive(state, id), MintOf(state, id) = m PROVE FALSE
    <3>1. CASE IsActive(state, id)
      <4>1. id \in DOMAIN state.certs
        BY <3>1 DEF IsActive
      <4>2. state.certs[id].mint = m
        BY <2>2, <4>1 DEF ReservedOnce
      <4>3. QED
        BY <2>1, <3>1, <4>1, <4>2 DEF IsProtected
    <3>2. CASE IsOpen(state, id)
      BY <1>4, <2>1, <2>2, <3>2 DEF BlocksQuote, MintOf
    <3>3. QED
      BY <2>2, <3>1, <3>2 DEF Alive
  <2>3. QED
    BY <2>2
<1>8. MintOf(state', n + 1) = m
  BY <1>2, <1>4 DEF MintOf
<1>9. ASSUME NEW a \in 1..n + 1, NEW b \in 1..n + 1,
             Alive(state, a)', Alive(state, b)', MintOf(state', a) = MintOf(state', b)
      PROVE  a = b
  <2>1. \A k \in 1..n + 1 : k \in 1..n \/ k = n + 1
    BY <1>4
  <2>2. CASE a \in 1..n /\ b \in 1..n
    BY <1>4, <1>5, <1>6, <1>9, <2>2 DEF ReservedOnce
  <2>3. CASE a = n + 1 /\ b \in 1..n
    BY <1>5, <1>6, <1>7, <1>8, <1>9, <2>3
  <2>4. CASE b = n + 1 /\ a \in 1..n
    BY <1>5, <1>6, <1>7, <1>8, <1>9, <2>4
  <2>5. QED
    BY <2>1, <2>2, <2>3, <2>4
<1>10. \A id \in DOMAIN state'.certs : state'.certs[id].mint = MintOf(state', id)
  <2>1. DOMAIN state.certs \subseteq 1..n
    BY <1>1, <1>4, StateFields
  <2>2. QED
    BY <1>3, <1>5, <2>1 DEF ReservedOnce
<1>11. QED
  BY <1>4, <1>9, <1>10 DEF ReservedOnce

LEMMA ReservedObserve ==
  ASSUME TypeOK, ReservedOnce, NEW p \in Transfers, ObservePayment(p)
  PROVE  ReservedOnce'
<1> DEFINE r  == Received(state, p)
           t  == Activated(r, p)
           id == p.ref
<1>1. StateTypeOk(state) /\ now' = now
  BY DEF TypeOK, ObservePayment
<1>2. r.quotes = state.quotes /\ r.certs = state.certs
  BY <1>1, StateFields DEF Received, StateTypeOk
<1>3. StateTypeOk(r) /\ (state' = r \/ (CanActivate(r, p) /\ state' = t))
  BY <1>1, ObserveCases
<1> HIDE DEF r
<1>4. CASE state' = r
  <2>1. \A k \in DOMAIN state.quotes :
          MintOf(state', k) = MintOf(state, k) /\ (Alive(state, k)' => Alive(state, k))
    BY <1>1, <1>2, <1>4 DEF MintOf, Alive, IsActive, IsOpen
  <2>2. DOMAIN state'.quotes = DOMAIN state.quotes /\ state'.certs = state.certs
    BY <1>2, <1>4
  <2>3. QED
    BY <1>1, <2>1, <2>2, ReservedStays
<1>5. CASE CanActivate(r, p) /\ state' = t
  <2>1. /\ id \in DOMAIN state.quotes /\ IsOpen(state, id) /\ id \notin DOMAIN state.certs
    BY <1>2, <1>5 DEF CanActivate, IsOpen
  <2>2. /\ state'.quotes = [state.quotes EXCEPT ![id].status = "consumed"]
        /\ state'.certs = WithCertificate(state.certs, id, NewCertificate(state.quotes[id]))
    BY <1>2, <1>3, <1>5, ActivatedFields
  <2>3. state.quotes[id] \in Quote
    BY <1>1, <2>1, StateFields
  <2> HIDE DEF t, id
  <2>4. \A k \in DOMAIN state.quotes : MintOf(state', k) = MintOf(state, k)
    BY <2>2, <2>3 DEF MintOf, Quote
  <2>5. \A k \in DOMAIN state.quotes : Alive(state, k)' => Alive(state, k)
    <3>1. Alive(state, id)
      BY <2>1 DEF Alive
    <3>2. ASSUME NEW k \in DOMAIN state.quotes, k # id, Alive(state, k)'
          PROVE  Alive(state, k)
      <4>1. state'.quotes[k] = state.quotes[k]
        BY <2>2, <3>2
      <4>2. IsActive(state', k) => IsActive(state, k)
        BY <2>2, <3>2 DEF IsActive, WithCertificate
      <4>3. QED
        BY <1>1, <3>2, <4>1, <4>2 DEF Alive, IsOpen
    <3>3. QED
      BY <3>1, <3>2
  <2>6. DOMAIN state'.quotes = DOMAIN state.quotes
    BY <2>2
  <2>7. \A k \in DOMAIN state'.certs : state'.certs[k].mint = MintOf(state', k)
    <3>1. NewCertificate(state.quotes[id]).mint = MintOf(state, id)
      BY DEF NewCertificate, MintOf
    <3>2. \A k \in DOMAIN state'.certs :
            \/ k = id /\ state'.certs[k] = NewCertificate(state.quotes[id])
            \/ k \in DOMAIN state.certs /\ state'.certs[k] = state.certs[k]
      BY <2>2 DEF WithCertificate
    <3>3. DOMAIN state.certs \subseteq DOMAIN state.quotes
      BY <1>1, StateFields
    <3>4. QED
      BY <2>1, <2>4, <3>1, <3>2, <3>3 DEF ReservedOnce
  <2>8. QED
    BY <2>4, <2>5, <2>6, <2>7 DEF ReservedOnce
<1>6. QED
  BY <1>3, <1>4, <1>5

LEMMA ReservedStep ==
  ASSUME TypeOK, ReservedOnce, [Next]_vars
  PROVE  ReservedOnce'
<1>1. StateTypeOk(state) /\ now \in Nat
  BY ConfigAssumption DEF TypeOK
<1>2. ASSUME now' >= now, state'.quotes = state.quotes,
             DOMAIN state'.certs = DOMAIN state.certs,
             \A id \in DOMAIN state.certs :
               /\ state'.certs[id].mint = state.certs[id].mint
               /\ state'.certs[id].status = "active" => state.certs[id].status = "active",
             now' \in Nat
      PROVE  ReservedOnce'
  <2>1. ASSUME NEW id \in DOMAIN state.quotes, Alive(state, id)' PROVE Alive(state, id)
    <3>1. IsActive(state', id) => IsActive(state, id)
      BY <1>2 DEF IsActive
    <3>2. state.quotes[id].validUntil \in Nat
      <4>1. state.quotes[id] \in Quote
        BY <1>1, StateFields
      <4>2. QED
        BY <4>1 DEF Quote
    <3>3. \A a, b, c \in Nat : b >= a /\ b <= c => a <= c
      OBVIOUS
    <3>4. IsOpen(state, id)' => IsOpen(state, id)
      BY <1>1, <1>2, <3>2, <3>3, Zenon DEF IsOpen
    <3>5. QED
      BY <2>1, <3>1, <3>4 DEF Alive
  <2>2. \A id \in DOMAIN state.quotes : MintOf(state', id) = MintOf(state, id)
    BY <1>2 DEF MintOf
  <2>3. QED
    BY <1>1, <1>2, <2>1, <2>2, ReservedStays
<1>3. now' = now => now' >= now /\ now' \in Nat
  BY <1>1
<1>4. ASSUME Tick \/ UNCHANGED vars PROVE ReservedOnce'
  <2>1. now' >= now /\ now' \in Nat /\ state' = state
    BY <1>1, <1>4 DEF Tick, vars
  <2>2. QED
    BY <1>2, <2>1
<1>5. ASSUME NEW paused \in BOOLEAN, SetPaused(paused) PROVE ReservedOnce'
  <2>1. state' = [state EXCEPT !.paused = paused] /\ now' = now
    BY <1>5 DEF SetPaused, Commit
  <2>2. state'.quotes = state.quotes /\ state'.certs = state.certs
    BY <1>1, <2>1, StateFields DEF StateTypeOk
  <2>3. QED
    BY <1>2, <1>3, <2>1, <2>2
<1>6. ASSUME NEW id \in DOMAIN state.certs, NEW checkpoint \in Checkpoints,
             RecordFeeCheckpoint(id, checkpoint)
      PROVE  ReservedOnce'
  <2>1. state' = [state EXCEPT !.certs[id].feeCheckpoint = {checkpoint}] /\ now' = now
    BY <1>6 DEF RecordFeeCheckpoint, Commit
  <2>2. /\ state'.quotes = state.quotes /\ DOMAIN state'.certs = DOMAIN state.certs
        /\ \A k \in DOMAIN state.certs :
             state'.certs[k] = IF k = id
                               THEN [state.certs[id] EXCEPT !.feeCheckpoint = {checkpoint}]
                               ELSE state.certs[k]
    BY <1>1, <2>1, StateFields DEF StateTypeOk
  <2>3. state.certs[id] \in Certificate
    BY <1>1, CertificateAmounts
  <2>4. \A k \in DOMAIN state.certs :
          /\ state'.certs[k].mint = state.certs[k].mint
          /\ state'.certs[k].status = "active" => state.certs[k].status = "active"
    BY <2>2, <2>3 DEF Certificate
  <2>5. QED
    BY <1>2, <1>3, <2>1, <2>2, <2>4
<1>7. ASSUME LapseExpiredQuotes PROVE ReservedOnce'
  <2>1. state' = [state EXCEPT !.quotes = Lapsed(@, ExpiredOpenQuotes)] /\ now' = now
    BY <1>7 DEF LapseExpiredQuotes, Commit
  <2>2. /\ state'.quotes = Lapsed(state.quotes, ExpiredOpenQuotes)
        /\ state'.certs = state.certs
    BY <1>1, <2>1, StateFields DEF StateTypeOk
  <2>3. DOMAIN state'.quotes = DOMAIN state.quotes
    BY <2>2 DEF Lapsed
  <2>4. ASSUME NEW id \in DOMAIN state.quotes
        PROVE  /\ MintOf(state', id) = MintOf(state, id)
               /\ Alive(state, id)' => Alive(state, id)
    <3>1. state.quotes[id] \in Quote
      BY <1>1, StateFields
    <3>2. \/ state'.quotes[id] = state.quotes[id]
          \/ state'.quotes[id] = [state.quotes[id] EXCEPT !.status = "lapsed"]
      BY <2>2 DEF Lapsed
    <3>3. QED
      BY <2>1, <2>2, <3>1, <3>2 DEF Alive, MintOf, IsActive, IsOpen, Quote
  <2>5. QED
    BY <1>1, <2>2, <2>3, <2>4, ReservedStays
<1>8. ASSUME NEW i \in DOMAIN state.payments, RefundPayment(i) PROVE ReservedOnce'
  <2>1. PICK payments, treasury, total :
          state' = [state EXCEPT !.payments = payments, !.treasury = treasury,
                                 !.totalRefunded = total]
    BY <1>8 DEF RefundPayment, Commit
  <2>2. state'.quotes = state.quotes /\ state'.certs = state.certs
    BY <1>1, <2>1, StateFields DEF StateTypeOk
  <2>3. now' = now
    BY <1>8 DEF RefundPayment
  <2>4. QED
    BY <1>2, <1>3, <2>2, <2>3
<1>9. ASSUME NEW id \in DOMAIN state.certs, NEW fees \in Fees,
             NEW payoffRaw \in RawPayoffs(state.certs[id]), Settle(id, payoffRaw, fees)
      PROVE  ReservedOnce'
  <2> DEFINE st == SettlementOf(state.certs[id], payoffRaw, fees)
  <2>1. now' = now /\ IsActive(state, id)
        /\ state' = [state EXCEPT !.certs[id].status = FinalStatus(st),
                                  !.certs[id].settlement = {st},
                                  !.treasury = @ - st.amount,
                                  !.totalSettled = @ + st.amount]
    BY <1>9 DEF Settle, Commit, IsDue
  <2> HIDE DEF st
  <2>2. state.certs[id] \in Certificate
    BY <1>1, CertificateAmounts
  <2>3. /\ state'.quotes = state.quotes /\ DOMAIN state'.certs = DOMAIN state.certs
        /\ state'.certs[id].mint = state.certs[id].mint
        /\ \A k \in DOMAIN state.certs : k # id => state'.certs[k] = state.certs[k]
    BY <1>1, <2>1, <2>2, StateFields DEF StateTypeOk, Certificate
  <2>4. state.certs[id].status = "active"
    BY <2>1 DEF IsActive
  <2>5. \A k \in DOMAIN state.certs :
          /\ state'.certs[k].mint = state.certs[k].mint
          /\ state'.certs[k].status = "active" => state.certs[k].status = "active"
    BY <2>3, <2>4
  <2>6. QED
    BY <1>2, <1>3, <2>1, <2>3, <2>5
<1>10. QED
  BY <1>4, <1>5, <1>6, <1>7, <1>8, <1>9, ReservedIssue, ReservedObserve DEF Next

\* Two active certificates never protect the same position, although the
\* activation of the second does not look for the first.
THEOREM LedgerProtectsOnce == Spec => []OneCertificatePerPosition
<1>1. Init => ReservedOnce
  BY DEF Init, OpenedState, ReservedOnce
<1>2. TypeOK /\ ReservedOnce /\ [Next]_vars => ReservedOnce'
  BY ReservedStep
<1>3. TypeOK /\ ReservedOnce => OneCertificatePerPosition
  <2> SUFFICES ASSUME TypeOK, ReservedOnce,
                      NEW a \in DOMAIN state.certs, NEW b \in DOMAIN state.certs,
                      IsActive(state, a), IsActive(state, b),
                      state.certs[a].mint = state.certs[b].mint
               PROVE  a = b
    BY DEF OneCertificatePerPosition
  <2>1. a \in DOMAIN state.quotes /\ b \in DOMAIN state.quotes
    BY StateFields DEF TypeOK
  <2>2. Alive(state, a) /\ Alive(state, b) /\ MintOf(state, a) = MintOf(state, b)
    BY DEF Alive, ReservedOnce
  <2>3. QED
    BY <2>1, <2>2 DEF ReservedOnce
<1>4. QED
  BY <1>1, <1>2, <1>3, LedgerTypeOK, PTL DEF Spec

-----------------------------------------------------------------------------
(* The shape of a step: one of three movements of money, or quiet *)

\* A step that moves no money and neither sells nor ends a certificate.
Quiet(s, t) ==
  /\ t.payments = s.payments
  /\ t.totalIn = s.totalIn /\ t.totalRefunded = s.totalRefunded
  /\ Len(t.quotes) \in {Len(s.quotes), Len(s.quotes) + 1}
  /\ DOMAIN t.certs = DOMAIN s.certs
  /\ \A id \in DOMAIN s.certs :
       /\ t.certs[id].buyer = s.certs[id].buyer
       /\ t.certs[id].premium = s.certs[id].premium
       /\ t.certs[id].capUp = s.certs[id].capUp
       /\ t.certs[id].capDown = s.certs[id].capDown
       /\ t.certs[id].status = s.certs[id].status
       /\ t.certs[id].settlement = s.certs[id].settlement
       /\ s.certs[id].feeCheckpoint \subseteq t.certs[id].feeCheckpoint

LEMMA StepCases ==
  ASSUME TypeOK, [Next]_vars
  PROVE  \/ Quiet(state, state')
         \/ \E p \in Transfers : ObservePayment(p)
         \/ \E i \in DOMAIN state.payments : RefundPayment(i)
         \/ \E id \in DOMAIN state.certs, fees \in Fees :
              \E payoffRaw \in RawPayoffs(state.certs[id]) : Settle(id, payoffRaw, fees)
<1>1. StateTypeOk(state)
  BY DEF TypeOK
<1>2. ASSUME state'.payments = state.payments, state'.totalIn = state.totalIn,
             state'.totalRefunded = state.totalRefunded, state'.certs = state.certs,
             Len(state'.quotes) \in {Len(state.quotes), Len(state.quotes) + 1}
      PROVE  Quiet(state, state')
  BY <1>2 DEF Quiet
<1>3. Tick \/ UNCHANGED vars => Quiet(state, state')
  BY <1>2 DEF Tick, vars
<1>4. ASSUME NEW paused \in BOOLEAN, SetPaused(paused) PROVE Quiet(state, state')
  <2>1. state' = [state EXCEPT !.paused = paused]
    BY <1>4 DEF SetPaused, Commit
  <2>2. QED
    BY <1>1, <1>2, <2>1, StateFields DEF StateTypeOk
<1>5. ASSUME NEW m \in Mints, NEW w \in Wallets, NEW terms \in Terms,
             NEW regimeUpdatedAt \in 0..now, IssueQuote(m, w, terms, regimeUpdatedAt)
      PROVE  Quiet(state, state')
  <2>1. PICK quote : state' = [state EXCEPT !.quotes = Append(@, quote)]
    BY <1>5 DEF IssueQuote, Commit
  <2>2. /\ state'.payments = state.payments /\ state'.totalIn = state.totalIn
        /\ state'.totalRefunded = state.totalRefunded /\ state'.certs = state.certs
        /\ state'.quotes = Append(state.quotes, quote)
    BY <1>1, <2>1, StateFields DEF StateTypeOk
  <2>3. Len(state'.quotes) = Len(state.quotes) + 1
    BY <1>1, <2>2, StateFields
  <2>4. QED
    BY <1>2, <2>2, <2>3
<1>6. ASSUME NEW id \in DOMAIN state.certs, NEW checkpoint \in Checkpoints,
             RecordFeeCheckpoint(id, checkpoint)
      PROVE  Quiet(state, state')
  <2>1. /\ state' = [state EXCEPT !.certs[id].feeCheckpoint = {checkpoint}]
        /\ state.certs[id].feeCheckpoint = {}
    BY <1>6 DEF RecordFeeCheckpoint, Commit
  <2>2. state.certs[id] \in Certificate
    BY <1>1, CertificateAmounts
  <2>3. /\ state'.payments = state.payments /\ state'.quotes = state.quotes
        /\ state'.totalIn = state.totalIn /\ state'.totalRefunded = state.totalRefunded
        /\ DOMAIN state'.certs = DOMAIN state.certs
        /\ \A k \in DOMAIN state.certs :
             state'.certs[k] = IF k = id
                               THEN [state.certs[id] EXCEPT !.feeCheckpoint = {checkpoint}]
                               ELSE state.certs[k]
    BY <1>1, <2>1, StateFields DEF StateTypeOk
  <2>4. ASSUME NEW k \in DOMAIN state.certs
        PROVE  /\ state'.certs[k].buyer = state.certs[k].buyer
               /\ state'.certs[k].premium = state.certs[k].premium
               /\ state'.certs[k].capUp = state.certs[k].capUp
               /\ state'.certs[k].capDown = state.certs[k].capDown
               /\ state'.certs[k].status = state.certs[k].status
               /\ state'.certs[k].settlement = state.certs[k].settlement
               /\ state.certs[k].feeCheckpoint \subseteq state'.certs[k].feeCheckpoint
    BY <2>1, <2>2, <2>3 DEF Certificate
  <2>5. QED
    BY <2>3, <2>4 DEF Quiet
<1>7. ASSUME LapseExpiredQuotes PROVE Quiet(state, state')
  <2>1. state' = [state EXCEPT !.quotes = Lapsed(@, ExpiredOpenQuotes)]
    BY <1>7 DEF LapseExpiredQuotes, Commit
  <2>2. /\ state'.payments = state.payments /\ state'.totalIn = state.totalIn
        /\ state'.totalRefunded = state.totalRefunded /\ state'.certs = state.certs
        /\ state'.quotes = Lapsed(state.quotes, ExpiredOpenQuotes)
    BY <1>1, <2>1, StateFields DEF StateTypeOk
  <2>3. Len(state'.quotes) = Len(state.quotes)
    BY <1>1, <2>2, StateFields, LapsedType
  <2>4. QED
    BY <1>2, <2>2, <2>3
<1>8. QED
  BY <1>3, <1>4, <1>5, <1>6, <1>7 DEF Next

-----------------------------------------------------------------------------
(* A settlement is covered *)

\* One term of a sum over the active certificates is at most the sum.
LEMMA ActiveTermAtMostSum ==
  ASSUME NEW s, StateTypeOk(s), NEW weight,
         \A id \in DOMAIN s.certs : weight[id] \in Nat,
         NEW k, IsActive(s, k)
  PROVE  weight[k] <= SumActive(s, weight)
<1> DEFINE n == Len(s.quotes)
           f == ActiveTerms(s, weight)
           g == [id \in 1..n |-> IF id = k THEN 0 ELSE f[id]]
<1>1. /\ n \in Nat /\ SumActive(s, weight) = Sum(n, f) /\ DOMAIN s.quotes = 1..n
      /\ \A id \in 1..n : f[id] \in Nat /\ f[id] = IF IsActive(s, id) THEN weight[id] ELSE 0
  BY ActiveTermsType
<1>2. k \in 1..n
  BY <1>1, StateFields DEF IsActive
<1> HIDE DEF f
<1>3. \A id \in 1..n : f[id] \in Int /\ g[id] \in Int /\ (id # k => g[id] = f[id])
  BY <1>1
<1>4. \A id \in 1..n : g[id] \in Nat
  BY <1>1
<1>5. g[k] = 0 /\ f[k] = weight[k]
  BY <1>1, <1>2
<1> HIDE DEF g
<1>6. Sum(n, g) = Sum(n, f) - f[k] + g[k]
  BY <1>1, <1>2, <1>3, SumUpdate
<1>7. Sum(n, g) \in Nat /\ Sum(n, f) \in Nat /\ f[k] \in Nat
  BY <1>1, <1>2, <1>4, SumNat
<1>8. QED
  BY <1>1, <1>5, <1>6, <1>7

\* The last check of settle() never refuses: what a certificate may be owed at
\* any price is in the treasury, beside the payments not yet decided on.
THEOREM LedgerSettlementCovered == Spec => []SettlementCovered
<1>1. TypeOK /\ SolventState(state) => SettlementCovered
  <2> SUFFICES ASSUME TypeOK, SolventState(state),
                      NEW id \in DOMAIN state.certs, IsActive(state, id),
                      NEW fees \in Fees, NEW payoffRaw \in RawPayoffs(state.certs[id])
               PROVE  SettlementOf(state.certs[id], payoffRaw, fees).amount
                        <= state.treasury - UnmatchedFloat(state)
    BY DEF SettlementCovered
  <2> DEFINE c    == state.certs[id]
             st   == SettlementOf(c, payoffRaw, fees)
             both == [k \in DOMAIN state.certs |->
                        state.certs[k].capDown + state.certs[k].capUp]
  <2>1. StateTypeOk(state)
    BY DEF TypeOK
  <2>2. c \in Certificate /\ c.capUp \in Nat /\ c.capDown \in Nat /\ fees \in Nat
    BY <2>1, CertificateAmounts, AmountsAssumption
  <2>3. payoffRaw \in Int
    BY <2>2, RawPayoffType
  <2>4. st.amount \in 0..(c.capDown + c.capUp)
    <3> HIDE DEF c
    <3>1. QED
      BY <2>2, <2>3, SettlementFormula
  <2>5. \A k \in DOMAIN state.certs : both[k] \in Nat
    BY <2>1, CertificateAmounts
  <2>6. both[id] = c.capDown + c.capUp /\ WorstObligations(state) = SumActive(state, both)
    BY DEF WorstObligations
  <2> HIDE DEF both
  <2>7. c.capDown + c.capUp <= WorstObligations(state)
    BY <2>1, <2>5, <2>6, ActiveTermAtMostSum
  <2>8. state.treasury \in Int /\ UnmatchedFloat(state) \in Nat
    BY <2>1, AccountsTypes
  <2>9. WorstObligations(state) \in Nat
    BY <2>1, <2>5, <2>6, ActiveTermsType
  <2> HIDE DEF st, c
  <2>10. st.amount <= state.treasury - UnmatchedFloat(state)
    BY <2>2, <2>4, <2>7, <2>8, <2>9 DEF SolventState
  <2>11. QED
    BY <2>10 DEF st, c
<1>2. QED
  BY <1>1, LedgerTypeOK, LedgerSolvent, PTL

-----------------------------------------------------------------------------
(* What the steps that move money make of the records *)

LEMMA ReceivedFields ==
  ASSUME NEW s, StateTypeOk(s), NEW p
  PROVE  LET t == Received(s, p)
         IN  /\ t.payments = Append(s.payments, p) /\ t.totalIn = s.totalIn + p.amount
             /\ t.quotes = s.quotes /\ t.certs = s.certs
             /\ t.totalRefunded = s.totalRefunded
BY StateFields DEF Received, StateTypeOk

\* An activation adds a certificate on the terms of the quote it consumes.
LEMMA ActivatedSells ==
  ASSUME now \in Nat, NEW s, StateTypeOk(s), NEW p, p.ref \in DOMAIN s.quotes,
         p.ref \notin DOMAIN s.certs
  PROVE  LET t == Activated(s, p)
             q == s.quotes[p.ref]
         IN  /\ StateTypeOk(t)
             /\ Len(t.quotes) = Len(s.quotes)
             /\ DOMAIN t.certs = DOMAIN s.certs \cup {p.ref}
             /\ \A id \in DOMAIN s.certs : t.certs[id] = s.certs[id]
             /\ t.certs[p.ref].buyer = q.owner /\ t.certs[p.ref].status = "active"
             /\ t.certs[p.ref].premium = q.premium
             /\ t.certs[p.ref].capUp = q.capUp /\ t.certs[p.ref].capDown = q.capDown
             /\ q.premium \in Nat /\ q.capUp \in Nat /\ q.capDown \in Nat
<1> DEFINE t  == Activated(s, p)
           id == p.ref
           q  == s.quotes[id]
<1>1. StateTypeOk(t)
  BY ActivatedKeepsType
<1>2. s.quotes \in Seq(Quote) /\ q \in Quote
  BY StateFields
<1>3. /\ t.quotes = [s.quotes EXCEPT ![id].status = "consumed"]
      /\ t.certs = WithCertificate(s.certs, id, NewCertificate(q))
  BY ActivatedFields
<1> HIDE DEF t
<1>4. Len(t.quotes) = Len(s.quotes)
  <2>1. id \in DOMAIN s.quotes
    OBVIOUS
  <2> HIDE DEF id, q
  <2>2. QED
    BY <1>2, <1>3, <2>1, ConsumedType
<1>5. q.premium \in Nat /\ q.capUp \in Nat /\ q.capDown \in Nat
  BY <1>2 DEF Quote
<1>6. /\ DOMAIN t.certs = DOMAIN s.certs \cup {id}
      /\ t.certs[id] = NewCertificate(q)
      /\ \A k \in DOMAIN s.certs : t.certs[k] = s.certs[k]
  BY <1>3 DEF WithCertificate
<1>7. /\ t.certs[id].buyer = q.owner /\ t.certs[id].status = "active"
      /\ t.certs[id].premium = q.premium
      /\ t.certs[id].capUp = q.capUp /\ t.certs[id].capDown = q.capDown
  BY <1>6 DEF NewCertificate
<1>8. QED
  BY <1>1, <1>4, <1>5, <1>6, <1>7 DEF t

LEMMA RefundFields ==
  ASSUME TypeOK, NEW i \in DOMAIN state.payments, RefundPayment(i)
  PROVE  /\ ~state.payments[i].matched /\ state.payments[i].amount \in Nat
         /\ state'.payments = Matched(state.payments, state.payments[i].tx)
         /\ state'.totalIn = state.totalIn
         /\ state'.totalRefunded = state.totalRefunded + state.payments[i].amount
         /\ state'.quotes = state.quotes /\ state'.certs = state.certs
<1>1. StateTypeOk(state)
  BY DEF TypeOK
<1>2. /\ ~state.payments[i].matched
      /\ state' = [state EXCEPT !.payments = Matched(@, state.payments[i].tx),
                                !.treasury = @ - state.payments[i].amount,
                                !.totalRefunded = @ + state.payments[i].amount]
  BY DEF RefundPayment, Commit
<1>3. state.payments[i].amount \in Nat
  BY <1>1, FloatTermsType
<1>4. QED
  BY <1>1, <1>2, <1>3, StateFields DEF StateTypeOk

\* A settlement ends one active certificate and changes neither its terms nor
\* another certificate.
LEMMA SettleFields ==
  ASSUME TypeOK, NEW id \in DOMAIN state.certs, NEW fees \in Fees,
         NEW payoffRaw \in RawPayoffs(state.certs[id]), Settle(id, payoffRaw, fees)
  PROVE  /\ IsActive(state, id) /\ ~IsActive(state', id)
         /\ state'.payments = state.payments /\ state'.quotes = state.quotes
         /\ state'.totalIn = state.totalIn /\ state'.totalRefunded = state.totalRefunded
         /\ DOMAIN state'.certs = DOMAIN state.certs
         /\ \A k \in DOMAIN state.certs : k # id => state'.certs[k] = state.certs[k]
         /\ state'.certs[id].buyer = state.certs[id].buyer
         /\ state'.certs[id].premium = state.certs[id].premium
         /\ state'.certs[id].capUp = state.certs[id].capUp
         /\ state'.certs[id].capDown = state.certs[id].capDown
         /\ state'.certs[id].feeCheckpoint = state.certs[id].feeCheckpoint
<1> DEFINE st == SettlementOf(state.certs[id], payoffRaw, fees)
<1>1. StateTypeOk(state)
  BY DEF TypeOK
<1>2. /\ IsActive(state, id)
      /\ state' = [state EXCEPT !.certs[id].status = FinalStatus(st),
                                !.certs[id].settlement = {st},
                                !.treasury = @ - st.amount,
                                !.totalSettled = @ + st.amount]
  BY DEF Settle, Commit, IsDue
<1> HIDE DEF st
<1>3. state.certs[id] \in Certificate
  BY <1>1, CertificateAmounts
<1>4. /\ state'.payments = state.payments /\ state'.quotes = state.quotes
      /\ state'.totalIn = state.totalIn /\ state'.totalRefunded = state.totalRefunded
      /\ DOMAIN state'.certs = DOMAIN state.certs
      /\ \A k \in DOMAIN state.certs : k # id => state'.certs[k] = state.certs[k]
      /\ state'.certs[id].status = FinalStatus(st)
      /\ state'.certs[id].buyer = state.certs[id].buyer
      /\ state'.certs[id].premium = state.certs[id].premium
      /\ state'.certs[id].capUp = state.certs[id].capUp
      /\ state'.certs[id].capDown = state.certs[id].capDown
      /\ state'.certs[id].feeCheckpoint = state.certs[id].feeCheckpoint
  BY <1>1, <1>2, <1>3, StateFields DEF StateTypeOk, Certificate
<1>5. ~IsActive(state', id)
  BY <1>4 DEF IsActive, FinalStatus
<1>6. QED
  BY <1>2, <1>4, <1>5

-----------------------------------------------------------------------------
(* The exposure of one buyer *)

BuyerCaps(s, w) ==
  [id \in DOMAIN s.certs |-> IF s.certs[id].buyer = w THEN s.certs[id].capDown ELSE 0]

LEMMA BuyerCapsType ==
  ASSUME NEW s, StateTypeOk(s), NEW w
  PROVE  /\ \A id \in DOMAIN s.certs : BuyerCaps(s, w)[id] \in Nat
         /\ BuyerExposure(s, w) = SumActive(s, BuyerCaps(s, w))
         /\ BuyerExposure(s, w) \in Nat
<1>1. \A id \in DOMAIN s.certs : BuyerCaps(s, w)[id] \in Nat
  BY CertificateAmounts DEF BuyerCaps
<1>2. BuyerExposure(s, w) = SumActive(s, BuyerCaps(s, w))
  BY DEF BuyerExposure, BuyerCaps
<1>3. SumActive(s, BuyerCaps(s, w)) \in Nat
  BY <1>1, ActiveTermsType
<1>4. QED
  BY <1>1, <1>2, <1>3

LEMMA BuyerExposureStays ==
  ASSUME NEW s, StateTypeOk(s), NEW t, StateTypeOk(t), NEW w,
         Len(t.quotes) \in {Len(s.quotes), Len(s.quotes) + 1},
         DOMAIN t.certs = DOMAIN s.certs,
         \A id \in DOMAIN s.certs : /\ t.certs[id].status = s.certs[id].status
                                    /\ t.certs[id].buyer = s.certs[id].buyer
                                    /\ t.certs[id].capDown = s.certs[id].capDown
  PROVE  BuyerExposure(t, w) = BuyerExposure(s, w)
<1>1. \A id : IsActive(t, id) <=> IsActive(s, id)
  BY DEF IsActive
<1>2. \A id : IsActive(s, id) => BuyerCaps(t, w)[id] = BuyerCaps(s, w)[id]
  BY DEF IsActive, BuyerCaps
<1>3. SumActive(t, BuyerCaps(t, w)) = SumActive(s, BuyerCaps(s, w))
  BY <1>1, <1>2, BuyerCapsType, SumActiveSame
<1>4. QED
  BY <1>3, BuyerCapsType

\* A certificate that becomes active adds its cap to the exposure of its buyer.
LEMMA BuyerExposureGrows ==
  ASSUME NEW s, StateTypeOk(s), NEW t, StateTypeOk(t), NEW w,
         Len(t.quotes) = Len(s.quotes),
         NEW k, ~IsActive(s, k), IsActive(t, k),
         \A id : id # k => (IsActive(t, id) <=> IsActive(s, id)),
         \A id : IsActive(s, id) => /\ t.certs[id].buyer = s.certs[id].buyer
                                    /\ t.certs[id].capDown = s.certs[id].capDown
  PROVE  BuyerExposure(t, w)
           = BuyerExposure(s, w) + IF t.certs[k].buyer = w THEN t.certs[k].capDown ELSE 0
<1>1. \A id : IsActive(s, id) => BuyerCaps(t, w)[id] = BuyerCaps(s, w)[id]
  <2>1. \A id : IsActive(s, id) => IsActive(t, id)
    OBVIOUS
  <2>2. QED
    BY <2>1 DEF IsActive, BuyerCaps
<1>2. BuyerCaps(t, w)[k] = IF t.certs[k].buyer = w THEN t.certs[k].capDown ELSE 0
  BY DEF IsActive, BuyerCaps
<1>3. SumActive(t, BuyerCaps(t, w)) = SumActive(s, BuyerCaps(s, w)) + BuyerCaps(t, w)[k]
  BY <1>1, BuyerCapsType, SumActiveMore
<1>4. QED
  BY <1>2, <1>3, BuyerCapsType

LEMMA BuyerLimitStep ==
  ASSUME TypeOK, TypeOK', BuyerWithinLimit, [Next]_vars
  PROVE  BuyerWithinLimit'
<1> SUFFICES ASSUME PerBuyerCapLimit > 0, NEW w \in Wallets
             PROVE  BuyerExposure(state', w) <= PerBuyerCapLimit
  BY DEF BuyerWithinLimit
<1>1. /\ now \in Nat /\ StateTypeOk(state) /\ StateTypeOk(state')
      /\ PerBuyerCapLimit \in Nat
  BY ConfigAssumption DEF TypeOK
<1>2. BuyerExposure(state, w) <= PerBuyerCapLimit
  BY DEF BuyerWithinLimit
<1>3. ASSUME Len(state'.quotes) \in {Len(state.quotes), Len(state.quotes) + 1},
             DOMAIN state'.certs = DOMAIN state.certs,
             \A id \in DOMAIN state.certs :
               /\ state'.certs[id].status = state.certs[id].status
               /\ state'.certs[id].buyer = state.certs[id].buyer
               /\ state'.certs[id].capDown = state.certs[id].capDown
      PROVE  BuyerExposure(state', w) <= PerBuyerCapLimit
  BY <1>1, <1>2, <1>3, BuyerExposureStays
<1>4. CASE Quiet(state, state')
  BY <1>3, <1>4 DEF Quiet
<1>5. ASSUME NEW p \in Transfers, ObservePayment(p)
      PROVE  BuyerExposure(state', w) <= PerBuyerCapLimit
  <2> DEFINE r == Received(state, p)
             t == Activated(r, p)
             q == r.quotes[p.ref]
  <2>1. StateTypeOk(r) /\ (state' = r \/ (CanActivate(r, p) /\ state' = t))
    BY <1>1, <1>5, ObserveCases
  <2>2. r.quotes = state.quotes /\ r.certs = state.certs
    BY <1>1, ReceivedFields
  <2> HIDE DEF r
  <2>3. CASE state' = r
    BY <1>3, <2>2, <2>3
  <2>4. CASE CanActivate(r, p) /\ state' = t
    <3>1. /\ p.ref \in DOMAIN r.quotes /\ p.ref \notin DOMAIN r.certs
          /\ p.sender = q.owner
          /\ BuyerExposure(r, p.sender) + q.capDown <= PerBuyerCapLimit
      BY <2>4 DEF CanActivate, WithinBuyerLimit
    <3>2. /\ Len(t.quotes) = Len(r.quotes) /\ StateTypeOk(t)
          /\ DOMAIN t.certs = DOMAIN r.certs \cup {p.ref}
          /\ \A id \in DOMAIN r.certs : t.certs[id] = r.certs[id]
          /\ t.certs[p.ref].buyer = q.owner /\ t.certs[p.ref].status = "active"
          /\ t.certs[p.ref].capDown = q.capDown
          /\ q.capDown \in Nat
      BY <1>1, <2>1, <3>1, ActivatedSells
    <3> HIDE DEF t, q
    <3>3. /\ ~IsActive(r, p.ref) /\ IsActive(t, p.ref)
          /\ \A id : id # p.ref => (IsActive(t, id) <=> IsActive(r, id))
          /\ \A id : IsActive(r, id) => /\ t.certs[id].buyer = r.certs[id].buyer
                                        /\ t.certs[id].capDown = r.certs[id].capDown
      BY <3>1, <3>2 DEF IsActive
    <3>4. BuyerExposure(t, w)
            = BuyerExposure(r, w) + IF t.certs[p.ref].buyer = w THEN t.certs[p.ref].capDown
                                                                ELSE 0
      BY <2>1, <3>2, <3>3, BuyerExposureGrows
    <3>5. BuyerExposure(r, w) = BuyerExposure(state, w)
      BY <1>1, <2>1, <2>2, BuyerExposureStays
    <3>6. BuyerExposure(r, w) \in Nat
      BY <2>1, BuyerCapsType
    <3>7. CASE w = q.owner
      BY <2>4, <3>1, <3>2, <3>4, <3>7
    <3>8. CASE w # q.owner
      BY <1>2, <2>4, <3>2, <3>4, <3>5, <3>6, <3>8
    <3>9. QED
      BY <3>7, <3>8
  <2>5. QED
    BY <2>1, <2>3, <2>4
<1>6. ASSUME NEW i \in DOMAIN state.payments, RefundPayment(i)
      PROVE  BuyerExposure(state', w) <= PerBuyerCapLimit
  <2>1. state'.quotes = state.quotes /\ state'.certs = state.certs
    BY <1>6, RefundFields
  <2>2. QED
    BY <1>3, <2>1
<1>7. ASSUME NEW id \in DOMAIN state.certs, NEW fees \in Fees,
             NEW payoffRaw \in RawPayoffs(state.certs[id]), Settle(id, payoffRaw, fees)
      PROVE  BuyerExposure(state', w) <= PerBuyerCapLimit
  <2>1. /\ IsActive(state, id) /\ ~IsActive(state', id)
        /\ state'.quotes = state.quotes
        /\ DOMAIN state'.certs = DOMAIN state.certs
        /\ \A k \in DOMAIN state.certs : k # id => state'.certs[k] = state.certs[k]
        /\ state'.certs[id].buyer = state.certs[id].buyer
        /\ state'.certs[id].capDown = state.certs[id].capDown
    BY <1>7, SettleFields
  <2>2. /\ \A k : k # id => (IsActive(state, k) <=> IsActive(state', k))
        /\ \A k : IsActive(state', k) => /\ state.certs[k].buyer = state'.certs[k].buyer
                                         /\ state.certs[k].capDown = state'.certs[k].capDown
    BY <2>1 DEF IsActive
  <2>3. Len(state.quotes) = Len(state'.quotes)
    BY <2>1
  <2>4. BuyerExposure(state, w)
          = BuyerExposure(state', w)
            + IF state.certs[id].buyer = w THEN state.certs[id].capDown ELSE 0
    BY <1>1, <2>1, <2>2, <2>3, BuyerExposureGrows
  <2>5. /\ BuyerExposure(state, w) \in Nat /\ BuyerExposure(state', w) \in Nat
        /\ state.certs[id].capDown \in Nat
    BY <1>1, BuyerCapsType, CertificateAmounts
  <2>6. QED
    BY <1>1, <1>2, <2>4, <2>5
<1>8. QED
  BY <1>4, <1>5, <1>6, <1>7, StepCases

\* FR-H9: however many quotes were open when the cap was computed, no buyer is
\* ever protected for more than the cap per buyer.
THEOREM LedgerBuyerLimit == Spec => []BuyerWithinLimit
<1>1. Init => BuyerWithinLimit
  <2> SUFFICES ASSUME Init, PerBuyerCapLimit > 0, NEW w \in Wallets
               PROVE  BuyerExposure(state, w) <= PerBuyerCapLimit
    BY DEF BuyerWithinLimit
  <2>1. Len(state.quotes) = 0
    BY DEF Init, OpenedState
  <2>2. BuyerExposure(state, w) = 0
    BY <2>1, SumZero DEF BuyerExposure, SumActive
  <2>3. QED
    BY <2>2, ConfigAssumption
<1>2. TypeOK /\ TypeOK' /\ BuyerWithinLimit /\ [Next]_vars => BuyerWithinLimit'
  BY BuyerLimitStep
<1>3. QED
  BY <1>1, <1>2, LedgerTypeOK, PTL DEF Spec

-----------------------------------------------------------------------------
(* Every inflow is accounted for *)

\* The price of every certificate ever sold.
SoldTerms(s) ==
  [id \in DOMAIN s.quotes |->
     IF id \in DOMAIN s.certs THEN s.certs[id].premium + s.certs[id].capUp ELSE 0]

Sold(s) == Sum(Len(s.quotes), SoldTerms(s))

LEMMA SoldTermsType ==
  ASSUME NEW s, StateTypeOk(s)
  PROVE  /\ Len(s.quotes) \in Nat /\ DOMAIN s.quotes = 1..Len(s.quotes)
         /\ \A id \in 1..Len(s.quotes) :
              /\ SoldTerms(s)[id] \in Nat
              /\ SoldTerms(s)[id] = IF id \in DOMAIN s.certs
                                    THEN s.certs[id].premium + s.certs[id].capUp ELSE 0
         /\ Sold(s) \in Nat
<1>1. Len(s.quotes) \in Nat /\ DOMAIN s.quotes = 1..Len(s.quotes)
  BY StateFields
<1>2. \A id \in 1..Len(s.quotes) :
        SoldTerms(s)[id] = IF id \in DOMAIN s.certs
                           THEN s.certs[id].premium + s.certs[id].capUp ELSE 0
  BY <1>1 DEF SoldTerms
<1>3. ASSUME NEW id \in DOMAIN s.certs PROVE s.certs[id].premium + s.certs[id].capUp \in Nat
  <2>1. s.certs[id] \in Certificate
    BY StateFields
  <2>2. s.certs[id].premium \in Nat /\ s.certs[id].capUp \in Nat
    BY <2>1 DEF Certificate
  <2>3. QED
    BY <2>2
<1>4. \A id \in 1..Len(s.quotes) : SoldTerms(s)[id] \in Nat
  BY <1>2, <1>3
<1>5. Sold(s) \in Nat
  BY <1>1, <1>4, SumNat DEF Sold
<1>6. QED
  BY <1>1, <1>2, <1>4, <1>5

\* Nothing is sold: the price of what was sold stays, also when a quote is added.
LEMMA SoldStays ==
  ASSUME NEW s, StateTypeOk(s), NEW t, StateTypeOk(t),
         Len(t.quotes) \in {Len(s.quotes), Len(s.quotes) + 1},
         DOMAIN t.certs = DOMAIN s.certs,
         \A id \in DOMAIN s.certs : /\ t.certs[id].premium = s.certs[id].premium
                                    /\ t.certs[id].capUp = s.certs[id].capUp
  PROVE  Sold(t) = Sold(s)
<1> DEFINE n == Len(s.quotes)
           f == SoldTerms(s)
           g == SoldTerms(t)
<1>1. /\ n \in Nat /\ DOMAIN s.quotes = 1..n /\ Sold(s) \in Nat
      /\ \A id \in 1..n :
           f[id] = IF id \in DOMAIN s.certs THEN s.certs[id].premium + s.certs[id].capUp
                                            ELSE 0
  BY SoldTermsType
<1>2. \A id \in 1..Len(t.quotes) :
        g[id] = IF id \in DOMAIN t.certs THEN t.certs[id].premium + t.certs[id].capUp ELSE 0
  BY SoldTermsType
<1>3. DOMAIN s.certs \subseteq 1..n
  BY <1>1, StateFields
<1> HIDE DEF f, g
<1>4. \A id \in 1..n : f[id] = g[id]
  BY <1>1, <1>2
<1>5. Sum(n, g) = Sum(n, f)
  BY <1>1, <1>4, SumAgree
<1>6. CASE Len(t.quotes) = n
  BY <1>5, <1>6 DEF Sold, f, g
<1>7. CASE Len(t.quotes) = n + 1
  <2>1. n + 1 \notin DOMAIN t.certs
    BY <1>1, <1>3
  <2>2. g[n + 1] = 0
    BY <1>1, <1>2, <1>7, <2>1
  <2>3. Sum(n + 1, g) = Sum(n, g) + g[n + 1]
    BY <1>1, SumStep
  <2>4. Sold(t) = Sum(n + 1, g) /\ Sold(s) = Sum(n, f)
    BY <1>7 DEF Sold, f, g
  <2>5. QED
    BY <1>1, <1>5, <2>2, <2>3, <2>4
<1>8. QED
  BY <1>6, <1>7

\* A certificate sold adds its price.
LEMMA SoldGrows ==
  ASSUME NEW s, StateTypeOk(s), NEW t, StateTypeOk(t), Len(t.quotes) = Len(s.quotes),
         NEW k, k \notin DOMAIN s.certs, DOMAIN t.certs = DOMAIN s.certs \cup {k},
         \A id \in DOMAIN s.certs : t.certs[id] = s.certs[id]
  PROVE  Sold(t) = Sold(s) + (t.certs[k].premium + t.certs[k].capUp)
<1> DEFINE n == Len(s.quotes)
           f == SoldTerms(s)
           g == SoldTerms(t)
<1>1. /\ n \in Nat /\ Sold(s) \in Nat
      /\ \A id \in 1..n :
           /\ f[id] \in Int
           /\ f[id] = IF id \in DOMAIN s.certs THEN s.certs[id].premium + s.certs[id].capUp
                                               ELSE 0
  BY SoldTermsType
<1>2. /\ DOMAIN t.quotes = 1..n
      /\ \A id \in 1..n :
           /\ g[id] \in Int
           /\ g[id] = IF id \in DOMAIN t.certs THEN t.certs[id].premium + t.certs[id].capUp
                                               ELSE 0
  BY SoldTermsType
<1>3. k \in 1..n
  BY <1>2, StateFields
<1> HIDE DEF f, g
<1>4. \A id \in 1..n : f[id] \in Int /\ g[id] \in Int /\ (id # k => g[id] = f[id])
  BY <1>1, <1>2
<1>5. Sum(n, g) = Sum(n, f) - f[k] + g[k]
  <2>1. n \in Nat
    BY <1>1
  <2> HIDE DEF n
  <2>2. QED
    BY <1>3, <1>4, <2>1, SumUpdate
<1>6. f[k] = 0 /\ g[k] = t.certs[k].premium + t.certs[k].capUp /\ g[k] \in Int
  BY <1>1, <1>2, <1>3
<1>7. Sold(t) = Sum(n, g) /\ Sold(s) = Sum(n, f)
  BY DEF Sold, f, g
<1>8. QED
  BY <1>1, <1>5, <1>6, <1>7

LEMMA InflowsSold ==
  InflowsAccounted <=>
    state.totalIn = UnmatchedFloat(state) + state.totalRefunded + Sold(state)
BY DEF InflowsAccounted, Sold, SoldTerms

LEMMA InflowsStep ==
  ASSUME AccountingInv, TypeOK', InflowsAccounted, [Next]_vars
  PROVE  InflowsAccounted'
<1> DEFINE Goal == state'.totalIn
                     = UnmatchedFloat(state') + state'.totalRefunded + Sold(state')
<1>1. /\ now \in Nat /\ StateTypeOk(state) /\ StateTypeOk(state') /\ UniqueTx(state)
      /\ TypeOK
  BY ConfigAssumption DEF AccountingInv, TypeOK
<1>2. /\ state.totalIn = UnmatchedFloat(state) + state.totalRefunded + Sold(state)
      /\ state.totalIn \in Nat /\ state.totalRefunded \in Nat
      /\ UnmatchedFloat(state) \in Nat /\ Sold(state) \in Nat
  BY <1>1, StateFields, FloatTermsType, SoldTermsType, InflowsSold
<1>3. CASE Quiet(state, state')
  <2>1. UnmatchedFloat(state') = UnmatchedFloat(state)
    BY <1>3 DEF Quiet, UnmatchedFloat
  <2>2. Sold(state') = Sold(state)
    BY <1>1, <1>3, SoldStays DEF Quiet
  <2>3. Goal
    BY <1>2, <1>3, <2>1, <2>2 DEF Quiet
  <2>4. QED
    BY <2>3 DEF InflowsAccounted, Sold, SoldTerms
<1>4. ASSUME NEW p \in Transfers, ObservePayment(p) PROVE Goal
  <2> DEFINE r == Received(state, p)
             t == Activated(r, p)
             q == r.quotes[p.ref]
  <2>1. /\ p \in Payment /\ ~p.matched /\ StateTypeOk(r)
        /\ \E k \in DOMAIN r.payments : r.payments[k] = p
        /\ state' = r \/ (CanActivate(r, p) /\ state' = t)
    BY <1>1, <1>4, ObserveCases
  <2>2. p.amount \in Nat
    BY <2>1 DEF Payment
  <2>3. /\ r.quotes = state.quotes /\ r.certs = state.certs
        /\ r.totalIn = state.totalIn + p.amount /\ r.totalRefunded = state.totalRefunded
    BY <1>1, ReceivedFields
  <2>4. UnmatchedFloat(r) = UnmatchedFloat(state) + p.amount
    BY <1>1, <2>1, FloatReceives
  <2>5. UniqueTx(r)
    BY <1>1, <1>4, <2>1, UniqueTxReceived DEF ObservePayment
  <2> HIDE DEF r
  <2>6. Sold(r) = Sold(state)
    BY <1>1, <2>1, <2>3, SoldStays
  <2>7. CASE state' = r
    BY <1>2, <2>2, <2>3, <2>4, <2>6, <2>7
  <2>8. CASE CanActivate(r, p) /\ state' = t
    <3>1. /\ p.ref \in DOMAIN r.quotes /\ p.ref \notin DOMAIN r.certs
          /\ p.amount = TotalPayable(q)
      BY <2>8 DEF CanActivate
    <3>2. /\ Len(t.quotes) = Len(r.quotes) /\ StateTypeOk(t)
          /\ DOMAIN t.certs = DOMAIN r.certs \cup {p.ref}
          /\ \A id \in DOMAIN r.certs : t.certs[id] = r.certs[id]
          /\ t.certs[p.ref].premium = q.premium /\ t.certs[p.ref].capUp = q.capUp
      BY <1>1, <2>1, <3>1, ActivatedSells
    <3>3. /\ t.payments = Matched(r.payments, p.tx)
          /\ t.totalIn = r.totalIn /\ t.totalRefunded = r.totalRefunded
      BY <2>1, ActivatedFields, ZenonT(30)
    <3>4. UnmatchedFloat(t) = UnmatchedFloat(r) - p.amount
      BY <2>1, <2>5, <3>2, <3>3, FloatMatches
    <3>5. p.amount = q.premium + q.capUp
      BY <3>1 DEF TotalPayable
    <3> HIDE DEF t, q
    <3>6. Sold(t) = Sold(r) + (t.certs[p.ref].premium + t.certs[p.ref].capUp)
      BY <2>1, <3>1, <3>2, SoldGrows
    <3>7. Sold(t) = Sold(r) + p.amount
      BY <3>2, <3>5, <3>6
    <3>8. QED
      BY <1>2, <2>2, <2>3, <2>4, <2>6, <2>8, <3>3, <3>4, <3>7
  <2>9. QED
    BY <2>1, <2>7, <2>8
<1>5. ASSUME NEW i \in DOMAIN state.payments, RefundPayment(i) PROVE Goal
  <2>1. /\ ~state.payments[i].matched /\ state.payments[i].amount \in Nat
        /\ state'.payments = Matched(state.payments, state.payments[i].tx)
        /\ state'.totalIn = state.totalIn
        /\ state'.totalRefunded = state.totalRefunded + state.payments[i].amount
        /\ state'.quotes = state.quotes /\ state'.certs = state.certs
    BY <1>1, <1>5, RefundFields
  <2>2. UnmatchedFloat(state') = UnmatchedFloat(state) - state.payments[i].amount
    BY <1>1, <2>1, FloatMatches
  <2>3. Sold(state') = Sold(state)
    BY <1>1, <2>1, SoldStays
  <2>4. QED
    BY <1>2, <2>1, <2>2, <2>3
<1>6. ASSUME NEW id \in DOMAIN state.certs, NEW fees \in Fees,
             NEW payoffRaw \in RawPayoffs(state.certs[id]), Settle(id, payoffRaw, fees)
      PROVE  Goal
  <2>1. /\ state'.payments = state.payments /\ state'.quotes = state.quotes
        /\ state'.totalIn = state.totalIn /\ state'.totalRefunded = state.totalRefunded
        /\ DOMAIN state'.certs = DOMAIN state.certs
        /\ \A k \in DOMAIN state.certs : k # id => state'.certs[k] = state.certs[k]
        /\ state'.certs[id].premium = state.certs[id].premium
        /\ state'.certs[id].capUp = state.certs[id].capUp
    BY <1>1, <1>6, SettleFields
  <2>2. UnmatchedFloat(state') = UnmatchedFloat(state)
    BY <2>1 DEF UnmatchedFloat
  <2>3. \A k \in DOMAIN state.certs : /\ state'.certs[k].premium = state.certs[k].premium
                                      /\ state'.certs[k].capUp = state.certs[k].capUp
    BY <2>1
  <2>4. Sold(state') = Sold(state)
    BY <1>1, <2>1, <2>3, SoldStays
  <2>5. QED
    BY <1>2, <2>1, <2>2, <2>4
<1>7. Goal => InflowsAccounted'
  BY DEF InflowsAccounted, Sold, SoldTerms
<1>8. QED
  BY <1>1, <1>3, <1>4, <1>5, <1>6, <1>7, StepCases

\* Every micro-USDC received is waiting for a decision, was refunded, or bought
\* exactly one certificate.
THEOREM LedgerInflows == Spec => []InflowsAccounted
<1>1. Init => InflowsAccounted
  <2> SUFFICES ASSUME Init PROVE InflowsAccounted
    OBVIOUS
  <2>1. /\ Len(state.quotes) = 0 /\ Len(state.payments) = 0
        /\ state.totalIn = 0 /\ state.totalRefunded = 0
    BY DEF Init, OpenedState
  <2>2. UnmatchedFloat(state) = 0 /\ Sold(state) = 0
    BY <2>1, SumZero DEF UnmatchedFloat, Sold
  <2>3. QED
    BY <2>1, <2>2, InflowsSold
<1>2. AccountingInv /\ TypeOK' /\ InflowsAccounted /\ [Next]_vars => InflowsAccounted'
  BY InflowsStep
<1>3. IntegrityInv => AccountingInv
  BY DEF IntegrityInv
<1>4. QED
  BY <1>1, <1>2, <1>3, LedgerIntegrity, LedgerTypeOK, PTL DEF Spec

-----------------------------------------------------------------------------
(* Decisions are final *)

PaymentsFinal(s, t) ==
  \A i \in DOMAIN s.payments :
    i \in DOMAIN t.payments /\ (s.payments[i].matched => t.payments[i] = s.payments[i])

QuotesFinal(s, t) ==
  \A id \in DOMAIN s.quotes :
    /\ id \in DOMAIN t.quotes
    /\ s.quotes[id].status # "open" => t.quotes[id] = s.quotes[id]

CertificatesFinal(s, t) ==
  \A id \in DOMAIN s.certs :
    /\ id \in DOMAIN t.certs
    /\ ~IsActive(s, id) => t.certs[id].settlement = s.certs[id].settlement
    /\ s.certs[id].feeCheckpoint \subseteq t.certs[id].feeCheckpoint

LEMMA DecisionsParts ==
  ASSUME PaymentsFinal(state, state'), QuotesFinal(state, state'),
         CertificatesFinal(state, state')
  PROVE  DecisionsFinal
BY DEF DecisionsFinal, PaymentsFinal, QuotesFinal, CertificatesFinal

\* Matching never touches a payment that is already matched.
LEMMA MatchedIsFinal ==
  ASSUME NEW payments \in Seq(Payment), NEW tx, NEW i \in DOMAIN payments
  PROVE  /\ i \in DOMAIN Matched(payments, tx)
         /\ payments[i].matched => Matched(payments, tx)[i] = payments[i]
<1>1. payments[i] \in Payment
  OBVIOUS
<1>2. payments[i].matched => [payments[i] EXCEPT !.matched = TRUE] = payments[i]
  BY <1>1 DEF Payment
<1>3. QED
  BY <1>2 DEF Matched

LEMMA QuotesStep ==
  ASSUME TypeOK, [Next]_vars
  PROVE  QuotesFinal(state, state')
<1>1. StateTypeOk(state) /\ state.quotes \in Seq(Quote)
  BY StateFields DEF TypeOK
<1>2. state'.quotes = state.quotes => QuotesFinal(state, state')
  BY DEF QuotesFinal
<1>3. Tick \/ UNCHANGED vars => QuotesFinal(state, state')
  BY <1>2 DEF Tick, vars
<1>4. ASSUME NEW paused \in BOOLEAN, SetPaused(paused) PROVE QuotesFinal(state, state')
  <2>1. state'.quotes = state.quotes
    BY <1>1, <1>4, StateFields DEF SetPaused, Commit, StateTypeOk
  <2>2. QED
    BY <1>2, <2>1
<1>5. ASSUME NEW m \in Mints, NEW w \in Wallets, NEW terms \in Terms,
             NEW regimeUpdatedAt \in 0..now, IssueQuote(m, w, terms, regimeUpdatedAt)
      PROVE  QuotesFinal(state, state')
  <2>1. PICK quote : state' = [state EXCEPT !.quotes = Append(@, quote)]
    BY <1>5 DEF IssueQuote, Commit
  <2>2. state'.quotes = Append(state.quotes, quote)
    BY <1>1, <2>1, StateFields DEF StateTypeOk
  <2>3. QED
    BY <1>1, <2>2 DEF QuotesFinal
<1>6. ASSUME NEW id \in DOMAIN state.certs, NEW checkpoint \in Checkpoints,
             RecordFeeCheckpoint(id, checkpoint)
      PROVE  QuotesFinal(state, state')
  <2>1. state'.quotes = state.quotes
    BY <1>1, <1>6, StateFields DEF RecordFeeCheckpoint, Commit, StateTypeOk
  <2>2. QED
    BY <1>2, <2>1
<1>7. ASSUME LapseExpiredQuotes PROVE QuotesFinal(state, state')
  <2>1. state' = [state EXCEPT !.quotes = Lapsed(@, ExpiredOpenQuotes)]
    BY <1>7 DEF LapseExpiredQuotes, Commit
  <2>2. state'.quotes = Lapsed(state.quotes, ExpiredOpenQuotes)
    BY <1>1, <2>1, StateFields DEF StateTypeOk
  <2>3. QED
    BY <2>2 DEF QuotesFinal, Lapsed, ExpiredOpenQuotes
<1>8. ASSUME NEW p \in Transfers, ObservePayment(p) PROVE QuotesFinal(state, state')
  <2> DEFINE r == Received(state, p)
  <2>1. StateTypeOk(r) /\ (state' = r \/ (CanActivate(r, p) /\ state' = Activated(r, p)))
    BY <1>1, <1>8, ObserveCases
  <2>2. r.quotes = state.quotes
    BY <1>1, ReceivedFields
  <2> HIDE DEF r
  <2>3. CanActivate(r, p) => p.ref \in DOMAIN r.quotes /\ r.quotes[p.ref].status = "open"
    BY DEF CanActivate, IsOpen
  <2>4. Activated(r, p).quotes = [r.quotes EXCEPT ![p.ref].status = "consumed"]
    BY <2>1, ActivatedFields
  <2>5. QED
    BY <1>2, <2>1, <2>2, <2>3, <2>4 DEF QuotesFinal
<1>9. ASSUME NEW i \in DOMAIN state.payments, RefundPayment(i)
      PROVE  QuotesFinal(state, state')
  BY <1>2, <1>9, RefundFields
<1>10. ASSUME NEW id \in DOMAIN state.certs, NEW fees \in Fees,
              NEW payoffRaw \in RawPayoffs(state.certs[id]), Settle(id, payoffRaw, fees)
       PROVE  QuotesFinal(state, state')
  BY <1>2, <1>10, SettleFields
<1>11. QED
  BY <1>3, <1>4, <1>5, <1>6, <1>7, <1>8, <1>9, <1>10 DEF Next

LEMMA DecisionsStep ==
  ASSUME TypeOK, [Next]_vars
  PROVE  DecisionsFinal
<1>1. StateTypeOk(state) /\ state.payments \in Seq(Payment) /\ now \in Nat
  BY StateFields, ConfigAssumption DEF TypeOK
<1>2. QuotesFinal(state, state')
  BY QuotesStep
<1>3. CASE Quiet(state, state')
  <2>1. PaymentsFinal(state, state') /\ CertificatesFinal(state, state')
    BY <1>3 DEF Quiet, PaymentsFinal, CertificatesFinal
  <2>2. QED
    BY <1>2, <2>1, DecisionsParts
<1>4. ASSUME NEW p \in Transfers, ObservePayment(p)
      PROVE  PaymentsFinal(state, state') /\ CertificatesFinal(state, state')
  <2> DEFINE r == Received(state, p)
             t == Activated(r, p)
  <2>1. StateTypeOk(r) /\ (state' = r \/ (CanActivate(r, p) /\ state' = t))
    BY <1>1, <1>4, ObserveCases
  <2>2. r.payments = Append(state.payments, p) /\ r.certs = state.certs
    BY <1>1, ReceivedFields
  <2> HIDE DEF r
  <2>3. \A i \in DOMAIN state.payments :
          i \in DOMAIN r.payments /\ r.payments[i] = state.payments[i]
    BY <1>1, <2>2
  <2>4. CASE state' = r
    BY <2>2, <2>3, <2>4 DEF PaymentsFinal, CertificatesFinal
  <2>5. CASE CanActivate(r, p) /\ state' = t
    <3>1. t.payments = Matched(r.payments, p.tx)
      BY <2>1, ActivatedFields, ZenonT(30)
    <3>2. PaymentsFinal(state, t)
      <4>1. r.payments \in Seq(Payment)
        BY <2>1, StateFields
      <4>2. QED
        BY <2>3, <3>1, <4>1, MatchedIsFinal DEF PaymentsFinal
    <3>3. /\ DOMAIN t.certs = DOMAIN r.certs \cup {p.ref}
          /\ \A id \in DOMAIN r.certs : t.certs[id] = r.certs[id]
      BY <1>1, <2>1, <2>5, ActivatedSells DEF CanActivate
    <3>4. CertificatesFinal(state, t)
      BY <2>2, <3>3 DEF CertificatesFinal
    <3>5. QED
      BY <2>5, <3>2, <3>4
  <2>6. QED
    BY <2>1, <2>4, <2>5
<1>5. ASSUME NEW i \in DOMAIN state.payments, RefundPayment(i)
      PROVE  PaymentsFinal(state, state') /\ CertificatesFinal(state, state')
  <2>1. /\ state'.payments = Matched(state.payments, state.payments[i].tx)
        /\ state'.certs = state.certs
    BY <1>5, RefundFields
  <2>2. PaymentsFinal(state, state')
    BY <1>1, <2>1, MatchedIsFinal DEF PaymentsFinal
  <2>3. CertificatesFinal(state, state')
    BY <2>1 DEF CertificatesFinal
  <2>4. QED
    BY <2>2, <2>3
<1>6. ASSUME NEW id \in DOMAIN state.certs, NEW fees \in Fees,
             NEW payoffRaw \in RawPayoffs(state.certs[id]), Settle(id, payoffRaw, fees)
      PROVE  PaymentsFinal(state, state') /\ CertificatesFinal(state, state')
  <2>1. /\ IsActive(state, id) /\ state'.payments = state.payments
        /\ DOMAIN state'.certs = DOMAIN state.certs
        /\ \A k \in DOMAIN state.certs : k # id => state'.certs[k] = state.certs[k]
        /\ state'.certs[id].feeCheckpoint = state.certs[id].feeCheckpoint
    BY <1>6, SettleFields
  <2>2. PaymentsFinal(state, state')
    BY <2>1 DEF PaymentsFinal
  <2>3. CertificatesFinal(state, state')
    BY <2>1 DEF CertificatesFinal
  <2>4. QED
    BY <2>2, <2>3
<1>7. QED
  BY <1>2, <1>3, <1>4, <1>5, <1>6, DecisionsParts, StepCases

\* Decisions are final: no step revises a matched payment, a quote that has
\* left "open", a settlement or a recorded checkpoint, or drops a record.
THEOREM LedgerDecisionsFinal == Spec => DecisionsAreFinal
<1>1. TypeOK /\ [Next]_vars => [DecisionsFinal]_vars
  BY DecisionsStep
<1>2. QED
  BY <1>1, LedgerTypeOK, PTL DEF Spec, DecisionsAreFinal
=============================================================================
