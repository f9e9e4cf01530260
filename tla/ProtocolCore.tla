--------------------------- MODULE ProtocolCore ---------------------------
(***************************************************************************)
(* The protocol core: OffchainLhProtocol over its StateStore, with the     *)
(* share pool, the escrow of positions and the certificates that are       *)
(* bought from the pool's headroom and settled after expiry.  The store is *)
(* used as all callers use it, in memory.  Prices are not computed: a      *)
(* template has a downside cap, a premium is any of Premiums, a payoff any *)
(* value between what the buyer may owe and the cap, give or take the      *)
(* rounding of valuations whose upper bounds are computed in two ways.     *)
(* Shares are priced in doubles, as the code does, from products that pass *)
(* 2^53 at about 95 USDC.  Products with basis points are exact integers:  *)
(* in doubles they are so for reserves and exposure up to 2^53 / 10000     *)
(* micro-USDC, about 900,000 USDC.                                         *)
(***************************************************************************)
EXTENDS Integers, Sequences, PrefixSums, Doubles

CONSTANTS
  NumOwners,      \* risk takers, numbered from 1
  Lps,            \* owners of positions
  Mints,          \* positions
  TemplateIds,
  CapDown,        \* template -> natural cap of a position under it
  CapUp,          \* template -> most the buyer may owe at settlement
  Tenor,          \* template -> lifetime of a certificate
  Amounts,        \* deposits
  Premiums,
  Fees,           \* fees of a position over a tenor
  FloatDust,      \* most that rounding adds to a payoff
  UMaxBps, ProtocolFeeBps, FeeSplitBps, RegimeMaxAge,
  MaxReserves,    \* bound on deposits
  MaxShares,      \* bound on shares
  MaxClock,       \* bound on the clock
  MaxCertificates \* bound on certificates

ASSUME ProtocolAssumption ==
  /\ NumOwners \in Nat
  /\ UMaxBps \in 1..9999 /\ ProtocolFeeBps \in 0..10000 /\ FeeSplitBps \in Nat
  /\ Amounts \subseteq Nat /\ Premiums \subseteq Nat /\ Fees \subseteq Nat
  /\ CapDown \in [TemplateIds -> Nat] /\ CapUp \in [TemplateIds -> Nat]
  /\ Tenor \in [TemplateIds -> Nat]
  /\ RegimeMaxAge \in Nat /\ MaxReserves \in Nat /\ MaxClock \in Nat
  /\ MaxCertificates \in Nat

\* Amounts stay below half of the integers that doubles count exactly, 2^52
\* micro-USDC.
Countable(x) == 2 * x < Exact

ASSUME RangeAssumption ==
  MaxShares \in Nat /\ Countable(MaxReserves) /\ Countable(MaxShares)

\* A cap is large against the rounding: what the ceiling keeps free of a cap
\* covers what rounding takes.
ASSUME DustAssumption ==
  /\ FloatDust \in Nat
  /\ \A t \in TemplateIds :
       CapDown[t] > 0 => CapDown[t] * (10000 - UMaxBps) >= FloatDust * UMaxBps

VARIABLES pool, shareLedger, positions, certificates, templates, regimeAt, clock

vars == <<pool, shareLedger, positions, certificates, templates, regimeAt, clock>>

Owners == 1..NumOwners

FullBps == 10000

Pool == [reserves : Nat, shares : Nat, activeCap : Nat]
NoPool == [none |-> "pool"]

\* protectedBy is the index of a certificate, 0 for null.
Position == [owner : Lps, locked : BOOLEAN, protectedBy : Nat]
NoPosition == [none |-> "position"]

Certificate ==
  [position : Mints, template : TemplateIds, cap : Nat, expiry : Nat,
   state : {"active", "settled", "expired"}]

Init ==
  /\ pool = NoPool
  /\ shareLedger = [o \in Owners |-> 0]
  /\ positions = [m \in Mints |-> NoPosition]
  /\ certificates = << >>
  /\ templates = {}
  /\ regimeAt = -1
  /\ clock = 0

-----------------------------------------------------------------------------
(* The pool *)

InitPool ==
  /\ pool = NoPool
  /\ pool' = [reserves |-> 0, shares |-> 0, activeCap |-> 0]
  /\ UNCHANGED <<shareLedger, positions, certificates, templates, regimeAt, clock>>

\* The first deposit mints one share per micro-USDC, a later one its part of
\* the reserves; a drained pool with shares outstanding takes none.
Depositable == pool.shares = 0 \/ pool.reserves > 0

SharesForAtPar(amount) ==  \* mutant: whatever the shares are worth
  amount

SharesFor(amount) ==
  IF pool.shares = 0 THEN amount ELSE FloorMulDiv(amount, pool.shares, pool.reserves)

DepositAtPar(o, amount) ==  \* mutant: the ledger credits the amount
  /\ pool # NoPool
  /\ Depositable
  /\ SharesFor(amount) > 0
  /\ pool.reserves + amount <= MaxReserves
  /\ pool.shares + SharesFor(amount) <= MaxShares
  /\ pool' = [pool EXCEPT !.reserves = @ + amount, !.shares = @ + SharesFor(amount)]
  /\ shareLedger' = [shareLedger EXCEPT ![o] = @ + amount]
  /\ UNCHANGED <<positions, certificates, templates, regimeAt, clock>>

Deposit(o, amount) ==
  /\ pool # NoPool
  /\ amount > 0
  /\ Depositable
  /\ SharesFor(amount) > 0
  /\ pool.reserves + amount <= MaxReserves
  /\ pool.shares + SharesFor(amount) <= MaxShares
  /\ pool' = [pool EXCEPT !.reserves = @ + amount, !.shares = @ + SharesFor(amount)]
  /\ shareLedger' = [shareLedger EXCEPT ![o] = @ + SharesFor(amount)]
  /\ UNCHANGED <<positions, certificates, templates, regimeAt, clock>>

UsdcFor(burnt) == FloorMulDiv(burnt, pool.reserves, pool.shares)

\* Reserves that outstanding certificates need, rounded up.
MinReserves == (pool.activeCap * FullBps + UMaxBps - 1) \div UMaxBps

WithdrawableAlways(usdc) == TRUE  \* mutant: no utilization guard

Withdrawable(usdc) ==
  pool.activeCap > 0 => pool.reserves - usdc >= MinReserves

Withdraw(o, burnt) ==
  /\ pool # NoPool
  /\ burnt > 0
  /\ shareLedger[o] >= burnt
  /\ Countable(pool.reserves)
  /\ Withdrawable(UsdcFor(burnt))
  /\ pool' = [pool EXCEPT !.reserves = @ - UsdcFor(burnt), !.shares = @ - burnt]
  /\ shareLedger' = [shareLedger EXCEPT ![o] = @ - burnt]
  /\ UNCHANGED <<positions, certificates, templates, regimeAt, clock>>

HeadroomAlone ==  \* mutant: forgets the exposure there is
  (pool.reserves * UMaxBps) \div FullBps

Headroom ==
  LET maxCap == (pool.reserves * UMaxBps) \div FullBps
  IN  IF maxCap > pool.activeCap THEN maxCap - pool.activeCap ELSE 0

-----------------------------------------------------------------------------
(* Escrow, templates, regime *)

RegisterLockedPosition(owner, m) ==
  /\ positions[m] = NoPosition
  /\ positions' = [positions EXCEPT ![m] =
                     [owner |-> owner, locked |-> TRUE, protectedBy |-> 0]]
  /\ UNCHANGED <<pool, shareLedger, certificates, templates, regimeAt, clock>>

ReleasePositionProtected(owner, m) ==  \* mutant: protected or not
  /\ positions[m] # NoPosition
  /\ positions[m].owner = owner
  /\ positions[m].locked
  /\ positions' = [positions EXCEPT ![m].locked = FALSE]
  /\ UNCHANGED <<pool, shareLedger, certificates, templates, regimeAt, clock>>

ReleasePosition(owner, m) ==
  /\ positions[m] # NoPosition
  /\ positions[m].owner = owner
  /\ positions[m].protectedBy = 0
  /\ positions[m].locked
  /\ positions' = [positions EXCEPT ![m].locked = FALSE]
  /\ UNCHANGED <<pool, shareLedger, certificates, templates, regimeAt, clock>>

CreateTemplate(t) ==
  /\ t \notin templates
  /\ templates' = templates \cup {t}
  /\ UNCHANGED <<pool, shareLedger, positions, certificates, regimeAt, clock>>

UpdateRegimeSnapshot ==
  /\ pool # NoPool
  /\ regimeAt' = clock
  /\ UNCHANGED <<pool, shareLedger, positions, certificates, templates, clock>>

RegimeFresh == regimeAt >= 0 /\ clock - regimeAt <= RegimeMaxAge

-----------------------------------------------------------------------------
(* Certificates *)

CertificatesOf(m) == {k \in DOMAIN certificates : certificates[k].position = m}

\* The store finds the first certificate that was added for a position; 0 if
\* there is none.
CertificateOf(m) ==
  IF CertificatesOf(m) = {} THEN 0
  ELSE CHOOSE k \in CertificatesOf(m) : \A j \in CertificatesOf(m) : k <= j

Premium(paid) == paid - (paid * ProtocolFeeBps) \div FullBps

BuyCertificate(m, t, premium) ==
  /\ pool # NoPool
  /\ positions[m] # NoPosition
  /\ positions[m].locked
  /\ positions[m].protectedBy = 0
  /\ t \in templates
  /\ RegimeFresh
  /\ CapDown[t] > 0
  /\ CapDown[t] <= Headroom
  /\ clock + Tenor[t] <= MaxClock
  /\ Len(certificates) < MaxCertificates
  /\ certificates' = Append(certificates,
       [position |-> m, template |-> t, cap |-> CapDown[t],
        expiry |-> clock + Tenor[t], state |-> "active"])
  /\ pool' = [pool EXCEPT !.reserves = @ + Premium(premium),
                          !.activeCap = @ + CapDown[t]]
  /\ positions' = [positions EXCEPT ![m].protectedBy = Len(certificates) + 1]
  /\ UNCHANGED <<shareLedger, templates, regimeAt, clock>>

\* What a certificate pays may be negative.
Payoffs(k) ==
  LET c == certificates[k]
  IN  -(CapUp[c.template] + FloatDust)..c.cap + FloatDust

\* The exposure that a settlement ends.
ReleasedCapIfPaid(k, payout) ==  \* mutant: only what was paid for
  IF payout > 0 THEN certificates[k].cap ELSE 0

ReleasedCap(k, payout) == certificates[k].cap

FeeIncome(fees) == (FeeSplitBps * fees) \div FullBps

\* The certificate may be settled.
DueWhileFresh(k) ==  \* mutant: settlement, too, waits for a fresh regime
  /\ k # 0
  /\ certificates[k].state = "active"
  /\ clock >= certificates[k].expiry
  /\ RegimeFresh

Due(k) ==
  /\ k # 0
  /\ certificates[k].state = "active"
  /\ clock >= certificates[k].expiry

SettleCertificate(m) ==
  LET k == CertificateOf(m)
  IN  /\ Due(k)
      /\ pool # NoPool
      /\ positions[m] # NoPosition
      /\ certificates[k].template \in templates
      /\ \E payout \in Payoffs(k), fees \in Fees :
           /\ certificates' = [certificates EXCEPT ![k].state =
                                 IF payout # 0 THEN "settled" ELSE "expired"]
           /\ pool' = [pool EXCEPT !.reserves = @ - payout + FeeIncome(fees),
                                   !.activeCap = @ - ReleasedCap(k, payout)]
      /\ positions' = [positions EXCEPT ![m].protectedBy = 0]
      /\ UNCHANGED <<shareLedger, templates, regimeAt, clock>>

Tick ==
  /\ clock < MaxClock
  /\ clock' = clock + 1
  /\ UNCHANGED <<pool, shareLedger, positions, certificates, templates, regimeAt>>

Next ==
  \/ InitPool
  \/ \E o \in Owners, amount \in Amounts : Deposit(o, amount)
  \/ \E o \in Owners : \E burnt \in 1..shareLedger[o] : Withdraw(o, burnt)
  \/ \E owner \in Lps, m \in Mints : RegisterLockedPosition(owner, m)
  \/ \E owner \in Lps, m \in Mints : ReleasePosition(owner, m)
  \/ \E t \in TemplateIds : CreateTemplate(t)
  \/ UpdateRegimeSnapshot
  \/ \E m \in Mints, t \in TemplateIds, premium \in Premiums :
       BuyCertificate(m, t, premium)
  \/ \E m \in Mints : SettleCertificate(m)
  \/ Tick

\* Time passes, and somebody settles what is due: settlement is open to all.
Fairness == WF_vars(Tick) /\ \A m \in Mints : WF_vars(SettleCertificate(m))

Spec == Init /\ [][Next]_vars /\ Fairness

-----------------------------------------------------------------------------
(* Properties *)

\* Every record keeps its shape; amounts never fall below zero.
TypeOK ==
  /\ pool \in Pool \cup {NoPool}
  /\ shareLedger \in [Owners -> Nat]
  /\ positions \in [Mints -> Position \cup {NoPosition}]
  /\ certificates \in Seq(Certificate)
  /\ templates \subseteq TemplateIds
  /\ regimeAt \in Int
  /\ clock \in Nat

\* What there is in the pool, if there is one.
Reserves  == IF pool = NoPool THEN 0 ELSE pool.reserves
Shares    == IF pool = NoPool THEN 0 ELSE pool.shares
ActiveCap == IF pool = NoPool THEN 0 ELSE pool.activeCap

\* The shares outstanding are exactly the shares that somebody holds, although
\* the pool and the share ledger are two updates.
SharesBacked == Sum(NumOwners, shareLedger) = Shares

ActiveCaps ==
  [k \in DOMAIN certificates |->
     IF certificates[k].state = "active" THEN certificates[k].cap ELSE 0]

\* activeCapUsdc is a running total over purchases and settlements; it never
\* drifts from the certificates that are in force.
CapsReserved == Sum(Len(certificates), ActiveCaps) = ActiveCap

\* The exposure stays within the permitted share of the reserves through every
\* order of purchases, withdrawals and settlements, not only when it is checked.
UtilizationBound == ActiveCap * FullBps <= Reserves * UMaxBps

\* Exposure never outlives the last share, and reserves only by the micro-USDC
\* that pool.ts:162 may round away: the next first depositor neither takes over
\* money of others nor their obligations.
NoOrphanReserves == Shares = 0 => Reserves <= 1 /\ ActiveCap = 0

\* A position is marked protected exactly while a certificate of it is in force,
\* by that certificate, and stays in escrow for as long.
ProtectionIsActive ==
  \A k \in DOMAIN certificates :
    certificates[k].state = "active" <=>
      LET position == positions[certificates[k].position]
      IN  position # NoPosition /\ position.locked /\ position.protectedBy = k

\* Depositors lose less than a unit of the reserves to the rounding of a price,
\* withdrawals leave the rest covered, settlements cost at most the exposure they
\* end: the pool implements SharePool.
SharesView == INSTANCE SharePool WITH
  reserves <- Reserves, shares <- Shares, exposure <- ActiveCap

ImplementsSharePool == SharesView!Spec

\* The first certificate of a position is settled at last, once it is due.
FirstIsSettled ==
  \A m \in Mints :
    (CertificateOf(m) # 0 /\ Due(CertificateOf(m))) ~>
      (CertificateOf(m) # 0 /\ certificates[CertificateOf(m)].state # "active")

\* Every certificate is settled at last: the hedge can be renewed each week.
EveryCertificateSettled ==
  \A k \in 1..MaxCertificates :
    (k \in DOMAIN certificates /\ clock >= certificates[k].expiry) ~>
      (k \in DOMAIN certificates /\ certificates[k].state # "active")
=============================================================================
