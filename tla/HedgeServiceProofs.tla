------------------------ MODULE HedgeServiceProofs ------------------------
(***************************************************************************)
(* The web process, for any number of quotes, transfers, crashes, failed   *)
(* reads and failed saves: what it answers, queues and leaves behind is on *)
(* disk, and no payout is queued twice.  Together with the executor: only  *)
(* what is decided is paid, and it is paid once.                           *)
(***************************************************************************)
EXTENDS HedgeSystem, PrefixSumsProofs, FiniteSetTheorems, TLAPS

-----------------------------------------------------------------------------
(* The ledger's decisions *)

\* What owes money is decided: the certificate settled, the payment refunded.
Decided(l) ==
  /\ \A q \in Quotes : q \in l.owed => l.cert[q] = "settled"
  /\ \A t \in Transfers : t \in l.owed => l.payment[t] = "matched"

SoundLedger(l) == l \in Ledger /\ Decided(l)

\* The ledger m has all that l has decided and seen.
Ahead(l, m) ==
  /\ l.owed \subseteq m.owed
  /\ \A t \in Transfers : l.payment[t] # "unseen" => m.payment[t] # "unseen"

LEMMA AheadTransitive ==
  ASSUME NEW l, NEW m, NEW n, Ahead(l, m), Ahead(m, n)
  PROVE  Ahead(l, n)
BY DEF Ahead

LEMMA OpenedSound == SoundLedger(OpenedLedger)
BY DEF SoundLedger, Decided, OpenedLedger, Ledger

LEMMA LapsedSound ==
  ASSUME NEW l, SoundLedger(l)
  PROVE  /\ SoundLedger(Lapsed(l))
         /\ Lapsed(l).owed = l.owed
         /\ Lapsed(l).payment = l.payment
         /\ Lapsed(l).cert = l.cert
         /\ Ahead(l, Lapsed(l))
<1>1. l \in Ledger /\ Decided(l)
  BY DEF SoundLedger
<1>2. Lapsed(l) \in Ledger
  BY <1>1 DEF Lapsed, Ledger
<1>3. /\ Lapsed(l).owed = l.owed /\ Lapsed(l).payment = l.payment
      /\ Lapsed(l).cert = l.cert
  BY <1>1 DEF Lapsed, Ledger
<1>4. QED
  BY <1>1, <1>2, <1>3 DEF SoundLedger, Decided, Ahead

LEMMA QuotedSound ==
  ASSUME NEW l, SoundLedger(l), NEW q \in Quotes
  PROVE  LET m == [Lapsed(l) EXCEPT !.quote[q] = "open"]
         IN  SoundLedger(m) /\ Ahead(l, m) /\ m.cert = l.cert
<1> DEFINE m == [Lapsed(l) EXCEPT !.quote[q] = "open"]
<1>1. SoundLedger(Lapsed(l)) /\ Ahead(l, Lapsed(l)) /\ Lapsed(l).cert = l.cert
  BY LapsedSound
<1>2. Lapsed(l) \in Ledger
  BY <1>1 DEF SoundLedger
<1>3. /\ m \in Ledger /\ m.owed = Lapsed(l).owed /\ m.payment = Lapsed(l).payment
      /\ m.cert = Lapsed(l).cert
  BY <1>2 DEF Ledger
<1> HIDE DEF m
<1>4. SoundLedger(m) /\ Ahead(l, m) /\ m.cert = l.cert
  BY <1>1, <1>3 DEF SoundLedger, Decided, Ahead
<1>5. QED
  BY <1>4 DEF m

\* A transfer is looked at: seen, and owed only by what owed before.
LEMMA ObservedSound ==
  ASSUME NEW l, SoundLedger(l), NEW t \in Transfers, NEW m \in Observed(l, t)
  PROVE  SoundLedger(m) /\ Ahead(l, m) /\ m.owed = l.owed /\ m.payment[t] # "unseen"
<1>1. l \in Ledger /\ Decided(l)
  BY DEF SoundLedger
<1>2. CASE m = l /\ l.payment[t] # "unseen"
  BY <1>1, <1>2 DEF SoundLedger, Ahead
<1>3. CASE l.payment[t] = "unseen" /\ m = Unmatched(l, t)
  <2>1. /\ m \in Ledger /\ m.owed = l.owed /\ m.cert = l.cert
        /\ m.payment[t] = "unmatched"
        /\ \A u \in Transfers : u # t => m.payment[u] = l.payment[u]
    BY <1>1, <1>3 DEF Unmatched, Ledger
  <2>2. QED
    BY <1>1, <1>3, <2>1 DEF SoundLedger, Decided, Ahead
<1>4. CASE Activatable(l, t) /\ m = Activated(l, t) /\ l.payment[t] = "unseen"
  <2>1. QuoteOf[t] \in Quotes /\ l.cert[QuoteOf[t]] = "none"
    BY <1>4 DEF Activatable
  <2>2. /\ m \in Ledger /\ m.owed = l.owed
        /\ m.payment[t] = "matched"
        /\ \A u \in Transfers : u # t => m.payment[u] = l.payment[u]
        /\ \A q \in Quotes : q # QuoteOf[t] => m.cert[q] = l.cert[q]
    BY <1>1, <1>4, <2>1 DEF Activated, Ledger
  <2>3. QuoteOf[t] \notin l.owed
    BY <1>1, <2>1 DEF Decided
  <2>4. QED
    BY <1>1, <1>4, <2>1, <2>2, <2>3 DEF SoundLedger, Decided, Ahead
<1>5. QED
  BY <1>2, <1>3, <1>4 DEF Observed

LEMMA SettledSound ==
  ASSUME NEW l, SoundLedger(l), NEW q \in Quotes, NEW pays \in BOOLEAN
  PROVE  LET m == Settled(l, q, pays)
         IN  /\ SoundLedger(m) /\ Ahead(l, m) /\ m.payment = l.payment
             /\ \A p \in Quotes : p # q => m.cert[p] = l.cert[p]
             /\ m.owed \subseteq l.owed \cup {q}
             /\ pays => q \in m.owed
<1> DEFINE m == Settled(l, q, pays)
<1>1. l \in Ledger /\ Decided(l) /\ q \in Refs /\ q \notin Transfers
  BY ServiceAssumption DEF SoundLedger, Refs
<1>2. /\ m.payment = l.payment /\ m.cert = [l.cert EXCEPT ![q] = "settled"]
      /\ m.quote = l.quote
      /\ m.owed = IF pays THEN l.owed \cup {q} ELSE l.owed
  BY <1>1 DEF Settled, Ledger
<1>3. m \in Ledger
  <2>1. m = [[l EXCEPT !.cert[q] = "settled"]
               EXCEPT !.owed = IF pays THEN l.owed \cup {q} ELSE l.owed]
    BY <1>1 DEF Settled, Ledger
  <2>2. [l EXCEPT !.cert[q] = "settled"] \in Ledger
    BY <1>1 DEF Ledger
  <2>3. (IF pays THEN l.owed \cup {q} ELSE l.owed) \subseteq Refs
    BY <1>1 DEF Ledger
  <2>4. \A k \in Ledger, o \in SUBSET Refs : [k EXCEPT !.owed = o] \in Ledger
    BY DEF Ledger
  <2>5. QED
    BY <2>1, <2>2, <2>3, <2>4
<1>4. m.cert[q] = "settled" /\ \A p \in Quotes : p # q => m.cert[p] = l.cert[p]
  BY <1>1, <1>2 DEF Ledger
<1> HIDE DEF m
<1>5. SoundLedger(m)
  BY <1>1, <1>2, <1>3, <1>4 DEF SoundLedger, Decided
<1>6. QED
  BY <1>2, <1>4, <1>5 DEF Ahead, m

LEMMA RefundedSound ==
  ASSUME NEW l, SoundLedger(l)
  PROVE  /\ SoundLedger(Refunded(l)) /\ Ahead(l, Refunded(l))
         /\ Refunded(l).owed = l.owed \cup Refundable(l)
         /\ Refundable(l) \subseteq Transfers
         /\ Refundable(l) \cap l.owed = {}
<1>1. l \in Ledger /\ Decided(l)
  BY DEF SoundLedger
<1>2. Refundable(l) \subseteq Transfers /\ \A t \in Refundable(l) : l.payment[t] = "unmatched"
  BY DEF Refundable
<1>3. Refundable(l) \cap l.owed = {}
  BY <1>1, <1>2 DEF Decided
<1>4. /\ Refunded(l).owed = l.owed \cup Refundable(l)
      /\ Refunded(l).cert = l.cert
      /\ Refunded(l).payment =
           [t \in Transfers |-> IF t \in Refundable(l) THEN "matched" ELSE l.payment[t]]
  BY <1>1, SMTT(30) DEF Refunded, Ledger
<1>5. Refunded(l) \in Ledger
  BY <1>1, <1>2 DEF Refunded, Ledger, Refs
<1>6. QED
  BY <1>1, <1>2, <1>3, <1>4, <1>5, ServiceAssumption DEF SoundLedger, Decided, Ahead

-----------------------------------------------------------------------------
(* The invariant *)

InCycle == {"observing", "balance", "settling", "reading"}

\* The cycle is the running call from its scan to its release; only a price
\* reader that takes the lock itself waits behind it.
LockKept ==
  /\ cycle.pc \in InCycle => Runs("cycle")
  /\ Waits("price") => cycle.pc = "reading"

LedgersKept == SoundLedger(ledger) /\ SoundLedger(disk) /\ Ahead(disk, ledger)

\* What the cycle has observed is seen, what it has yet to observe is the rest of
\* its scan.
ScanKept ==
  cycle.pc \in InCycle =>
    /\ cycle.scanned <= Len(landed) /\ Len(cycle.todo) <= cycle.scanned
    /\ \A i \in 1..cycle.scanned - Len(cycle.todo) : ledger.payment[landed[i]] # "unseen"
    /\ \A i \in 1..Len(cycle.todo) :
         cycle.todo[i] = landed[cycle.scanned - Len(cycle.todo) + i]
    /\ cycle.pc # "observing" => cycle.todo = <<>>

\* The certificates a cycle has yet to look at are active until it does.
CertsKept ==
  /\ cycle.pc \in {"settling", "reading"} =>
       \A q \in cycle.certs : ledger.cert[q] = "active"
  /\ cycle.pc = "reading" =>
       /\ cycle.cert \in Quotes /\ cycle.cert \notin cycle.certs
       /\ ledger.cert[cycle.cert] = "active"

\* The payouts a cycle has collected are decided, in memory until the lock is
\* released and on disk from then on; each is new.
PendingKept ==
  /\ cycle.pc \in {"idle", "calling", "observing", "balance"} => cycle.pending = <<>>
  /\ \A i, j \in DOMAIN cycle.pending : cycle.pending[i] = cycle.pending[j] => i = j
  /\ \A i \in DOMAIN cycle.pending :
       /\ cycle.pending[i] \in ledger.owed
       /\ cycle.pc = "queueing" => cycle.pending[i] \in disk.owed
       /\ \A j \in DOMAIN outbox : outbox[j] # cycle.pending[i]

ServiceInv ==
  /\ TypeOK
  /\ LockKept /\ LedgersKept /\ ScanKept /\ CertsKept /\ PendingKept
  /\ AnswersAreDurable /\ QueuedOnceDecided /\ CursorIsDurable

LEMMA ServiceInit == Init => ServiceInv
<1> SUFFICES ASSUME Init PROVE ServiceInv
  OBVIOUS
<1>1. SoundLedger(OpenedLedger) /\ OpenedLedger \in Ledger
  BY OpenedSound DEF SoundLedger
<1>2. TypeOK
  BY <1>1, ServiceAssumption DEF Init, TypeOK, IdleCycle, Cycle
<1>3. LockKept /\ ScanKept /\ CertsKept /\ PendingKept
  BY DEF Init, LockKept, ScanKept, CertsKept, PendingKept, IdleCycle, Waits, InCycle
<1>4. LedgersKept
  BY <1>1 DEF Init, LedgersKept, Ahead
<1>5. AnswersAreDurable /\ QueuedOnceDecided /\ CursorIsDurable
  BY DEF Init, AnswersAreDurable, QueuedOnceDecided, CursorIsDurable, IdleCycle
<1>6. QED
  BY <1>2, <1>3, <1>4, <1>5 DEF ServiceInv

-----------------------------------------------------------------------------
(* The lock *)

LEMMA CallKeepsQueue ==
  ASSUME TypeOK, NEW c \in Caller, Call(c)
  PROVE  /\ chain' \in Seq(Caller)
         /\ \A i, j \in DOMAIN chain' : chain'[i] = chain'[j] => i = j
         /\ \A d \in Caller : Runs(d) => Runs(d)'
         /\ \A d \in Caller : Waits(d)' => Waits(d) \/ d = c
<1>1. /\ chain \in Seq(Caller) /\ chain' = Append(chain, c)
      /\ \A i \in DOMAIN chain : chain[i] # c
      /\ \A i, j \in DOMAIN chain : chain[i] = chain[j] => i = j
  BY DEF TypeOK, Call, Waits
<1>2. /\ chain' \in Seq(Caller) /\ Len(chain') = Len(chain) + 1
      /\ \A i \in DOMAIN chain : chain'[i] = chain[i]
      /\ chain'[Len(chain) + 1] = c
      /\ DOMAIN chain' = DOMAIN chain \cup {Len(chain) + 1}
      /\ Len(chain) + 1 \notin DOMAIN chain
  BY <1>1
<1>3. \A i, j \in DOMAIN chain' : chain'[i] = chain'[j] => i = j
  BY <1>1, <1>2
<1>4. \A d \in Caller : Runs(d) => Runs(d)'
  BY <1>1, <1>2 DEF Runs
<1>5. \A d \in Caller : Waits(d)' => Waits(d) \/ d = c
  BY <1>2 DEF Waits
<1>6. QED
  BY <1>2, <1>3, <1>4, <1>5

LEMMA ReleaseKeepsQueue ==
  ASSUME TypeOK, chain # <<>>, chain' = Tail(chain)
  PROVE  /\ chain' \in Seq(Caller)
         /\ \A i, j \in DOMAIN chain' : chain'[i] = chain'[j] => i = j
         /\ \A d \in Caller : Waits(d)' => Waits(d)
<1>1. /\ chain \in Seq(Caller)
      /\ \A i, j \in DOMAIN chain : chain[i] = chain[j] => i = j
  BY DEF TypeOK
<1>2. /\ chain' \in Seq(Caller) /\ Len(chain') = Len(chain) - 1
      /\ \A i \in DOMAIN chain' : i + 1 \in DOMAIN chain /\ chain'[i] = chain[i + 1]
  BY <1>1
<1>3. \A i, j \in DOMAIN chain' : chain'[i] = chain'[j] => i = j
  BY <1>1, <1>2
<1>4. \A d \in Caller : Waits(d)' => Waits(d)
  BY <1>2 DEF Waits
<1>5. QED
  BY <1>2, <1>3, <1>4

-----------------------------------------------------------------------------
(* Saving *)

\* The outbox and the cursor stay durable while the log only grows.
LEMMA DurableStays ==
  ASSUME TypeOK, QueuedOnceDecided, CursorIsDurable, Ahead(disk, disk'),
         UNCHANGED <<outbox, landed, cursor>>
  PROVE  QueuedOnceDecided' /\ CursorIsDurable'
<1>1. QueuedOnceDecided'
  BY DEF QueuedOnceDecided, Ahead
<1>2. \A i \in 1..cursor : landed[i] \in Transfers
  BY DEF TypeOK
<1>3. CursorIsDurable'
  BY <1>2 DEF CursorIsDurable, Ahead
<1>4. QED
  BY <1>1, <1>3

\* The end of a call, whether its events could be saved or not.
LEMMA SaveKeeps ==
  ASSUME TypeOK, LedgersKept, QueuedOnceDecided, CursorIsDurable,
         NEW after, SoundLedger(after), Ahead(ledger, after),
         Release(after) \/ Unsaved(after),
         UNCHANGED <<outbox, landed, cursor>>
  PROVE  /\ chain' = Tail(chain) /\ ledger' = after
         /\ ledger' \in Ledger /\ disk' \in Ledger
         /\ faults' \in [count : 0..MaxFaults, behind : BOOLEAN]
         /\ LedgersKept' /\ Ahead(disk, disk')
         /\ ~faults'.behind => ledger' = disk'
         /\ QueuedOnceDecided' /\ CursorIsDurable'
         /\ \A i \in DOMAIN outbox' : outbox'[i] \in disk'.owed
<1>1. /\ MaxFaults \in Nat /\ faults \in [count : 0..MaxFaults, behind : BOOLEAN]
      /\ SoundLedger(ledger) /\ SoundLedger(disk) /\ Ahead(disk, ledger)
  BY ServiceAssumption DEF TypeOK, LedgersKept
<1>2. Ahead(disk, after) /\ Ahead(disk, disk) /\ Ahead(after, after)
  BY <1>1, AheadTransitive DEF Ahead
<1>3. CASE Release(after)
  <2>1. /\ chain' = Tail(chain) /\ ledger' = after /\ disk' = after
        /\ faults' = [faults EXCEPT !.behind = FALSE]
    BY <1>3 DEF Release
  <2>2. LedgersKept' /\ Ahead(disk, disk')
    BY <1>2, <2>1 DEF LedgersKept
  <2>3. QueuedOnceDecided' /\ CursorIsDurable'
    BY <2>2, DurableStays
  <2>4. QED
    BY <1>1, <2>1, <2>2, <2>3 DEF SoundLedger, QueuedOnceDecided
<1>4. CASE Unsaved(after)
  <2>1. /\ chain' = Tail(chain) /\ ledger' = after /\ disk' = disk
        /\ faults.count < MaxFaults
        /\ faults' = [count |-> faults.count + 1, behind |-> TRUE]
    BY <1>4 DEF Unsaved
  <2>2. LedgersKept' /\ Ahead(disk, disk')
    BY <1>1, <1>2, <2>1 DEF LedgersKept
  <2>3. QueuedOnceDecided' /\ CursorIsDurable'
    BY <2>2, DurableStays
  <2>4. QED
    BY <1>1, <2>1, <2>2, <2>3 DEF SoundLedger, QueuedOnceDecided
<1>5. QED
  BY <1>3, <1>4

-----------------------------------------------------------------------------
(* The routes *)

LEMMA RequestKeepsInv ==
  ASSUME ServiceInv, NEW r \in Routes, Request(r)
  PROVE  ServiceInv'
<1>1. r \in Caller /\ r # "price" /\ Call(r)
      /\ UNCHANGED <<ledger, disk, late, due, landed, cursor, cycle, outbox, faults>>
  BY ServiceAssumption DEF Request, Caller, time
<1>2. /\ chain' \in Seq(Caller)
      /\ \A i, j \in DOMAIN chain' : chain'[i] = chain'[j] => i = j
      /\ \A d \in Caller : Runs(d) => Runs(d)'
      /\ \A d \in Caller : Waits(d)' => Waits(d) \/ d = r
  BY <1>1, CallKeepsQueue DEF ServiceInv
<1>3. TypeOK'
  BY <1>1, <1>2 DEF ServiceInv, TypeOK
<1>4. LockKept'
  BY <1>1, <1>2 DEF ServiceInv, LockKept, Caller
<1>5. /\ LedgersKept' /\ ScanKept' /\ CertsKept' /\ PendingKept'
      /\ AnswersAreDurable' /\ QueuedOnceDecided' /\ CursorIsDurable'
  BY <1>1 DEF ServiceInv, LedgersKept, ScanKept, CertsKept, PendingKept,
              AnswersAreDurable, QueuedOnceDecided, CursorIsDurable
<1>6. QED
  BY <1>3, <1>4, <1>5 DEF ServiceInv

LEMMA ServeKeepsInv ==
  ASSUME ServiceInv, NEW r \in Routes, Runs(r),
         NEW after, SoundLedger(after), Ahead(ledger, after), after.cert = ledger.cert,
         Release(after) \/ Unsaved(after),
         UNCHANGED <<late, due, landed, cursor, cycle, outbox>>
  PROVE  ServiceInv'
<1>1. cycle.pc \notin InCycle /\ chain # <<>>
  BY ServiceAssumption DEF ServiceInv, LockKept, Runs
<1>2. /\ chain' = Tail(chain) /\ ledger' = after
      /\ ledger' \in Ledger /\ disk' \in Ledger
      /\ faults' \in [count : 0..MaxFaults, behind : BOOLEAN]
      /\ LedgersKept' /\ Ahead(disk, disk')
      /\ ~faults'.behind => ledger' = disk'
      /\ QueuedOnceDecided' /\ CursorIsDurable'
  BY SaveKeeps DEF ServiceInv
<1>3. /\ chain' \in Seq(Caller)
      /\ \A i, j \in DOMAIN chain' : chain'[i] = chain'[j] => i = j
      /\ \A d \in Caller : Waits(d)' => Waits(d)
  BY <1>1, <1>2, ReleaseKeepsQueue DEF ServiceInv
<1>4. TypeOK'
  BY <1>2, <1>3 DEF ServiceInv, TypeOK
<1>5. LockKept' /\ ScanKept' /\ CertsKept'
  BY <1>1, <1>3 DEF ServiceInv, LockKept, ScanKept, CertsKept, Caller, InCycle
<1>6. PendingKept'
  BY <1>2 DEF ServiceInv, PendingKept, Ahead
<1>7. AnswersAreDurable'
  BY <1>2 DEF AnswersAreDurable, QueuedOnceDecided
<1>8. QED
  BY <1>2, <1>4, <1>5, <1>6, <1>7 DEF ServiceInv

LEMMA ServeStatusKeepsInv ==
  ASSUME ServiceInv, NEW r \in Routes, ServeStatus(r)
  PROVE  ServiceInv'
<1>1. /\ SoundLedger(Lapsed(ledger)) /\ Ahead(ledger, Lapsed(ledger))
      /\ Lapsed(ledger).cert = ledger.cert
  BY LapsedSound DEF ServiceInv, LedgersKept
<1>2. QED
  BY <1>1, ServeKeepsInv DEF ServeStatus, time

LEMMA ServeQuoteKeepsInv ==
  ASSUME ServiceInv, NEW r \in Routes, ServeQuote(r)
  PROVE  ServiceInv'
<1>1. PICK q \in Quotes :
        LET after == [Lapsed(ledger) EXCEPT !.quote[q] = "open"]
        IN  Release(after) \/ Unsaved(after)
  BY DEF ServeQuote
<1> DEFINE after == [Lapsed(ledger) EXCEPT !.quote[q] = "open"]
<1>2. SoundLedger(after) /\ Ahead(ledger, after) /\ after.cert = ledger.cert
  BY QuotedSound DEF ServiceInv, LedgersKept
<1>3. Release(after) \/ Unsaved(after)
  BY <1>1
<1> HIDE DEF after
<1>4. QED
  BY <1>2, <1>3, ServeKeepsInv DEF ServeQuote, time

-----------------------------------------------------------------------------
(* The cycle, while it holds the lock *)

LEMMA StartCycleKeepsInv ==
  ASSUME ServiceInv, StartCycle
  PROVE  ServiceInv'
<1>1. /\ cycle.pc = "idle" /\ Call("cycle") /\ "cycle" \in Caller
      /\ cycle' = [cycle EXCEPT !.pc = "calling"] /\ cycle \in Cycle
      /\ UNCHANGED <<ledger, disk, late, due, landed, cursor, outbox, faults>>
  BY DEF StartCycle, At, Caller, time, ServiceInv, TypeOK
<1>2. /\ cycle' \in Cycle /\ cycle'.pc = "calling" /\ cycle'.pending = cycle.pending
  BY <1>1 DEF Cycle
<1>3. /\ chain' \in Seq(Caller)
      /\ \A i, j \in DOMAIN chain' : chain'[i] = chain'[j] => i = j
      /\ \A d \in Caller : Waits(d)' => Waits(d) \/ d = "cycle"
  BY <1>1, CallKeepsQueue DEF ServiceInv
<1>4. TypeOK'
  BY <1>1, <1>2, <1>3 DEF ServiceInv, TypeOK
<1>5. LockKept' /\ ScanKept' /\ CertsKept'
  BY <1>1, <1>2, <1>3 DEF ServiceInv, LockKept, ScanKept, CertsKept, Caller, InCycle
<1>6. PendingKept'
  BY <1>1, <1>2 DEF ServiceInv, PendingKept
<1>7. LedgersKept' /\ AnswersAreDurable' /\ QueuedOnceDecided' /\ CursorIsDurable'
  BY <1>1, <1>2 DEF ServiceInv, LedgersKept, AnswersAreDurable, QueuedOnceDecided,
                    CursorIsDurable
<1>8. QED
  BY <1>4, <1>5, <1>6, <1>7 DEF ServiceInv

\* What of a sequence is after its first n elements.
LEMMA RestOf ==
  ASSUME NEW s \in Seq(Transfers), NEW n \in 0..Len(s)
  PROVE  LET rest == SubSeq(s, n + 1, Len(s))
         IN  /\ Len(rest) = Len(s) - n
             /\ \A i \in 1..Len(rest) : rest[i] = s[n + i]
<1> DEFINE rest == SubSeq(s, n + 1, Len(s))
<1>1. Len(s) \in Nat /\ n \in Nat /\ \A i \in 1..Len(s) : s[i] \in Transfers
  OBVIOUS
<1>2. Len(rest) = Len(s) - n
  BY <1>1
<1>3. \A i \in 1..Len(s) - n : rest[i] = s[n + i]
  BY <1>1
<1>4. QED
  BY <1>2, <1>3

LEMMA ScanPaymentsKeepsInv ==
  ASSUME ServiceInv, ScanPayments
  PROVE  ServiceInv'
<1>1. /\ cycle.pc = "calling" /\ Runs("cycle") /\ cycle' = Scanned /\ cycle \in Cycle
      /\ landed \in Seq(Transfers) /\ cursor \in 0..Len(landed)
      /\ UNCHANGED <<chain, ledger, disk, late, due, landed, cursor, outbox, faults>>
  BY DEF ScanPayments, At, time, ServiceInv, TypeOK
<1>2. SubSeq(landed, cursor + 1, Len(landed)) \in Seq(Transfers) /\ Len(landed) \in Nat
  BY <1>1
<1>3. /\ cycle' \in Cycle /\ cycle'.pc = "observing" /\ cycle'.scanned = Len(landed)
      /\ cycle'.todo = SubSeq(landed, cursor + 1, Len(landed))
      /\ cycle'.pending = cycle.pending
  <2> DEFINE rest == SubSeq(landed, cursor + 1, Len(landed))
             n == Len(landed)
  <2>1. /\ cycle' = [cycle EXCEPT !.pc = "observing", !.scanned = n, !.todo = rest]
        /\ cycle \in Cycle /\ n \in Nat /\ rest \in Seq(Transfers)
    BY <1>1, <1>2 DEF Scanned
  <2> HIDE DEF rest, n
  <2>2. /\ cycle' \in Cycle /\ cycle'.pc = "observing" /\ cycle'.scanned = n
        /\ cycle'.todo = rest /\ cycle'.pending = cycle.pending
    BY <2>1 DEF Cycle
  <2>3. QED
    BY <2>2 DEF rest, n
<1>4. /\ Len(cycle'.todo) = Len(landed) - cursor
      /\ \A i \in 1..Len(cycle'.todo) : cycle'.todo[i] = landed[cursor + i]
  <2> DEFINE rest == SubSeq(landed, cursor + 1, Len(landed))
  <2>1. /\ Len(rest) = Len(landed) - cursor
        /\ \A i \in 1..Len(rest) : rest[i] = landed[cursor + i]
    BY <1>1, RestOf
  <2> HIDE DEF rest
  <2>2. cycle'.todo = rest
    BY <1>3 DEF rest
  <2>3. QED
    BY <2>1, <2>2
<1>5. TypeOK'
  BY <1>1, <1>3 DEF ServiceInv, TypeOK
<1>6. LockKept' /\ CertsKept'
  BY <1>1, <1>3 DEF ServiceInv, LockKept, CertsKept, InCycle, Runs, Waits
<1>7. ScanKept'
  <2>1. \A i \in 1..cursor : landed[i] \in Transfers /\ ledger.payment[landed[i]] # "unseen"
    BY <1>1 DEF ServiceInv, CursorIsDurable, LedgersKept, Ahead
  <2> DEFINE n == Len(landed)
             rest == Len(cycle'.todo)
  <2>2. /\ n \in Nat /\ cursor \in 0..n /\ rest = n - cursor /\ cycle'.scanned = n
        /\ landed' = landed /\ ledger' = ledger /\ cycle'.pc = "observing"
    BY <1>1, <1>2, <1>3, <1>4
  <2>3. \A i \in 1..rest : cycle'.todo[i] = landed[cursor + i]
    BY <1>4
  <2> HIDE DEF n, rest
  <2>4. n <= n /\ rest <= n /\ n - rest = cursor
    BY <2>2
  <2>5. /\ cycle'.scanned <= n /\ rest <= cycle'.scanned
        /\ \A i \in 1..cycle'.scanned - rest : ledger'.payment[landed'[i]] # "unseen"
        /\ \A i \in 1..rest : cycle'.todo[i] = landed'[cycle'.scanned - rest + i]
    BY <2>1, <2>2, <2>3, <2>4
  <2>6. QED
    BY <2>2, <2>5 DEF ScanKept, n, rest
<1>8. PendingKept'
  BY <1>1, <1>3 DEF ServiceInv, PendingKept
<1>9. LedgersKept' /\ AnswersAreDurable' /\ QueuedOnceDecided' /\ CursorIsDurable'
  BY <1>1, <1>3 DEF ServiceInv, LedgersKept, AnswersAreDurable, QueuedOnceDecided,
                    CursorIsDurable
<1>10. QED
  BY <1>5, <1>6, <1>7, <1>8, <1>9 DEF ServiceInv

\* Inside the cycle only memory changes, and it only gains decisions.
LEMMA MemoryStepKeeps ==
  ASSUME ServiceInv, cycle'.pc \in InCycle, cycle' \in Cycle,
         SoundLedger(ledger'), Ahead(ledger, ledger'),
         UNCHANGED <<chain, disk, late, due, landed, cursor, outbox, faults>>
  PROVE  /\ TypeOK' /\ LedgersKept'
         /\ AnswersAreDurable' /\ QueuedOnceDecided' /\ CursorIsDurable'
<1>1. TypeOK'
  BY DEF ServiceInv, TypeOK, SoundLedger
<1>2. LedgersKept'
  BY AheadTransitive DEF ServiceInv, LedgersKept
<1>3. AnswersAreDurable' /\ QueuedOnceDecided' /\ CursorIsDurable'
  BY DEF ServiceInv, AnswersAreDurable, QueuedOnceDecided, CursorIsDurable, InCycle
<1>4. QED
  BY <1>1, <1>2, <1>3

LEMMA ObservePaymentKeepsInv ==
  ASSUME ServiceInv, ObservePayment
  PROVE  ServiceInv'
<1>1. /\ cycle.pc = "observing" /\ cycle.todo # <<>> /\ cycle \in Cycle
      /\ ledger' \in Observed(ledger, Head(cycle.todo))
      /\ cycle' = [cycle EXCEPT !.todo = Tail(@)]
      /\ landed \in Seq(Transfers)
      /\ UNCHANGED <<chain, disk, late, due, landed, cursor, outbox, faults>>
  BY DEF ObservePayment, At, time, ServiceInv, TypeOK
<1> DEFINE t == Head(cycle.todo)
<1>2. /\ cycle.todo \in Seq(Transfers) /\ t \in Transfers /\ t = cycle.todo[1]
      /\ cycle' \in Cycle /\ cycle'.todo = Tail(cycle.todo)
      /\ cycle'.pc = "observing" /\ cycle'.scanned = cycle.scanned
      /\ cycle'.pending = cycle.pending
      /\ cycle.scanned \in Nat
  <2>1. cycle.todo \in Seq(Transfers) /\ cycle.scanned \in Nat
    BY <1>1 DEF Cycle
  <2>2. t \in Transfers /\ t = cycle.todo[1] /\ Tail(cycle.todo) \in Seq(Transfers)
    BY <1>1, <2>1
  <2>3. \A k \in Cycle, left \in Seq(Transfers) :
          LET m == [k EXCEPT !.todo = left]
          IN  m \in Cycle /\ m.pc = k.pc /\ m.scanned = k.scanned /\ m.todo = left
              /\ m.pending = k.pending
    BY DEF Cycle
  <2> DEFINE rest == Tail(cycle.todo)
  <2>4. cycle' = [cycle EXCEPT !.todo = rest] /\ rest \in Seq(Transfers) /\ cycle \in Cycle
    BY <1>1, <2>2
  <2> HIDE DEF rest
  <2>5. /\ cycle' \in Cycle /\ cycle'.pc = cycle.pc /\ cycle'.scanned = cycle.scanned
        /\ cycle'.todo = rest /\ cycle'.pending = cycle.pending
    BY <2>3, <2>4
  <2>6. QED
    BY <1>1, <2>1, <2>2, <2>5 DEF rest
<1> HIDE DEF t
<1>3. /\ SoundLedger(ledger') /\ Ahead(ledger, ledger') /\ ledger'.owed = ledger.owed
      /\ ledger'.payment[t] # "unseen"
  BY <1>1, <1>2, ObservedSound DEF ServiceInv, LedgersKept, t
<1>4. /\ TypeOK' /\ LedgersKept'
      /\ AnswersAreDurable' /\ QueuedOnceDecided' /\ CursorIsDurable'
  BY <1>1, <1>2, <1>3, MemoryStepKeeps DEF InCycle
<1>5. LockKept' /\ CertsKept'
  BY <1>1, <1>2 DEF ServiceInv, LockKept, CertsKept, Runs, Waits, InCycle
<1>6. ScanKept'
  <2>1. /\ cycle.scanned <= Len(landed) /\ Len(cycle.todo) <= cycle.scanned
        /\ \A i \in 1..cycle.scanned - Len(cycle.todo) : ledger.payment[landed[i]] # "unseen"
        /\ \A i \in 1..Len(cycle.todo) :
             cycle.todo[i] = landed[cycle.scanned - Len(cycle.todo) + i]
    BY <1>1 DEF ServiceInv, ScanKept, InCycle
  <2>2. /\ Len(cycle'.todo) = Len(cycle.todo) - 1 /\ Len(cycle.todo) >= 1
        /\ \A i \in 1..Len(cycle'.todo) : cycle'.todo[i] = cycle.todo[i + 1]
    BY <1>1, <1>2
  <2>3. t = landed[cycle.scanned - Len(cycle.todo) + 1]
    BY <1>2, <2>1, <2>2
  <2>4. \A i \in 1..cycle.scanned - Len(cycle.todo) :
          landed[i] \in Transfers /\ ledger'.payment[landed[i]] # "unseen"
    BY <1>1, <1>2, <1>3, <2>1, <2>2 DEF Ahead
  <2>5. \A i \in 1..cycle'.scanned - Len(cycle'.todo) : ledger'.payment[landed[i]] # "unseen"
    <3>1. \A i \in 1..cycle'.scanned - Len(cycle'.todo) :
            i \in 1..cycle.scanned - Len(cycle.todo) \/ i = cycle.scanned - Len(cycle.todo) + 1
      BY <1>2, <2>1, <2>2
    <3>2. QED
      BY <1>3, <2>3, <2>4, <3>1
  <2>6. \A i \in 1..Len(cycle'.todo) :
          cycle'.todo[i] = landed[cycle'.scanned - Len(cycle'.todo) + i]
    <3>1. SUFFICES ASSUME NEW i \in 1..Len(cycle'.todo)
                   PROVE  cycle'.todo[i] = landed[cycle'.scanned - Len(cycle'.todo) + i]
      OBVIOUS
    <3>2. i + 1 \in 1..Len(cycle.todo)
      BY <1>2, <2>2, <3>1
    <3>3. cycle'.todo[i] = landed[cycle.scanned - Len(cycle.todo) + (i + 1)]
      BY <2>1, <2>2, <3>1, <3>2
    <3>4. cycle.scanned - Len(cycle.todo) + (i + 1) = cycle'.scanned - Len(cycle'.todo) + i
      <4>1. cycle.scanned \in Nat /\ Len(cycle.todo) \in Nat /\ i \in Nat
        BY <1>2, <3>1
      <4>2. QED
        BY <1>2, <2>2, <4>1, SMTT(30)
    <3>5. QED
      BY <3>3, <3>4
  <2>7. QED
    BY <1>1, <1>2, <2>1, <2>2, <2>5, <2>6 DEF ScanKept
<1>7. PendingKept'
  BY <1>1, <1>2, <1>3 DEF ServiceInv, PendingKept
<1>8. QED
  BY <1>4, <1>5, <1>6, <1>7 DEF ServiceInv

\* What was observed stays observed.
LEMMA ScanStays ==
  ASSUME TypeOK, ScanKept, cycle.pc \in InCycle, cycle.todo = <<>>,
         Ahead(ledger, ledger'), landed' = landed,
         cycle'.todo = cycle.todo, cycle'.scanned = cycle.scanned
  PROVE  ScanKept'
<1>1. /\ landed \in Seq(Transfers) /\ cycle.scanned \in Nat /\ Len(cycle.todo) = 0
      /\ cycle.scanned <= Len(landed)
      /\ \A i \in 1..cycle.scanned : ledger.payment[landed[i]] # "unseen"
  BY DEF TypeOK, ScanKept, Cycle
<1>2. \A i \in 1..cycle.scanned : landed[i] \in Transfers /\ ledger'.payment[landed[i]] # "unseen"
  BY <1>1 DEF Ahead
<1>3. QED
  BY <1>1, <1>2 DEF ScanKept

LEMMA LapseQuotesKeepsInv ==
  ASSUME ServiceInv, LapseQuotes
  PROVE  ServiceInv'
<1>1. /\ cycle.pc = "observing" /\ cycle.todo = <<>> /\ cycle \in Cycle
      /\ ledger' = Lapsed(ledger) /\ cycle' = [cycle EXCEPT !.pc = "balance"]
      /\ UNCHANGED <<chain, disk, late, due, landed, cursor, outbox, faults>>
  BY DEF LapseQuotes, At, time, ServiceInv, TypeOK
<1>2. /\ cycle' \in Cycle /\ cycle'.pc = "balance" /\ cycle'.todo = cycle.todo
      /\ cycle'.scanned = cycle.scanned /\ cycle'.pending = cycle.pending
  BY <1>1 DEF Cycle
<1>3. /\ SoundLedger(ledger') /\ Ahead(ledger, ledger') /\ ledger'.owed = ledger.owed
  BY <1>1, LapsedSound DEF ServiceInv, LedgersKept
<1>4. /\ TypeOK' /\ LedgersKept'
      /\ AnswersAreDurable' /\ QueuedOnceDecided' /\ CursorIsDurable'
  BY <1>1, <1>2, <1>3, MemoryStepKeeps DEF InCycle
<1>5. LockKept' /\ CertsKept'
  BY <1>1, <1>2 DEF ServiceInv, LockKept, CertsKept, Runs, Waits, InCycle
<1>6. ScanKept'
  BY <1>1, <1>2, <1>3, ScanStays DEF ServiceInv, InCycle
<1>7. PendingKept'
  BY <1>1, <1>2, <1>3 DEF ServiceInv, PendingKept
<1>8. QED
  BY <1>4, <1>5, <1>6, <1>7 DEF ServiceInv

LEMMA ListDueKeepsInv ==
  ASSUME ServiceInv, ListDue
  PROVE  ServiceInv'
<1>1. /\ cycle.pc = "balance" /\ cycle \in Cycle
      /\ cycle' = [cycle EXCEPT !.pc = "settling", !.certs = Due(ledger)]
      /\ UNCHANGED <<chain, ledger, disk, late, due, landed, cursor, outbox, faults>>
  BY DEF ListDue, At, time, ServiceInv, TypeOK
<1>2. /\ cycle' \in Cycle /\ cycle'.pc = "settling" /\ cycle'.todo = cycle.todo
      /\ cycle'.scanned = cycle.scanned /\ cycle'.pending = cycle.pending
      /\ cycle'.certs = Due(ledger)
  BY <1>1 DEF Cycle, Due
<1>3. SoundLedger(ledger') /\ Ahead(ledger, ledger')
  BY <1>1 DEF ServiceInv, LedgersKept, Ahead
<1>4. /\ TypeOK' /\ LedgersKept'
      /\ AnswersAreDurable' /\ QueuedOnceDecided' /\ CursorIsDurable'
  BY <1>1, <1>2, <1>3, MemoryStepKeeps DEF InCycle
<1>5. LockKept' /\ CertsKept'
  BY <1>1, <1>2 DEF ServiceInv, LockKept, CertsKept, Runs, Waits, InCycle, Due
<1>6. ScanKept'
  <2>1. cycle.todo = <<>>
    BY <1>1 DEF ServiceInv, ScanKept, InCycle
  <2>2. QED
    BY <1>1, <1>2, <1>3, <2>1, ScanStays DEF ServiceInv, InCycle
<1>7. PendingKept'
  BY <1>1, <1>2 DEF ServiceInv, PendingKept
<1>8. QED
  BY <1>4, <1>5, <1>6, <1>7 DEF ServiceInv

LEMMA AskPriceKeepsInv ==
  ASSUME ServiceInv, NEW q \in Quotes, AskPrice(q)
  PROVE  ServiceInv'
<1>1. /\ cycle.pc = "settling" /\ q \in cycle.certs /\ cycle \in Cycle
      /\ cycle' = [cycle EXCEPT !.pc = "reading", !.certs = @ \ {q}, !.cert = q]
      /\ chain' = IF PriceTakesLock THEN Append(chain, "price") ELSE chain
      /\ UNCHANGED <<ledger, disk, late, due, landed, cursor, outbox, faults>>
  BY DEF AskPrice, At, time, ServiceInv, TypeOK
<1>2. /\ cycle' \in Cycle /\ cycle'.pc = "reading" /\ cycle'.todo = cycle.todo
      /\ cycle'.scanned = cycle.scanned /\ cycle'.pending = cycle.pending
      /\ cycle'.certs = cycle.certs \ {q} /\ cycle'.cert = q
  BY <1>1 DEF Cycle
<1>3. /\ chain' \in Seq(Caller)
      /\ \A i, j \in DOMAIN chain' : chain'[i] = chain'[j] => i = j
      /\ Runs("cycle")'
  <2>1. Runs("cycle") /\ ~Waits("price")
    BY <1>1 DEF ServiceInv, LockKept, InCycle
  <2>2. CASE PriceTakesLock
    <3>1. Call("price") /\ "price" \in Caller /\ "cycle" \in Caller
      BY <1>1, <2>1, <2>2 DEF Call, Caller
    <3>2. QED
      BY <2>1, <3>1, CallKeepsQueue DEF ServiceInv
  <2>3. CASE ~PriceTakesLock
    BY <1>1, <2>1, <2>3 DEF ServiceInv, TypeOK, Runs
  <2>4. QED
    BY <2>2, <2>3
<1>4. TypeOK'
  BY <1>1, <1>2, <1>3 DEF ServiceInv, TypeOK
<1>5. LockKept' /\ CertsKept'
  BY <1>1, <1>2, <1>3 DEF ServiceInv, LockKept, CertsKept, InCycle
<1>6. ScanKept'
  <2>1. cycle.todo = <<>> /\ Ahead(ledger, ledger')
    BY <1>1 DEF ServiceInv, ScanKept, InCycle, Ahead
  <2>2. QED
    BY <1>1, <1>2, <2>1, ScanStays DEF ServiceInv, InCycle
<1>7. PendingKept'
  BY <1>1, <1>2 DEF ServiceInv, PendingKept
<1>8. LedgersKept' /\ AnswersAreDurable' /\ QueuedOnceDecided' /\ CursorIsDurable'
  BY <1>1, <1>2 DEF ServiceInv, LedgersKept, AnswersAreDurable, QueuedOnceDecided,
                    CursorIsDurable
<1>9. QED
  BY <1>4, <1>5, <1>6, <1>7, <1>8 DEF ServiceInv

LEMMA SkipKeepsInv ==
  ASSUME ServiceInv, Skip
  PROVE  ServiceInv'
<1>1. /\ cycle.pc = "reading" /\ ~Waits("price") /\ cycle \in Cycle
      /\ cycle' = [cycle EXCEPT !.pc = "settling", !.cert = NoQuote]
      /\ UNCHANGED <<chain, ledger, disk, late, due, landed, cursor, outbox, faults>>
  BY DEF Skip, PriceRead, At, time, ServiceInv, TypeOK
<1>2. /\ cycle' \in Cycle /\ cycle'.pc = "settling" /\ cycle'.todo = cycle.todo
      /\ cycle'.scanned = cycle.scanned /\ cycle'.pending = cycle.pending
      /\ cycle'.certs = cycle.certs
  BY <1>1 DEF Cycle
<1>3. SoundLedger(ledger') /\ Ahead(ledger, ledger')
  BY <1>1 DEF ServiceInv, LedgersKept, Ahead
<1>4. /\ TypeOK' /\ LedgersKept'
      /\ AnswersAreDurable' /\ QueuedOnceDecided' /\ CursorIsDurable'
  BY <1>1, <1>2, <1>3, MemoryStepKeeps DEF InCycle
<1>5. LockKept' /\ CertsKept'
  BY <1>1, <1>2 DEF ServiceInv, LockKept, CertsKept, Runs, Waits, InCycle
<1>6. ScanKept'
  <2>1. cycle.todo = <<>>
    BY <1>1 DEF ServiceInv, ScanKept, InCycle
  <2>2. QED
    BY <1>1, <1>2, <1>3, <2>1, ScanStays DEF ServiceInv, InCycle
<1>7. PendingKept'
  BY <1>1, <1>2 DEF ServiceInv, PendingKept
<1>8. QED
  BY <1>4, <1>5, <1>6, <1>7 DEF ServiceInv

\* What is queued, or collected by a cycle, is owed in memory.
LEMMA QueuedIsOwed ==
  ASSUME ServiceInv
  PROVE  /\ \A i \in DOMAIN outbox : outbox[i] \in ledger.owed
         /\ \A i \in DOMAIN cycle.pending : cycle.pending[i] \in ledger.owed
BY DEF ServiceInv, QueuedOnceDecided, LedgersKept, Ahead, PendingKept

\* A cycle collects payouts that were not owed before.
LEMMA PendingGrows ==
  ASSUME ServiceInv, NEW fresh, fresh \subseteq Refs, fresh \cap ledger.owed = {},
         NEW more, more \in Seq(fresh),
         \A i, j \in DOMAIN more : more[i] = more[j] => i = j
  PROVE  LET pending == cycle.pending \o more
         IN  /\ pending \in Seq(Refs)
             /\ \A i, j \in DOMAIN pending : pending[i] = pending[j] => i = j
             /\ \A i \in DOMAIN pending : pending[i] \in ledger.owed \cup fresh
             /\ \A i \in DOMAIN pending : \A j \in DOMAIN outbox : outbox[j] # pending[i]
<1> DEFINE pending == cycle.pending \o more
<1>1. /\ cycle.pending \in Seq(Refs) /\ more \in Seq(Refs)
      /\ \A i, j \in DOMAIN cycle.pending : cycle.pending[i] = cycle.pending[j] => i = j
      /\ \A i \in DOMAIN cycle.pending :
           /\ cycle.pending[i] \in ledger.owed
           /\ \A j \in DOMAIN outbox : outbox[j] # cycle.pending[i]
  BY DEF ServiceInv, TypeOK, Cycle, PendingKept
<1>2. \A i \in DOMAIN outbox : outbox[i] \in ledger.owed
  BY QueuedIsOwed
<1> DEFINE n == Len(cycle.pending)
<1>3. /\ pending \in Seq(Refs) /\ n \in Nat
      /\ \A i \in DOMAIN pending :
           \/ i \in DOMAIN cycle.pending /\ i <= n /\ pending[i] = cycle.pending[i]
           \/ i > n /\ i - n \in DOMAIN more /\ pending[i] = more[i - n]
      /\ \A i \in DOMAIN more : more[i] \in fresh
      /\ \A i \in DOMAIN pending : i \in Nat
  BY <1>1
<1> HIDE DEF n, pending
<1>4. \A i, j \in DOMAIN pending : pending[i] = pending[j] => i = j
  <2>1. SUFFICES ASSUME NEW i \in DOMAIN pending, NEW j \in DOMAIN pending,
                        pending[i] = pending[j]
                 PROVE  i = j
    OBVIOUS
  <2>2. CASE pending[i] \in ledger.owed
    <3>1. pending[i] \notin fresh
      BY <2>2
    <3>2. /\ i \in DOMAIN cycle.pending /\ pending[i] = cycle.pending[i]
          /\ j \in DOMAIN cycle.pending /\ pending[j] = cycle.pending[j]
      BY <1>3, <2>1, <3>1
    <3>3. QED
      BY <1>1, <2>1, <3>2
  <2>3. CASE pending[i] \notin ledger.owed
    <3>1. /\ i - n \in DOMAIN more /\ pending[i] = more[i - n] /\ i \in Nat
          /\ j - n \in DOMAIN more /\ pending[j] = more[j - n] /\ j \in Nat
      BY <1>1, <1>3, <2>1, <2>3
    <3>2. i - n = j - n
      BY <2>1, <3>1
    <3>3. QED
      BY <1>3, <3>1, <3>2
  <2>4. QED
    BY <2>2, <2>3
<1>5. \A i \in DOMAIN pending : pending[i] \in ledger.owed \cup fresh
  BY <1>1, <1>3
<1>6. \A i \in DOMAIN pending : \A j \in DOMAIN outbox : outbox[j] # pending[i]
  BY <1>1, <1>2, <1>3
<1>7. QED
  BY <1>3, <1>4, <1>5, <1>6 DEF pending

LEMMA SettleKeepsInv ==
  ASSUME ServiceInv, NEW q \in Quotes, Settle(q)
  PROVE  ServiceInv'
<1>1. PICK pays \in BOOLEAN :
        /\ ledger' = Settled(ledger, q, pays)
        /\ cycle' = [cycle EXCEPT !.pc = "settling", !.cert = NoQuote,
                                  !.pending = IF pays THEN Append(@, q) ELSE @]
  BY DEF Settle
<1>2. /\ cycle.pc = "reading" /\ ~Waits("price") /\ cycle.cert = q /\ cycle \in Cycle
      /\ ledger.cert[q] = "active" /\ q \notin cycle.certs
      /\ SoundLedger(ledger)
      /\ UNCHANGED <<chain, disk, late, due, landed, cursor, outbox, faults>>
  BY DEF Settle, PriceRead, At, time, ServiceInv, TypeOK, CertsKept, LedgersKept
<1>3. /\ SoundLedger(ledger') /\ Ahead(ledger, ledger')
      /\ \A p \in Quotes : p # q => ledger'.cert[p] = ledger.cert[p]
      /\ pays => q \in ledger'.owed
  BY <1>1, <1>2, SettledSound
<1> DEFINE fresh == {q}
           more == IF pays THEN <<q>> ELSE <<>>
           pending == cycle.pending \o more
<1>4. q \notin ledger.owed /\ q \in Refs
  BY <1>2 DEF SoundLedger, Decided, Refs
<1>5. cycle.pending \in Seq(Refs)
  BY <1>2 DEF Cycle
<1>6. /\ more \in Seq(fresh)
      /\ \A i, j \in DOMAIN more : more[i] = more[j] => i = j
      /\ pending = IF pays THEN Append(cycle.pending, q) ELSE cycle.pending
  <2>1. CASE pays
    <3>1. more = <<q>>
      BY <2>1
    <3>2. QED
      BY <1>4, <1>5, <2>1, <3>1
  <2>2. CASE ~pays
    <3>1. more = <<>>
      BY <2>2
    <3>2. QED
      BY <1>5, <2>2, <3>1
  <2>3. QED
    BY <2>1, <2>2
<1> HIDE DEF more
<1>7. /\ pending \in Seq(Refs)
      /\ \A i, j \in DOMAIN pending : pending[i] = pending[j] => i = j
      /\ \A i \in DOMAIN pending : pending[i] \in ledger.owed \cup fresh
      /\ \A i \in DOMAIN pending : \A j \in DOMAIN outbox : outbox[j] # pending[i]
  <2>1. fresh \subseteq Refs /\ fresh \cap ledger.owed = {}
    BY <1>4
  <2> HIDE DEF fresh
  <2>2. QED
    BY <1>6, <2>1, PendingGrows
<1>8. \A i \in DOMAIN pending : pending[i] \in ledger'.owed
  <2>1. CASE pays
    BY <1>3, <1>7, <2>1 DEF Ahead
  <2>2. CASE ~pays
    BY <1>3, <1>6, <2>2, QueuedIsOwed DEF Ahead
  <2>3. QED
    BY <2>1, <2>2
<1>9. cycle' = [cycle EXCEPT !.pc = "settling", !.cert = NoQuote, !.pending = pending]
  BY <1>1, <1>2, <1>6 DEF Cycle
<1> HIDE DEF pending
<1>10. /\ cycle' \in Cycle /\ cycle'.pc = "settling" /\ cycle'.todo = cycle.todo
       /\ cycle'.scanned = cycle.scanned /\ cycle'.pending = pending
       /\ cycle'.certs = cycle.certs
  BY <1>2, <1>7, <1>9 DEF Cycle
<1>11. /\ TypeOK' /\ LedgersKept'
       /\ AnswersAreDurable' /\ QueuedOnceDecided' /\ CursorIsDurable'
  BY <1>2, <1>3, <1>10, MemoryStepKeeps DEF InCycle
<1>12. LockKept' /\ CertsKept'
  <2>1. cycle.certs \subseteq Quotes
    BY <1>2 DEF Cycle
  <2>2. QED
    BY <1>2, <1>3, <1>10, <2>1 DEF ServiceInv, LockKept, CertsKept, Runs, Waits, InCycle
<1>13. ScanKept'
  <2>1. cycle.todo = <<>>
    BY <1>2 DEF ServiceInv, ScanKept, InCycle
  <2>2. QED
    BY <1>2, <1>3, <1>10, <2>1, ScanStays DEF ServiceInv, InCycle
<1>14. PendingKept'
  BY <1>2, <1>7, <1>8, <1>10 DEF PendingKept
<1>15. QED
  BY <1>11, <1>12, <1>13, <1>14 DEF ServiceInv

-----------------------------------------------------------------------------
(* The end of a cycle *)

LEMMA RefundsCollected ==
  ASSUME ServiceInv, RefundAndRelease
  PROVE  \E more \in Seq(Refundable(ledger)) :
           /\ \A i, j \in DOMAIN more : more[i] = more[j] => i = j
           /\ cycle' = [cycle EXCEPT !.pc = "queueing", !.pending = @ \o more]
<1> DEFINE fresh == Refundable(ledger)
           n == Cardinality(fresh)
<1>1. PICK refunds \in [1..n -> fresh] :
        /\ \A i, j \in DOMAIN refunds : refunds[i] = refunds[j] => i = j
        /\ cycle' = [cycle EXCEPT !.pc = "queueing", !.pending = @ \o refunds]
  BY DEF RefundAndRelease
<1>2. fresh \subseteq Transfers
  BY DEF Refundable
<1> HIDE DEF fresh
<1>3. n \in Nat
  BY <1>2, ServiceAssumption, FS_Subset, FS_CardinalityType
<1> HIDE DEF n
<1>4. refunds \in Seq(fresh)
  BY <1>3
<1>5. QED
  BY <1>1, <1>4 DEF fresh

LEMMA RefundAndReleaseKeepsInv ==
  ASSUME ServiceInv, RefundAndRelease
  PROVE  ServiceInv'
<1> DEFINE fresh == Refundable(ledger)
<1>1. PICK more \in Seq(fresh) :
        /\ \A i, j \in DOMAIN more : more[i] = more[j] => i = j
        /\ cycle' = [cycle EXCEPT !.pc = "queueing", !.pending = @ \o more]
  BY RefundsCollected
<1>2. /\ cycle.pc = "settling" /\ cycle \in Cycle /\ SoundLedger(ledger)
      /\ Release(Refunded(ledger)) /\ cursor' = cycle.scanned
      /\ landed \in Seq(Transfers)
      /\ UNCHANGED <<late, due, landed, outbox>>
  BY DEF RefundAndRelease, At, time, ServiceInv, TypeOK, LedgersKept
<1>3. /\ chain' = Tail(chain) /\ ledger' = Refunded(ledger) /\ disk' = Refunded(ledger)
      /\ faults' = [faults EXCEPT !.behind = FALSE]
  BY <1>2 DEF Release
<1>4. /\ SoundLedger(ledger') /\ Ahead(ledger, ledger') /\ Ahead(ledger', ledger')
      /\ ledger'.owed = ledger.owed \cup fresh
      /\ fresh \subseteq Transfers /\ fresh \cap ledger.owed = {}
  BY <1>2, <1>3, RefundedSound DEF Ahead
<1> HIDE DEF fresh
<1> DEFINE pending == cycle.pending \o more
<1>5. /\ pending \in Seq(Refs)
      /\ \A i, j \in DOMAIN pending : pending[i] = pending[j] => i = j
      /\ \A i \in DOMAIN pending : pending[i] \in ledger.owed \cup fresh
      /\ \A i \in DOMAIN pending : \A j \in DOMAIN outbox : outbox[j] # pending[i]
  <2>1. /\ fresh \subseteq Refs /\ fresh \cap ledger.owed = {} /\ more \in Seq(fresh)
        /\ \A i, j \in DOMAIN more : more[i] = more[j] => i = j
    BY <1>1, <1>4 DEF Refs
  <2>2. QED
    BY <2>1, PendingGrows
<1>6. cycle' = [cycle EXCEPT !.pc = "queueing", !.pending = pending]
  BY <1>1, <1>2 DEF Cycle
<1> HIDE DEF pending
<1>7. cycle' \in Cycle /\ cycle'.pc = "queueing" /\ cycle'.pending = pending
  BY <1>2, <1>5, <1>6 DEF Cycle
<1>8. Runs("cycle") /\ ~Waits("price") /\ chain # <<>>
  BY <1>2 DEF ServiceInv, LockKept, InCycle, Runs
<1>9. /\ chain' \in Seq(Caller)
      /\ \A i, j \in DOMAIN chain' : chain'[i] = chain'[j] => i = j
      /\ ~Waits("price")'
  BY <1>3, <1>8, ReleaseKeepsQueue DEF ServiceInv, Caller
<1>10. cycle.scanned \in 0..Len(landed)
  BY <1>2 DEF ServiceInv, ScanKept, Cycle, InCycle
<1>11. TypeOK'
  BY <1>2, <1>3, <1>4, <1>7, <1>9, <1>10 DEF ServiceInv, TypeOK, SoundLedger
<1>12. LockKept' /\ ScanKept' /\ CertsKept'
  <2>1. cycle'.pc \notin InCycle
    BY <1>7 DEF InCycle
  <2>2. LockKept'
    BY <1>9, <2>1 DEF LockKept
  <2>3. ScanKept' /\ CertsKept'
    BY <1>7, <2>1 DEF ScanKept, CertsKept
  <2>4. QED
    BY <2>2, <2>3
<1>13. LedgersKept'
  BY <1>3, <1>4 DEF LedgersKept
<1>14. PendingKept'
  BY <1>2, <1>3, <1>4, <1>5, <1>7 DEF PendingKept
<1>15. QueuedOnceDecided'
  BY <1>2, <1>3, <1>4, QueuedIsOwed DEF ServiceInv, QueuedOnceDecided
<1>16. AnswersAreDurable'
  BY <1>3, <1>15 DEF AnswersAreDurable, QueuedOnceDecided
<1>17. CursorIsDurable'
  <2>1. cycle.todo = <<>>
    BY <1>2 DEF ServiceInv, ScanKept, InCycle
  <2>2. \A i \in 1..cycle.scanned :
          landed[i] \in Transfers /\ ledger.payment[landed[i]] # "unseen"
    BY <1>2, <1>10, <2>1 DEF ServiceInv, ScanKept, InCycle
  <2>3. QED
    BY <1>2, <1>3, <1>4, <2>2 DEF CursorIsDurable, Ahead
<1>18. QED
  BY <1>11, <1>12, <1>13, <1>14, <1>15, <1>16, <1>17 DEF ServiceInv

\* A cycle that fails, or cannot save, drops what it collected.
LEMMA FailedCycleKeepsInv ==
  ASSUME ServiceInv, chain # <<>>, ~Waits("price"),
         NEW after, SoundLedger(after), Ahead(ledger, after),
         Release(after) \/ Unsaved(after),
         cycle' = IdleCycle,
         UNCHANGED <<late, due, landed, cursor, outbox>>
  PROVE  ServiceInv'
<1>1. /\ chain' = Tail(chain) /\ ledger' \in Ledger /\ disk' \in Ledger
      /\ faults' \in [count : 0..MaxFaults, behind : BOOLEAN]
      /\ ~faults'.behind => ledger' = disk'
      /\ LedgersKept' /\ QueuedOnceDecided' /\ CursorIsDurable'
  BY SaveKeeps DEF ServiceInv
<1>2. /\ chain' \in Seq(Caller)
      /\ \A i, j \in DOMAIN chain' : chain'[i] = chain'[j] => i = j
      /\ ~Waits("price")'
  BY <1>1, ReleaseKeepsQueue DEF ServiceInv, Caller
<1>3. cycle' \in Cycle
  BY DEF IdleCycle, Cycle
<1>4. TypeOK'
  BY <1>1, <1>2, <1>3 DEF ServiceInv, TypeOK
<1>5. LockKept' /\ ScanKept' /\ CertsKept' /\ PendingKept'
  BY <1>2 DEF LockKept, ScanKept, CertsKept, PendingKept, IdleCycle, InCycle
<1>6. AnswersAreDurable'
  BY <1>1 DEF AnswersAreDurable, QueuedOnceDecided
<1>7. QED
  BY <1>1, <1>4, <1>5, <1>6 DEF ServiceInv

LEMMA RefundUnsavedKeepsInv ==
  ASSUME ServiceInv, RefundUnsaved
  PROVE  ServiceInv'
<1>1. chain # <<>> /\ ~Waits("price")
  BY DEF RefundUnsaved, At, ServiceInv, LockKept, InCycle, Runs
<1>2. SoundLedger(Refunded(ledger)) /\ Ahead(ledger, Refunded(ledger))
  BY RefundedSound DEF ServiceInv, LedgersKept
<1>3. QED
  BY <1>1, <1>2, FailedCycleKeepsInv DEF RefundUnsaved, time

LEMMA FailCycleKeepsInv ==
  ASSUME ServiceInv, FailCycle
  PROVE  ServiceInv'
<1>1. chain # <<>> /\ ~Waits("price")
  BY DEF FailCycle, PriceRead, At, ServiceInv, LockKept, InCycle, Runs
<1>2. SoundLedger(ledger) /\ Ahead(ledger, ledger)
  BY DEF ServiceInv, LedgersKept, Ahead
<1>3. QED
  BY <1>1, <1>2, FailedCycleKeepsInv DEF FailCycle, time

LEMMA QueuePayoutKeepsInv ==
  ASSUME ServiceInv, QueuePayout
  PROVE  ServiceInv'
<1> DEFINE ref == Head(cycle.pending)
           rest == Tail(cycle.pending)
<1>1. /\ cycle.pc = "queueing" /\ cycle.pending # <<>> /\ cycle \in Cycle
      /\ outbox' = Append(outbox, ref) /\ cycle' = [cycle EXCEPT !.pending = rest]
      /\ outbox \in Seq(Refs)
      /\ UNCHANGED <<chain, ledger, disk, late, due, landed, cursor, faults>>
  BY DEF QueuePayout, At, time, ServiceInv, TypeOK
<1>2. /\ cycle.pending \in Seq(Refs)
      /\ \A i, j \in DOMAIN cycle.pending : cycle.pending[i] = cycle.pending[j] => i = j
      /\ \A i \in DOMAIN cycle.pending :
           /\ cycle.pending[i] \in ledger.owed /\ cycle.pending[i] \in disk.owed
           /\ \A j \in DOMAIN outbox : outbox[j] # cycle.pending[i]
  BY <1>1 DEF ServiceInv, PendingKept, Cycle
<1>3. /\ ref \in Refs /\ 1 \in DOMAIN cycle.pending /\ ref = cycle.pending[1]
      /\ rest \in Seq(Refs)
      /\ \A i \in DOMAIN rest :
           i + 1 \in DOMAIN cycle.pending /\ rest[i] = cycle.pending[i + 1] /\ i + 1 # 1
      /\ \A i, j \in DOMAIN rest : i + 1 = j + 1 => i = j
  BY <1>1, <1>2
<1> HIDE DEF ref, rest
<1>4. /\ cycle' \in Cycle /\ cycle'.pc = cycle.pc /\ cycle'.pending = rest
      /\ cycle'.certs = cycle.certs
  BY <1>1, <1>3 DEF Cycle
<1>5. /\ outbox' \in Seq(Refs)
      /\ \A i \in DOMAIN outbox' :
           \/ i \in DOMAIN outbox /\ outbox'[i] = outbox[i]
           \/ i = Len(outbox) + 1 /\ outbox'[i] = ref
  BY <1>1, <1>3
<1>6. TypeOK'
  BY <1>1, <1>4, <1>5 DEF ServiceInv, TypeOK
<1>7. LockKept' /\ ScanKept' /\ CertsKept' /\ LedgersKept' /\ CursorIsDurable'
  BY <1>1, <1>4 DEF ServiceInv, LockKept, ScanKept, CertsKept, LedgersKept,
                    CursorIsDurable, InCycle, Runs, Waits
<1>8. QueuedOnceDecided'
  BY <1>1, <1>2, <1>3, <1>5 DEF ServiceInv, QueuedOnceDecided
<1>9. PendingKept'
  <2>1. \A i \in DOMAIN rest : rest[i] # ref
    BY <1>2, <1>3
  <2>2. \A i, j \in DOMAIN rest : rest[i] = rest[j] => i = j
    BY <1>2, <1>3
  <2>3. \A i \in DOMAIN rest :
          /\ rest[i] \in ledger.owed /\ rest[i] \in disk.owed
          /\ \A j \in DOMAIN outbox' : outbox'[j] # rest[i]
    BY <1>2, <1>3, <1>5, <2>1
  <2>4. QED
    BY <1>1, <1>4, <2>2, <2>3 DEF PendingKept
<1>10. AnswersAreDurable'
  BY <1>1, <1>4, <1>8 DEF ServiceInv, AnswersAreDurable, QueuedOnceDecided
<1>11. QED
  BY <1>6, <1>7, <1>8, <1>9, <1>10 DEF ServiceInv

LEMMA EndCycleKeepsInv ==
  ASSUME ServiceInv, EndCycle
  PROVE  ServiceInv'
<1>1. /\ cycle.pc = "queueing" /\ cycle' = IdleCycle /\ IdleCycle \in Cycle
      /\ UNCHANGED <<chain, ledger, disk, late, due, landed, cursor, outbox, faults>>
  BY DEF EndCycle, At, time, IdleCycle, Cycle
<1>2. TypeOK'
  BY <1>1 DEF ServiceInv, TypeOK
<1>3. LockKept' /\ ScanKept' /\ CertsKept' /\ PendingKept'
  BY <1>1 DEF ServiceInv, LockKept, ScanKept, CertsKept, PendingKept, IdleCycle, InCycle,
              Waits
<1>4. LedgersKept' /\ AnswersAreDurable' /\ QueuedOnceDecided' /\ CursorIsDurable'
  BY <1>1 DEF ServiceInv, LedgersKept, AnswersAreDurable, QueuedOnceDecided,
              CursorIsDurable
<1>5. QED
  BY <1>2, <1>3, <1>4 DEF ServiceInv

-----------------------------------------------------------------------------
(* The world *)

LEMMA TimeKeepsInv ==
  ASSUME ServiceInv, late' \subseteq Quotes, due' \subseteq Quotes,
         UNCHANGED <<chain, ledger, disk, landed, cursor, cycle, outbox, faults>>
  PROVE  ServiceInv'
<1>1. TypeOK' /\ LockKept' /\ LedgersKept' /\ ScanKept'
  BY DEF ServiceInv, TypeOK, LockKept, LedgersKept, ScanKept, Runs, Waits
<1>2. CertsKept' /\ PendingKept' /\ AnswersAreDurable' /\ QueuedOnceDecided'
      /\ CursorIsDurable'
  BY DEF ServiceInv, CertsKept, PendingKept, AnswersAreDurable, QueuedOnceDecided,
         CursorIsDurable
<1>3. QED
  BY <1>1, <1>2 DEF ServiceInv

LEMMA LandKeepsInv ==
  ASSUME ServiceInv, NEW t \in Transfers, Land(t)
  PROVE  ServiceInv'
<1>1. /\ landed' = Append(landed, t) /\ landed \in Seq(Transfers)
      /\ cursor \in 0..Len(landed) /\ cycle \in Cycle
      /\ UNCHANGED <<chain, ledger, disk, late, due, cursor, cycle, outbox, faults>>
  BY DEF Land, time, ServiceInv, TypeOK
<1>2. /\ landed' \in Seq(Transfers) /\ Len(landed') = Len(landed) + 1
      /\ \A i \in 1..Len(landed) : landed'[i] = landed[i]
      /\ Len(landed) \in Nat
  BY <1>1
<1>3. TypeOK'
  BY <1>1, <1>2 DEF ServiceInv, TypeOK
<1>4. ScanKept'
  <2>1. SUFFICES ASSUME cycle.pc \in InCycle
                 PROVE  ScanKept'
    BY <1>1 DEF ScanKept
  <2>2. /\ cycle.scanned \in Nat /\ Len(cycle.todo) \in Nat
        /\ cycle.scanned <= Len(landed) /\ Len(cycle.todo) <= cycle.scanned
        /\ \A i \in 1..cycle.scanned - Len(cycle.todo) : ledger.payment[landed[i]] # "unseen"
        /\ \A i \in 1..Len(cycle.todo) :
             cycle.todo[i] = landed[cycle.scanned - Len(cycle.todo) + i]
        /\ cycle.pc # "observing" => cycle.todo = <<>>
    BY <1>1, <2>1 DEF ServiceInv, ScanKept, Cycle
  <2>3. \A i \in 1..cycle.scanned : landed'[i] = landed[i]
    BY <1>2, <2>2
  <2>4. /\ \A i \in 1..cycle.scanned - Len(cycle.todo) : i \in 1..cycle.scanned
        /\ \A i \in 1..Len(cycle.todo) :
             cycle.scanned - Len(cycle.todo) + i \in 1..cycle.scanned
    BY <2>2
  <2>5. cycle.scanned <= Len(landed')
    BY <1>2, <2>2
  <2>6. QED
    BY <1>1, <2>2, <2>3, <2>4, <2>5 DEF ScanKept
<1>5. CursorIsDurable'
  <2>1. \A i \in 1..cursor : landed'[i] = landed[i]
    BY <1>1, <1>2
  <2>2. QED
    BY <1>1, <2>1 DEF ServiceInv, CursorIsDurable
<1>6. /\ LockKept' /\ LedgersKept' /\ CertsKept' /\ PendingKept'
      /\ AnswersAreDurable' /\ QueuedOnceDecided'
  BY <1>1 DEF ServiceInv, LockKept, LedgersKept, CertsKept, PendingKept,
              AnswersAreDurable, QueuedOnceDecided, Runs, Waits
<1>7. QED
  BY <1>3, <1>4, <1>5, <1>6 DEF ServiceInv

\* A restart begins with the ledger of the disk and no cycle.
LEMMA CrashKeepsInv ==
  ASSUME ServiceInv, Crash
  PROVE  ServiceInv'
<1>1. /\ chain' = <<>> /\ cycle' = IdleCycle /\ cursor' = 0 /\ ledger' = disk
      /\ faults' = [count |-> faults.count + 1, behind |-> FALSE]
      /\ faults.count < MaxFaults
      /\ late' \subseteq late /\ due' \subseteq due
      /\ UNCHANGED <<disk, landed, outbox>>
  BY DEF Crash
<1>2. IdleCycle \in Cycle /\ Ahead(disk, disk)
  BY DEF IdleCycle, Cycle, Ahead
<1>3. TypeOK'
  BY <1>1, <1>2, ServiceAssumption DEF ServiceInv, TypeOK
<1>4. LockKept' /\ ScanKept' /\ CertsKept' /\ PendingKept' /\ CursorIsDurable'
  BY <1>1 DEF LockKept, ScanKept, CertsKept, PendingKept, CursorIsDurable, IdleCycle,
              InCycle, Waits
<1>5. LedgersKept'
  BY <1>1, <1>2 DEF ServiceInv, LedgersKept
<1>6. AnswersAreDurable' /\ QueuedOnceDecided'
  BY <1>1 DEF ServiceInv, AnswersAreDurable, QueuedOnceDecided
<1>7. QED
  BY <1>3, <1>4, <1>5, <1>6 DEF ServiceInv

-----------------------------------------------------------------------------
(* Theorems *)

LEMMA ServiceStep == ServiceInv /\ [Next]_vars => ServiceInv'
<1> SUFFICES ASSUME ServiceInv, [Next]_vars
             PROVE  ServiceInv'
  OBVIOUS
<1>1. CASE \E r \in Routes : Request(r) \/ ServeStatus(r) \/ ServeQuote(r)
  BY <1>1, RequestKeepsInv, ServeStatusKeepsInv, ServeQuoteKeepsInv
<1>2. CASE StartCycle \/ ScanPayments \/ ObservePayment \/ LapseQuotes \/ ListDue
  BY <1>2, StartCycleKeepsInv, ScanPaymentsKeepsInv, ObservePaymentKeepsInv,
     LapseQuotesKeepsInv, ListDueKeepsInv
<1>3. CASE \E q \in Quotes : AskPrice(q) \/ Settle(q)
  BY <1>3, AskPriceKeepsInv, SettleKeepsInv
<1>4. CASE Skip \/ RefundAndRelease \/ RefundUnsaved \/ FailCycle
  BY <1>4, SkipKeepsInv, RefundAndReleaseKeepsInv, RefundUnsavedKeepsInv,
     FailCycleKeepsInv
<1>5. CASE QueuePayout \/ EndCycle
  BY <1>5, QueuePayoutKeepsInv, EndCycleKeepsInv
<1>6. CASE \E q \in Quotes : QuoteExpires(q) \/ CertificateExpires(q)
  <2>1. /\ late' \subseteq Quotes /\ due' \subseteq Quotes
        /\ UNCHANGED <<chain, ledger, disk, landed, cursor, cycle, outbox, faults>>
    BY <1>6 DEF QuoteExpires, CertificateExpires, ServiceInv, TypeOK
  <2>2. QED
    BY <2>1, TimeKeepsInv
<1>7. CASE \E t \in Transfers : Land(t)
  BY <1>7, LandKeepsInv
<1>8. CASE Crash
  BY <1>8, CrashKeepsInv
<1>9. CASE UNCHANGED vars
  BY <1>9, TimeKeepsInv DEF vars, time, ServiceInv, TypeOK
<1>10. QED
  BY <1>1, <1>2, <1>3, <1>4, <1>5, <1>6, <1>7, <1>8, <1>9 DEF Next

\* The invariant of the web process: the lock, the two ledgers, the scan, the
\* due certificates and the collected payouts are as the cycle expects them at
\* each of its steps (hedge-ledger.ts, settlement-scheduler.ts, runner.ts).
THEOREM ServiceInvariant == Spec => []ServiceInv
<1>1. Init => ServiceInv
  BY ServiceInit
<1>2. ServiceInv /\ [Next]_vars => ServiceInv'
  BY ServiceStep
<1>3. QED
  BY <1>1, <1>2, PTL DEF Spec

\* withHedge answers nobody, and feeds the executor nothing, before the events
\* are on disk; a failed save leaves memory ahead only until the next call.
THEOREM ServiceAnswersAreDurable == Spec => []AnswersAreDurable
<1>1. ServiceInv => AnswersAreDurable
  BY DEF ServiceInv
<1>2. QED
  BY <1>1, ServiceInvariant, PTL

\* The scheduler's outbox has each decision of the log at most once, whatever
\* fails or restarts, although a cycle starts from memory each time.
THEOREM ServiceQueuesOnce == Spec => []QueuedOnceDecided
<1>1. ServiceInv => QueuedOnceDecided
  BY DEF ServiceInv
<1>2. QED
  BY <1>1, ServiceInvariant, PTL

\* The scan cursor of the scheduler never passes a transfer the log lacks.
THEOREM ServiceCursorIsDurable == Spec => []CursorIsDurable
<1>1. ServiceInv => CursorIsDurable
  BY DEF ServiceInv
<1>2. QED
  BY <1>1, ServiceInvariant, PTL

-----------------------------------------------------------------------------
(* The web process and the executor together *)

\* The only change of the outbox: one decision more, that it did not have.
LEMMA OutboxGrows ==
  ASSUME ServiceInv, [Next]_vars
  PROVE  \/ outbox' = outbox
         \/ \E ref \in Refs : /\ outbox' = Append(outbox, ref)
                              /\ \A i \in DOMAIN outbox : outbox[i] # ref
<1>1. CASE QueuePayout
  <2> DEFINE ref == Head(cycle.pending)
  <2>1. cycle.pending \in Seq(Refs) /\ outbox \in Seq(Refs)
    BY DEF ServiceInv, TypeOK, Cycle
  <2>2. ref \in Refs /\ outbox' = Append(outbox, ref)
    BY <1>1, <2>1 DEF QueuePayout
  <2>3. ServiceInv'
    BY ServiceStep
  <2> HIDE DEF ref
  <2>4. \A i, j \in DOMAIN outbox' : outbox'[i] = outbox'[j] => i = j
    BY <2>3 DEF ServiceInv, QueuedOnceDecided
  <2>5. ASSUME NEW i \in DOMAIN outbox, outbox[i] = ref PROVE FALSE
    <3>1. /\ i \in DOMAIN outbox' /\ outbox'[i] = ref
          /\ Len(outbox) + 1 \in DOMAIN outbox' /\ outbox'[Len(outbox) + 1] = ref
          /\ i # Len(outbox) + 1
      BY <2>1, <2>2, <2>5
    <3>2. QED
      BY <2>4, <3>1
  <2>6. QED
    BY <2>2, <2>5
<1>2. CASE Next /\ ~QueuePayout
  <2>1. outbox' = outbox
    BY <1>2, ZenonT(30) DEF Next, Request, ServeStatus, ServeQuote, StartCycle, ScanPayments,
       ObservePayment, LapseQuotes, ListDue, AskPrice, Settle, Skip, RefundAndRelease,
       RefundUnsaved, FailCycle, EndCycle, QuoteExpires, CertificateExpires, Land, Crash
  <2>2. QED
    BY <2>1, SMTT(30)
<1>3. CASE UNCHANGED vars
  BY <1>3 DEF vars
<1>4. QED
  BY <1>1, <1>2, <1>3

\* What the executor has read is there, and what it has paid was queued.
SystemInv ==
  /\ ServiceInv
  /\ todo \subseteq DOMAIN outbox
  /\ paid \in [Refs -> Nat]
  /\ \A ref \in Refs : paid[ref] > 0 => \E i \in DOMAIN outbox : outbox[i] = ref

LEMMA SystemStart == SystemInit => SystemInv
BY ServiceInit DEF SystemInit, SystemInv, Executor!Init

\* A payment is of a line that the outbox has.
LEMMA PayableIsQueued ==
  ASSUME SystemInv, NEW ref \in Refs, Executor!Payable(ref)
  PROVE  \E i \in DOMAIN outbox : outbox[i] = ref
<1>1. outbox \in Seq(Refs) /\ todo \subseteq DOMAIN outbox /\ todo # {}
  BY DEF SystemInv, ServiceInv, TypeOK, Executor!Payable, Executor!Idle
<1>2. todo \subseteq Nat
  BY <1>1
<1>3. Executor!First \in todo
  BY <1>1, <1>2, LeastElement DEF Executor!First
<1>4. Written[Executor!First] = [ref |-> ref, kind |-> "valid"]
  BY DEF Executor!Payable, Executor!Current
<1>5. Written[Executor!First] = [ref |-> outbox[Executor!First], kind |-> "valid"]
  BY <1>1, <1>3 DEF Written
<1>6. outbox[Executor!First] = ref
  BY <1>4, <1>5
<1>7. QED
  BY <1>1, <1>3, <1>6

LEMMA SystemStep == SystemInv /\ [SystemNext]_systemVars => SystemInv'
<1> SUFFICES ASSUME SystemInv, [SystemNext]_systemVars PROVE SystemInv'
  OBVIOUS
<1>1. ServiceInv /\ outbox \in Seq(Refs)
  BY DEF SystemInv, ServiceInv, TypeOK
<1>2. ASSUME [Next]_vars, UNCHANGED executorVars PROVE SystemInv'
  <2>1. ServiceInv'
    BY <1>1, <1>2, ServiceStep
  <2>2. \A i \in DOMAIN outbox : i \in DOMAIN outbox' /\ outbox'[i] = outbox[i]
    BY <1>1, <1>2, OutboxGrows
  <2>3. todo' = todo /\ paid' = paid
    BY <1>2 DEF executorVars
  <2>4. QED
    BY <2>1, <2>2, <2>3 DEF SystemInv
<1>3. ASSUME UNCHANGED vars, Executor!Execute PROVE SystemInv'
  <2>1. ServiceInv' /\ outbox' = outbox
    BY <1>1, <1>3, ServiceStep DEF vars
  <2>2. todo' \subseteq DOMAIN outbox
    <3>1. todo' \subseteq todo \/ todo' \subseteq DOMAIN outbox
      BY <1>3 DEF Executor!Execute, Executor!StartCycle, Executor!Quarantine,
         Executor!Defer, Executor!Pay, Executor!PayFails, Executor!PayUnconfirmed,
         Executor!Restart, Executor!Rest, Executor!Pending, Written
    <3>2. QED
      BY <3>1 DEF SystemInv
  <2>3. \/ paid' = paid
        \/ \E ref \in Refs : Executor!Payable(ref) /\ paid' = [paid EXCEPT ![ref] = @ + 1]
    BY <1>3 DEF Executor!Execute, Executor!StartCycle, Executor!Quarantine,
       Executor!Defer, Executor!Pay, Executor!PayFails, Executor!PayUnconfirmed,
       Executor!Restart, Executor!Landed
  <2>4. /\ paid' \in [Refs -> Nat]
        /\ \A ref \in Refs : paid'[ref] > 0 => \E i \in DOMAIN outbox : outbox[i] = ref
    <3>1. CASE paid' = paid
      BY <3>1 DEF SystemInv
    <3>2. ASSUME NEW ref \in Refs, Executor!Payable(ref),
                 paid' = [paid EXCEPT ![ref] = @ + 1]
          PROVE  /\ paid' \in [Refs -> Nat]
                 /\ \A r \in Refs : paid'[r] > 0 => \E i \in DOMAIN outbox : outbox[i] = r
      <4>1. \E i \in DOMAIN outbox : outbox[i] = ref
        BY <3>2, PayableIsQueued
      <4>2. QED
        BY <3>2, <4>1 DEF SystemInv
    <3>3. QED
      BY <2>3, <3>1, <3>2
  <2>5. QED
    BY <2>1, <2>2, <2>4 DEF SystemInv
<1>4. CASE UNCHANGED systemVars
  <2>1. UNCHANGED vars /\ UNCHANGED executorVars
    BY <1>4 DEF systemVars
  <2>2. QED
    BY <1>2, <2>1
<1>5. QED
  BY <1>2, <1>3, <1>4 DEF SystemNext

LEMMA SystemInvariant == SystemSpec => []SystemInv
<1>1. SystemInv /\ [SystemNext]_systemVars => SystemInv'
  BY SystemStep
<1>2. QED
  BY <1>1, SystemStart, PTL DEF SystemSpec

\* The executor pays nothing that the log of the web process does not owe,
\* though it reads the outbox between any two steps of the web process.
THEOREM SystemPaysDecided == SystemSpec => []OnlyDecidedPaid
<1>1. SystemInv => OnlyDecidedPaid
  BY DEF SystemInv, ServiceInv, QueuedOnceDecided, OnlyDecidedPaid
<1>2. QED
  BY <1>1, SystemInvariant, PTL

\* A decision queued is a line appended to what the executor reads.
LEMMA QueuedIsEnqueued ==
  ASSUME outbox \in Seq(Refs), UNCHANGED executorVars, NEW ref \in Refs,
         outbox' = Append(outbox, ref), \A i \in DOMAIN outbox : outbox[i] # ref
  PROVE  \E line \in Executor!Line : Executor!Enqueue(line)
<1> DEFINE line == [ref |-> ref, kind |-> "valid"]
           n    == Len(outbox)
<1>1. /\ n \in Nat /\ DOMAIN outbox = 1..n /\ DOMAIN outbox' = 1..n + 1
      /\ outbox'[n + 1] = ref /\ \A i \in 1..n : outbox'[i] = outbox[i]
  OBVIOUS
<1>2. line \in Executor!Line
  BY DEF Executor!Line
<1>3. \A l \in Executor!Lines : l.ref # line.ref
  BY DEF Executor!Lines, Written
<1>4. Written' = Append(Written, line)
  <2>1. /\ Written = [i \in 1..n |-> [ref |-> outbox[i], kind |-> "valid"]]
        /\ Written' = [i \in 1..n + 1 |-> [ref |-> outbox'[i], kind |-> "valid"]]
    BY <1>1 DEF Written
  <2>2. Written \in Seq(Executor!Line) /\ Len(Written) = n
    BY <1>1, <2>1 DEF Executor!Line
  <2>3. /\ DOMAIN Append(Written, line) = 1..n + 1
        /\ \A i \in 1..n : Append(Written, line)[i] = Written[i]
        /\ Append(Written, line)[n + 1] = line
    BY <1>1, <1>2, <2>2
  <2>4. QED
    BY <1>1, <2>1, <2>2, <2>3
<1>5. Executor!Enqueue(line)
  BY <1>3, <1>4 DEF Executor!Enqueue, executorVars
<1>6. QED
  BY <1>2, <1>5

LEMMA SystemStepFeeds ==
  ASSUME ServiceInv, [SystemNext]_systemVars
  PROVE  [Executor!Next]_(Executor!vars)
<1>1. outbox \in Seq(Refs)
  BY DEF ServiceInv, TypeOK
<1>2. ASSUME [Next]_vars, UNCHANGED executorVars
      PROVE  [Executor!Next]_(Executor!vars)
  <2>1. CASE outbox' = outbox
    BY <1>2, <2>1 DEF executorVars, Executor!vars, Written
  <2>2. CASE \E ref \in Refs : /\ outbox' = Append(outbox, ref)
                               /\ \A i \in DOMAIN outbox : outbox[i] # ref
    BY <1>1, <1>2, <2>2, QueuedIsEnqueued DEF Executor!Next
  <2>3. QED
    BY <1>2, <2>1, <2>2, OutboxGrows
<1>3. CASE UNCHANGED vars /\ Executor!Execute
  BY <1>3 DEF Executor!Next
<1>4. CASE UNCHANGED systemVars
  BY <1>2, <1>4 DEF systemVars
<1>5. QED
  BY <1>2, <1>3, <1>4 DEF SystemNext

\* The web process keeps the assumption the executor is proved under: its
\* outbox grows by valid lines, each with a reference of its own.
THEOREM SystemFeedsExecutor == SystemSpec => FeedsExecutor
<1>1. SystemInit => Executor!Init
  BY DEF SystemInit
<1>2. ServiceInv /\ [SystemNext]_systemVars => [Executor!Next]_(Executor!vars)
  BY SystemStepFeeds
<1>3. SystemInv => ServiceInv
  BY DEF SystemInv
<1>4. QED
  BY <1>1, <1>2, <1>3, SystemInvariant, PTL DEF SystemSpec, FeedsExecutor

-----------------------------------------------------------------------------
(* What the executor promises of its own holds here too *)

\* The executor of this system, with the lemmas proved about it.
Executing ==
  INSTANCE PayoutExecutorProofs WITH outbox <- Written, MayDamageLines <- FALSE

LEMMA ExecutorConstants == Executing!ExecutorAssumption
BY SystemAssumption DEF Executing!ExecutorAssumption

\* Both instances are of the same definitions.
LEMMA ExecuteIsExecuting ==
  ASSUME Executor!Execute
  PROVE  Executing!Execute
<1>1. /\ Executor!First = Executing!First /\ Executor!Rest = Executing!Rest
      /\ Executor!Current = Executing!Current /\ Executor!Pending = Executing!Pending
      /\ Executor!Idle <=> Executing!Idle
      /\ Executor!files = Executing!files
  BY Zenon DEF Executor!First, Executing!First, Executor!Rest, Executing!Rest,
     Executor!Current, Executing!Current, Executor!Pending, Executing!Pending,
     Executor!Idle, Executing!Idle, Executor!files, Executing!files
<1>2. \A ref : (Executor!Payable(ref) <=> Executing!Payable(ref))
               /\ (Executor!Landed(ref) <=> Executing!Landed(ref))
  BY <1>1, Zenon DEF Executor!Payable, Executing!Payable, Executor!Landed, Executing!Landed
<1>3. \A balance : Executor!MinOf(balance, FloatCap) = Executing!MinOf(balance, FloatCap)
  BY Zenon DEF Executor!MinOf, Executing!MinOf
<1>4. \A balance : Executor!StartCycle(balance) => Executing!StartCycle(balance)
  BY <1>1, <1>3, Zenon DEF Executor!StartCycle, Executing!StartCycle,
     Executor!files, Executing!files
<1>5. Executor!Quarantine \/ Executor!Defer => Executing!Quarantine \/ Executing!Defer
  BY <1>1, Zenon DEF Executor!Quarantine, Executing!Quarantine, Executor!Defer,
     Executing!Defer, Executor!files, Executing!files
<1>6. \A ref : Executor!Pay(ref) => Executing!Pay(ref)
  BY <1>1, <1>2, Zenon DEF Executor!Pay, Executing!Pay
<1>7. \A ref : Executor!PayUnconfirmed(ref) => Executing!PayUnconfirmed(ref)
  BY <1>1, <1>2, Zenon DEF Executor!PayUnconfirmed, Executing!PayUnconfirmed,
     Executor!files, Executing!files
<1>8. Executor!PayFails \/ Executor!Restart => Executing!PayFails \/ Executing!Restart
  BY <1>1, <1>2, Zenon DEF Executor!PayFails, Executing!PayFails, Executor!Restart,
     Executing!Restart, Executor!files, Executing!files
<1>9. QED
  BY <1>4, <1>5, <1>6, <1>7, <1>8, Zenon DEF Executor!Execute, Executing!Execute

LEMMA ExecutingStep ==
  ASSUME Executing!ExecutorInv, [Executor!Next]_(Executor!vars)
  PROVE  Executing!ExecutorInv'
<1>1. [Executing!Next]_(Executing!vars)
  BY ExecuteIsExecuting DEF Executor!Next, Executing!Next, Executor!vars, Executing!vars,
     Executor!Line, Executing!Line, Executor!Lines, Executing!Lines,
     Executor!Enqueue, Executing!Enqueue
<1>2. QED
  BY <1>1, Executing!ExecutorStep, ExecutorConstants

ComposedInv == SystemInv /\ Executing!ExecutorInv

LEMMA ComposedInvariant == SystemSpec => []ComposedInv
<1>1. SystemInit => Executing!ExecutorInv
  <2>1. Executor!Init => Executing!Init
    BY Zenon DEF Executor!Init, Executing!Init
  <2>2. QED
    BY <2>1, Executing!ExecutorInit, ExecutorConstants DEF SystemInit
<1>2. SystemInit => ComposedInv
  BY <1>1, SystemStart DEF ComposedInv
<1>3. ComposedInv /\ [SystemNext]_systemVars => ComposedInv'
  <2> SUFFICES ASSUME ComposedInv, [SystemNext]_systemVars PROVE ComposedInv'
    OBVIOUS
  <2>1. SystemInv'
    BY SystemStep DEF ComposedInv
  <2>2. [Executor!Next]_(Executor!vars)
    BY SystemStepFeeds DEF ComposedInv, SystemInv
  <2>3. Executing!ExecutorInv'
    BY <2>2, ExecutingStep DEF ComposedInv
  <2>4. QED
    BY <2>1, <2>3 DEF ComposedInv
<1>4. QED
  BY <1>2, <1>3, PTL DEF SystemSpec

\* The safety of PaysWhatIsQueued: what Payouts!Spec says but for its fairness.
PaysOnlyWhatIsQueued == Payouts!Init /\ [][Payouts!Next]_(Payouts!payouts)

Queued == {outbox[i] : i \in DOMAIN outbox}

LEMMA WebStepDecides ==
  ASSUME ServiceInv, [Next]_vars, UNCHANGED executorVars
  PROVE  [Payouts!Next]_(Payouts!payouts)
<1>1. outbox \in Seq(Refs) /\ paid' = paid
  BY DEF ServiceInv, TypeOK, executorVars
<1>2. CASE outbox' = outbox
  BY <1>1, <1>2 DEF Payouts!payouts
<1>3. ASSUME NEW ref \in Refs, outbox' = Append(outbox, ref)
      PROVE  Payouts!Decide
  <2>1. /\ DOMAIN outbox \subseteq DOMAIN outbox'
        /\ \A i \in DOMAIN outbox : outbox'[i] = outbox[i]
        /\ outbox' \in Seq(Refs)
    BY <1>1, <1>3
  <2>2. Queued' \subseteq Refs /\ Queued \subseteq Queued'
    BY <2>1 DEF Queued
  <2>3. QED
    BY <1>1, <2>2 DEF Payouts!Decide, Queued
<1>4. QED
  BY <1>2, <1>3, OutboxGrows DEF Payouts!Next

\* The executor's step on what is owed: a first payment, or none.
LEMMA ExecutorStepPays ==
  ASSUME MaxLostAnswers = 0, ComposedInv, UNCHANGED vars, Executor!Execute
  PROVE  [Payouts!Next]_(Payouts!payouts)
<1>1. /\ outbox' = outbox /\ paid \in [Refs -> Nat]
      /\ SystemInv /\ lost = 0 /\ lost \in Nat
      /\ \A i \in todo : Written[i].ref \notin receipts
      /\ \A ref \in Refs : ref \notin receipts => paid[ref] <= lost
  BY DEF vars, ComposedInv, SystemInv, Executing!ExecutorInv, Executing!TypeOK
<1>2. ASSUME NEW ref \in Refs, Executor!Pay(ref)
      PROVE  Payouts!Pay(ref)
  <2>1. /\ Executor!Payable(ref) /\ paid' = [paid EXCEPT ![ref] = @ + 1]
    BY <1>2 DEF Executor!Pay, Executor!Landed
  <2>2. ref \in Queued
    BY <1>1, <2>1, PayableIsQueued DEF Queued
  <2>3. Executor!First \in todo
    <3>1. todo # {} /\ todo \subseteq DOMAIN outbox /\ outbox \in Seq(Refs)
      BY <1>1, <2>1 DEF Executor!Payable, Executor!Idle, SystemInv, ServiceInv, TypeOK
    <3>2. todo \subseteq Nat
      BY <3>1
    <3>3. QED
      BY <3>1, <3>2, LeastElement DEF Executor!First
  <2>4. ref \notin receipts
    BY <1>1, <2>1, <2>3 DEF Executor!Payable, Executor!Current
  <2>5. paid[ref] = 0
    BY <1>1, <2>4
  <2>6. paid' = [paid EXCEPT ![ref] = 1]
    BY <2>1, <2>5
  <2>7. QED
    BY <1>1, <2>2, <2>5, <2>6 DEF Payouts!Pay, Queued
<1>3. ASSUME NEW ref \in Refs, Executor!PayUnconfirmed(ref) PROVE FALSE
  BY <1>1, <1>3 DEF Executor!PayUnconfirmed
<1>4. paid' = paid => UNCHANGED Payouts!payouts
  BY <1>1 DEF Payouts!payouts
<1>5. \/ paid' = paid
      \/ \E ref \in Refs : Executor!Pay(ref) \/ Executor!PayUnconfirmed(ref)
  BY DEF Executor!Execute, Executor!StartCycle, Executor!Quarantine, Executor!Defer,
     Executor!PayFails, Executor!Restart
<1>6. QED
  BY <1>2, <1>3, <1>4, <1>5 DEF Payouts!Next

\* When no answer to a landed transfer is lost, every payout is one that was
\* queued and none is made twice: however the two processes crash, restart, fail
\* and interleave, together they take only the steps of OwedPayouts.
THEOREM SystemPaysOnce ==
  MaxLostAnswers = 0 => (SystemSpec => PaysOnlyWhatIsQueued)
<1> SUFFICES ASSUME MaxLostAnswers = 0
             PROVE  SystemSpec => PaysOnlyWhatIsQueued
  OBVIOUS
<1>1. SystemInit => Payouts!Init
  BY DEF SystemInit, Init, Executor!Init, Payouts!Init
<1>2. ComposedInv /\ [SystemNext]_systemVars => [Payouts!Next]_(Payouts!payouts)
  <2> SUFFICES ASSUME ComposedInv, [SystemNext]_systemVars
               PROVE  [Payouts!Next]_(Payouts!payouts)
    OBVIOUS
  <2>1. ServiceInv
    BY DEF ComposedInv, SystemInv
  <2>2. CASE UNCHANGED systemVars
    BY <2>1, <2>2, WebStepDecides DEF systemVars
  <2>3. QED
    BY <2>1, <2>2, WebStepDecides, ExecutorStepPays DEF SystemNext
<1>3. QED
  BY <1>1, <1>2, ComposedInvariant, PTL DEF SystemSpec, PaysOnlyWhatIsQueued
=============================================================================
