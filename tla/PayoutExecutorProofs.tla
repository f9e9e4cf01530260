----------------------- MODULE PayoutExecutorProofs -----------------------
(***************************************************************************)
(* The payout executor repeats no receipted transfer and pays only valid   *)
(* lines, for every outbox, every float and every number of failures.      *)
(***************************************************************************)
EXTENDS PayoutExecutor, PrefixSumsProofs

-----------------------------------------------------------------------------
(* What a cycle has read is still so when it comes to it *)

\* A reference is queued once; a line still to be done has no receipt; a receipt
\* stands for a transfer that landed, and all other transfers are counted in
\* `lost'; the budget and what was spent never exceed the cap together.
ExecutorInv ==
  /\ TypeOK
  /\ \A i, j \in DOMAIN outbox : outbox[i].ref = outbox[j].ref => i = j
  /\ \A i \in todo : outbox[i].ref \notin receipts
  /\ \A ref \in Refs :
       /\ ref \in receipts => paid[ref] > 0
       /\ paid[ref] <= lost + (IF ref \in receipts THEN 1 ELSE 0)
  /\ lost = 0 => spent + budget <= FloatCap

\* The line a cycle works on is one of those it read.
LEMMA FirstIsToDo ==
  ASSUME TypeOK, ~Idle
  PROVE  First \in todo /\ Current \in Line /\ Current \in Lines
<1>1. todo \subseteq Nat /\ todo # {}
  BY DEF TypeOK, Idle
<1>2. \E i \in todo : \A j \in todo : i <= j
  BY <1>1, LeastElement
<1>3. First \in todo
  BY <1>2 DEF First
<1>4. QED
  BY <1>3 DEF TypeOK, Current, Lines

\* Appending a line leaves the others where they are.
LEMMA EnqueueKeepsLines ==
  ASSUME TypeOK, NEW line \in Line, outbox' = Append(outbox, line)
  PROVE  /\ outbox' \in Seq(Line)
         /\ DOMAIN outbox \subseteq DOMAIN outbox'
         /\ \A i \in DOMAIN outbox : outbox'[i] = outbox[i]
         /\ \A i \in DOMAIN outbox' : i \in DOMAIN outbox \/ (outbox'[i] = line /\ i = Len(outbox) + 1)
BY DEF TypeOK

LEMMA ExecutorInit == Init => ExecutorInv
BY ExecutorAssumption DEF Init, ExecutorInv, TypeOK

LEMMA EnqueueKeepsInv ==
  ASSUME ExecutorInv, NEW line \in Line, Enqueue(line)
  PROVE  ExecutorInv'
<1>1. TypeOK /\ outbox' = Append(outbox, line)
      /\ UNCHANGED <<receipts, quarantine, todo, budget, paid, spent, lost, restarts>>
  BY DEF ExecutorInv, Enqueue
<1>2. /\ outbox' \in Seq(Line)
      /\ DOMAIN outbox \subseteq DOMAIN outbox'
      /\ \A i \in DOMAIN outbox : outbox'[i] = outbox[i]
      /\ \A i \in DOMAIN outbox' : i \in DOMAIN outbox \/ (outbox'[i] = line /\ i = Len(outbox) + 1)
  BY <1>1, EnqueueKeepsLines
<1>3. TypeOK'
  BY <1>1, <1>2 DEF TypeOK
<1>4. \A i, j \in DOMAIN outbox' : outbox'[i].ref = outbox'[j].ref => i = j
  BY <1>2 DEF ExecutorInv, Enqueue, Lines
<1>5. \A i \in todo' : outbox'[i].ref \notin receipts'
  BY <1>1, <1>2 DEF ExecutorInv, TypeOK
<1>6. QED
  BY <1>1, <1>3, <1>4, <1>5 DEF ExecutorInv

LEMMA StartKeepsInv ==
  ASSUME ExecutorInv, NEW balance \in Balances, StartCycle(balance)
  PROVE  ExecutorInv'
<1>1. balance \in Nat /\ FloatCap \in Nat
  BY ExecutorAssumption
<1>2. budget' \in 0..FloatCap /\ spent' = 0
  BY <1>1 DEF StartCycle, MinOf
<1>3. todo' \subseteq DOMAIN outbox /\ \A i \in todo' : outbox[i].ref \notin receipts
  BY DEF StartCycle, Pending
<1>4. UNCHANGED <<outbox, receipts, quarantine, paid, lost, restarts>>
  BY DEF StartCycle, files
<1>5. TypeOK'
  BY <1>2, <1>3, <1>4 DEF ExecutorInv, TypeOK
<1>6. \A i \in todo' : outbox'[i].ref \notin receipts'
  BY <1>3, <1>4
<1>7. spent' + budget' <= FloatCap
  <2>1. budget' \in Nat /\ budget' <= FloatCap
    BY <1>1, <1>2
  <2>2. spent' = 0
    BY <1>2
  <2>3. QED
    BY <2>1, <2>2
<1>8. QED
  BY <1>4, <1>5, <1>6, <1>7 DEF ExecutorInv

\* Steps that only pass over lines.
LEMMA SkipKeepsInv ==
  ASSUME ExecutorInv, todo' \subseteq todo, quarantine' \subseteq Refs,
         restarts' \in 0..MaxRestarts,
         UNCHANGED <<outbox, receipts, budget, paid, spent, lost>>
  PROVE  ExecutorInv'
<1>1. TypeOK'
  BY DEF ExecutorInv, TypeOK
<1>2. QED
  BY <1>1 DEF ExecutorInv

LEMMA PayKeepsInv ==
  ASSUME ExecutorInv, NEW ref \in Refs, Pay(ref)
  PROVE  ExecutorInv'
<1>1. /\ First \in todo /\ outbox[First].ref = ref
      /\ Amount[ref] \in Nat /\ Amount[ref] <= budget
  BY FirstIsToDo, ExecutorAssumption DEF ExecutorInv, Pay, Payable, Current
<1>2. /\ ref \notin receipts /\ First \in DOMAIN outbox
      /\ paid[ref] \in Nat /\ lost \in Nat /\ spent \in Nat /\ budget \in Nat
      /\ FloatCap \in Nat
  BY <1>1, ExecutorAssumption DEF ExecutorInv, TypeOK
<1>3. /\ paid' = [paid EXCEPT ![ref] = @ + 1] /\ spent' = spent + Amount[ref]
      /\ budget' = budget - Amount[ref] /\ receipts' = receipts \cup {ref}
      /\ todo' = todo \ {First}
      /\ UNCHANGED <<outbox, quarantine, lost, restarts>>
  BY DEF Pay, Landed, Rest
<1>4. TypeOK'
  <2>1. TypeOK
    BY DEF ExecutorInv
  <2>2. budget' \in 0..FloatCap
    <3>1. budget \in 0..FloatCap
      BY <2>1 DEF TypeOK
    <3>2. QED
      BY <1>1, <1>2, <1>3, <3>1
  <2>3. spent' \in Nat
    BY <1>1, <1>2, <1>3
  <2>4. paid' \in [Refs -> Nat]
    BY <1>2, <1>3, <2>1 DEF TypeOK
  <2>5. receipts' \subseteq Refs /\ todo' \subseteq DOMAIN outbox
    BY <1>3, <2>1 DEF TypeOK
  <2>6. QED
    BY <1>3, <2>1, <2>2, <2>3, <2>4, <2>5 DEF TypeOK
<1>5. \A i \in todo' : outbox'[i].ref \notin receipts'
  BY <1>1, <1>2, <1>3 DEF ExecutorInv, TypeOK
<1>6. \A r \in Refs : /\ r \in receipts' => paid'[r] > 0
                      /\ paid'[r] <= lost' + (IF r \in receipts' THEN 1 ELSE 0)
  BY <1>2, <1>3 DEF ExecutorInv, TypeOK
<1>7. lost' = 0 => spent' + budget' <= FloatCap
  BY <1>1, <1>2, <1>3 DEF ExecutorInv
<1>8. QED
  BY <1>3, <1>4, <1>5, <1>6, <1>7 DEF ExecutorInv

LEMMA UnconfirmedKeepsInv ==
  ASSUME ExecutorInv, NEW ref \in Refs, PayUnconfirmed(ref)
  PROVE  ExecutorInv'
<1>1. /\ Amount[ref] \in Nat /\ Amount[ref] <= budget
      /\ paid \in [Refs -> Nat] /\ lost \in Nat /\ spent \in Nat /\ budget \in 0..FloatCap
      /\ FloatCap \in Nat /\ MaxLostAnswers \in Nat
  BY ExecutorAssumption DEF ExecutorInv, TypeOK, PayUnconfirmed, Payable
<1>2. /\ paid' = [paid EXCEPT ![ref] = @ + 1] /\ spent' = spent + Amount[ref]
      /\ lost' = lost + 1 /\ lost < MaxLostAnswers
      /\ budget' \in {budget, budget - Amount[ref]}
      /\ todo' \subseteq todo
      /\ UNCHANGED <<outbox, receipts, quarantine, restarts>>
  BY DEF PayUnconfirmed, Landed, Rest, files
<1>3. TypeOK'
  <2>1. paid' \in [Refs -> Nat]
    BY <1>1, <1>2
  <2>2. budget' \in 0..FloatCap
    BY <1>1, <1>2
  <2>3. spent' \in Nat /\ lost' \in 0..MaxLostAnswers
    BY <1>1, <1>2
  <2>4. QED
    BY <1>2, <2>1, <2>2, <2>3 DEF ExecutorInv, TypeOK
<1>4. \A r \in Refs : /\ r \in receipts' => paid'[r] > 0
                      /\ paid'[r] <= lost' + (IF r \in receipts' THEN 1 ELSE 0)
  BY <1>1, <1>2 DEF ExecutorInv
<1>5. lost' # 0
  BY <1>1, <1>2
<1>6. QED
  BY <1>2, <1>3, <1>4, <1>5 DEF ExecutorInv

LEMMA ExecuteKeepsInv ==
  ASSUME ExecutorInv, Execute
  PROVE  ExecutorInv'
<1>0. TypeOK
  BY DEF ExecutorInv
<1>1. ASSUME NEW balance \in Balances, StartCycle(balance) PROVE ExecutorInv'
  BY <1>1, StartKeepsInv
<1>2. CASE Quarantine
  <2>1. Current \in Line
    BY <1>0, <1>2, FirstIsToDo DEF Quarantine
  <2>2. QED
    BY <1>0, <1>2, <2>1, SkipKeepsInv DEF Quarantine, Rest, Line, TypeOK
<1>3. CASE Defer
  BY <1>0, <1>3, SkipKeepsInv DEF Defer, files, TypeOK
<1>4. ASSUME NEW ref \in Refs, Pay(ref) PROVE ExecutorInv'
  BY <1>4, PayKeepsInv
<1>5. CASE PayFails
  BY <1>0, <1>5, SkipKeepsInv DEF PayFails, Rest, files, TypeOK
<1>6. ASSUME NEW ref \in Refs, PayUnconfirmed(ref) PROVE ExecutorInv'
  BY <1>6, UnconfirmedKeepsInv
<1>7. CASE Restart
  BY <1>0, <1>7, SkipKeepsInv, ExecutorAssumption DEF Restart, files, TypeOK
<1>8. QED
  BY <1>1, <1>2, <1>3, <1>4, <1>5, <1>6, <1>7 DEF Execute

LEMMA ExecutorStep == ExecutorInv /\ [Next]_vars => ExecutorInv'
<1> SUFFICES ASSUME ExecutorInv, [Next]_vars PROVE ExecutorInv'
  OBVIOUS
<1>1. CASE UNCHANGED vars
  BY <1>1 DEF vars, ExecutorInv, TypeOK
<1>2. CASE Next
  BY <1>2, ExecuteKeepsInv, EnqueueKeepsInv DEF Next
<1>3. QED
  BY <1>1, <1>2

LEMMA ExecutorInvariant == Spec => []ExecutorInv
BY ExecutorInit, ExecutorStep, PTL DEF Spec

-----------------------------------------------------------------------------
(* Theorems *)

\* The files and the cycle keep their types.
THEOREM ExecutorTypeOK == Spec => []TypeOK
<1>1. ExecutorInv => TypeOK
  BY DEF ExecutorInv
<1>2. QED
  BY <1>1, ExecutorInvariant, PTL

\* A receipted transfer is never repeated: whatever fails or restarts, and
\* however often, each repetition and each micro-USDC beyond the float cap is
\* one transfer that landed without an answer.
THEOREM ExecutorRepeatsNothing == Spec => []RepeatsAreLostAnswers
<1>1. ExecutorInv => RepeatsAreLostAnswers
  BY ExecutorAssumption DEF ExecutorInv, TypeOK, RepeatsAreLostAnswers
<1>2. QED
  BY <1>1, ExecutorInvariant, PTL

\* Nothing is paid but lines of the file that validEntry accepts.
THEOREM ExecutorPaysValidLines == Spec => []OnlyValidPaid
<1>1. Init => OnlyValidPaid
  BY DEF Init, OnlyValidPaid
<1>2. ExecutorInv /\ OnlyValidPaid /\ [Next]_vars => OnlyValidPaid'
  <2> SUFFICES ASSUME ExecutorInv, OnlyValidPaid, [Next]_vars PROVE OnlyValidPaid'
    OBVIOUS
  <2>0. TypeOK
    BY DEF ExecutorInv
  <2>1. Lines \subseteq Lines'
    <3>1. ASSUME NEW line \in Line, Enqueue(line) PROVE Lines \subseteq Lines'
      BY <2>0, <3>1, EnqueueKeepsLines DEF Enqueue, Lines
    <3>2. CASE UNCHANGED outbox
      BY <3>2 DEF Lines
    <3>3. QED
      BY <3>1, <3>2 DEF Next, Execute, StartCycle, Quarantine, Defer, Pay, PayFails,
                        PayUnconfirmed, Restart, files, vars
  <2>2. ASSUME NEW ref \in Refs, Payable(ref), Landed(ref) PROVE OnlyValidPaid'
    <3>1. [ref |-> ref, kind |-> "valid"] \in Lines
      BY <2>0, <2>2, FirstIsToDo DEF Payable
    <3>2. QED
      BY <2>0, <2>1, <2>2, <3>1 DEF OnlyValidPaid, Landed, TypeOK
  <2>3. CASE UNCHANGED paid
    BY <2>1, <2>3 DEF OnlyValidPaid
  <2>4. QED
    BY <2>2, <2>3 DEF Next, Execute, StartCycle, Quarantine, Defer, Pay, PayFails,
                      PayUnconfirmed, Restart, Enqueue, vars
<1>3. QED
  BY <1>1, <1>2, ExecutorInvariant, PTL DEF Spec
=============================================================================
