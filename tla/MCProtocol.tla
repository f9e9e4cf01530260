---------------------------- MODULE MCProtocol ----------------------------
(***************************************************************************)
(* The protocol core (ProtocolCore) on a small instance, and the fees of   *)
(* one position (FeeGrowth) under its readers (FeeReads), one at a time.   *)
(* `part' is what runs, the rest stays at its start: the core; the pool    *)
(* alone, with larger amounts; the collector, while the owner may change   *)
(* the position; both recorders of snapshots; or the fee reader of the     *)
(* settlement.                                                             *)
(***************************************************************************)
EXTENDS MCProtocolCore, FeeReads

CONSTANTS WideAmounts, WideMaxReserves, WideExact

VARIABLE part

\* The pool with amounts for which every kind of rounding occurs: a share too
\* many or too few, a unit too many, dust that the last withdrawal leaves.
Wide == INSTANCE ProtocolCore WITH
  Amounts <- WideAmounts, MaxReserves <- WideMaxReserves,
  MaxShares <- WideMaxReserves, Exact <- WideExact

allVars == <<part, vars, readsVars>>

\* The readers of each part.
Active ==
  [core |-> {}, pool |-> {}, collector |-> {Collector}, recorders |-> Recorders,
   settlement |-> {FeeReader}]

PartsInit ==
  /\ part \in DOMAIN Active
  /\ Init /\ ReadsInit
  /\ part \in {"core", "pool"} => whirlpool.tick = 0

CoreStep == part = "core" /\ Next /\ UNCHANGED readsVars

PoolStep ==
  /\ part = "pool"
  /\ \/ Wide!InitPool
     \/ \E o \in Owners, amount \in WideAmounts : Wide!Deposit(o, amount)
     \/ \E o \in Owners : \E burnt \in 1..shareLedger[o] : Wide!Withdraw(o, burnt)
  /\ UNCHANGED readsVars

ChainMoves ==
  /\ part \notin {"core", "pool"} /\ ChainStep
  /\ part = "recorders" => changes' = 0
  /\ UNCHANGED <<readVars, vars>>

Reads ==
  /\ (\E r \in Active[part] : Read(r)) \/ (part = "settlement" /\ Expire)
  /\ UNCHANGED <<chainVars, vars>>

PartsNext == (CoreStep \/ PoolStep \/ ChainMoves \/ Reads) /\ UNCHANGED part

PartsSpec == PartsInit /\ [][PartsNext]_allVars /\ Fairness
=============================================================================
