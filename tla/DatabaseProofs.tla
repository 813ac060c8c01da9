---------------------------- MODULE DatabaseProofs -----------------------------
(***************************************************************************)
(* Proofs about the databases, each alone and in their registry:            *)
(*   1. Engine, for every set of threads and every bound: no engine is lost, *)
(*      and a lazy block checks out one connection.  Both rest on the mutual *)
(*      exclusion of the two locks, which EngineInv spells out: who is where *)
(*      holds which lock, and what nobody can have changed since;            *)
(*   2. Retry, for every number of retries;                                  *)
(*   3. Registry, for any number of aliases, databases and blocks: no pool   *)
(*      is lost, the override is that of the innermost using() block,        *)
(*      transactions() commits nothing after a failure, what models write    *)
(*      under using() is kept or dropped as one, and the transactions of the *)
(*      databases are units of work.                                         *)
(***************************************************************************)
EXTENDS Engine, Retry, Registry, FiniteSetTheorems, SequenceTheorems, TLAPS

(* 1. The engine of one database, shared by threads *)

UnderEngineLock == {"look", "build", "assign", "dispose", "forget"}
InCell == {"checkout", "check", "lock", "look", "build", "assign", "read", "open"}

LockInv ==
    \A t \in Thread :
        /\ lock = t <=> thread[t].pc \in UnderEngineLock
        /\ thread[t].pc \in {"build", "assign"} => engine = 0
        /\ thread[t].pc = "assign" => thread[t].got \in 1 .. built
        /\ thread[t].pc = "forget" => engine \in disposed

CellInv ==
    /\ \A t \in Thread :
        /\ cellLock = t <=> thread[t].call = "get" /\ thread[t].pc \in InCell
        /\ cellLock = t /\ thread[t].pc # "checkout" => cell = 0
    /\ opened = IF cell = 0 THEN 0 ELSE 1

CallInv ==
    \A t \in Thread :
        /\ thread[t].pc = "connected" => thread[t].call = "connect"
        /\ thread[t].pc \in {"cell", "checkout"} => thread[t].call = "get"
        /\ thread[t].pc \in {"dispose_lock", "dispose", "forget"} => thread[t].call = "dispose"

EngineInv == TypeOK /\ engine <= built /\ LockInv /\ CellInv /\ CallInv /\ NoEngineIsLost

------------------------------------------------------------------------------
\* Nothing is built, held or open at the start.
LEMMA EngineStarts == EngineInit => EngineInv
  BY ThreadAssumption, EngineBoundsAssumption
  DEF EngineInit, EngineInv, TypeOK, LockInv, CellInv, CallInv, NoEngineIsLost, IdleThread,
      ThreadAt,
      Calls, Places, UnderEngineLock, InCell

\* Calling and closing touch no lock and nothing that is shared.
LEMMA CallKeeps == ASSUME EngineInv, NEW t \in Thread, NEW c \in Calls, Call(t, c) PROVE EngineInv'
  <1>1. TypeOK' /\ (engine <= built)'
    BY EngineBoundsAssumption DEF EngineInv, TypeOK, Call, ThreadAt, Calls, Places
  <1>2. LockInv' /\ CallInv'
    BY ThreadAssumption
    DEF EngineInv, TypeOK, LockInv, CallInv, Call, ThreadAt, Calls, UnderEngineLock
  <1>3. CellInv'
    BY ThreadAssumption DEF EngineInv, TypeOK, CellInv, Call, ThreadAt, Calls, InCell
  <1>4. NoEngineIsLost'
    BY DEF EngineInv, TypeOK, NoEngineIsLost, Call, ThreadAt, Calls
  <1> QED BY <1>1, <1>2, <1>3, <1>4 DEF EngineInv
\* A thread takes the lock of the cell only when it is free.
LEMMA TakeCellKeeps == ASSUME EngineInv, NEW t \in Thread, TakeCell(t) PROVE EngineInv'
  <1>1. TypeOK' /\ (engine <= built)'
    BY ThreadAssumption, EngineBoundsAssumption
    DEF EngineInv, TypeOK, LockInv, TakeCell, ThreadAt, Goes, Calls, Places
  <1>2. LockInv' /\ CallInv'
    BY ThreadAssumption
    DEF EngineInv, TypeOK, LockInv, CallInv, TakeCell, ThreadAt, Goes, Calls,
        UnderEngineLock
  <1>3. CellInv'
    BY ThreadAssumption
    DEF EngineInv, TypeOK, CellInv, CallInv, TakeCell, ThreadAt, Goes, Calls, InCell
  <1>4. NoEngineIsLost'
    BY DEF EngineInv, TypeOK, LockInv, NoEngineIsLost, UnderEngineLock, TakeCell, ThreadAt,
           Goes, Calls
  <1> QED BY <1>1, <1>2, <1>3, <1>4 DEF EngineInv

\* Under the lock of the cell a thread looks whether it was opened.
LEMMA CheckOutKeeps == ASSUME EngineInv, NEW t \in Thread, CheckOut(t) PROVE EngineInv'
  <1>1. TypeOK' /\ (engine <= built)'
    BY ThreadAssumption, EngineBoundsAssumption
    DEF EngineInv, TypeOK, LockInv, CheckOut, ThreadAt, Goes, Returns, Calls, Places
  <1>2. LockInv' /\ CallInv'
    BY ThreadAssumption
    DEF EngineInv, TypeOK, LockInv, CallInv, CheckOut, ThreadAt, Goes, Returns, Calls,
        UnderEngineLock
  <1>3. CellInv'
    BY ThreadAssumption
    DEF EngineInv, TypeOK, CellInv, CallInv, CheckOut, ThreadAt, Goes, Returns, Calls,
        InCell
  <1>4. NoEngineIsLost'
    BY DEF EngineInv, TypeOK, LockInv, NoEngineIsLost, UnderEngineLock, CheckOut, ThreadAt,
           Goes, Returns, Calls
  <1> QED BY <1>1, <1>2, <1>3, <1>4 DEF EngineInv

\* A look at the engine without the lock.
LEMMA CheckKeeps == ASSUME EngineInv, NEW t \in Thread, Check(t) PROVE EngineInv'
  <1>1. TypeOK' /\ (engine <= built)'
    BY ThreadAssumption, EngineBoundsAssumption
    DEF EngineInv, TypeOK, LockInv, Check, ThreadAt, Goes, Calls, Places
  <1>2. LockInv' /\ CallInv'
    BY ThreadAssumption
    DEF EngineInv, TypeOK, LockInv, CallInv, Check, ThreadAt, Goes, Calls, UnderEngineLock
  <1>3. CellInv'
    BY ThreadAssumption
    DEF EngineInv, TypeOK, CellInv, CallInv, Check, ThreadAt, Goes, Calls, InCell
  <1>4. NoEngineIsLost'
    BY DEF EngineInv, TypeOK, LockInv, NoEngineIsLost, UnderEngineLock, Check, ThreadAt,
           Goes, Calls
  <1> QED BY <1>1, <1>2, <1>3, <1>4 DEF EngineInv

\* A thread takes the lock of the engine only when it is free.
LEMMA TakeLockKeeps == ASSUME EngineInv, NEW t \in Thread, TakeLock(t) PROVE EngineInv'
  <1>1. TypeOK' /\ (engine <= built)'
    BY ThreadAssumption, EngineBoundsAssumption
    DEF EngineInv, TypeOK, LockInv, TakeLock, ThreadAt, Goes, Calls, Places
  <1>2. LockInv' /\ CallInv'
    BY ThreadAssumption
    DEF EngineInv, TypeOK, LockInv, CallInv, TakeLock, ThreadAt, Goes, Calls,
        UnderEngineLock
  <1>3. CellInv'
    BY ThreadAssumption
    DEF EngineInv, TypeOK, CellInv, CallInv, TakeLock, ThreadAt, Goes, Calls, InCell
  <1>4. NoEngineIsLost'
    BY DEF EngineInv, TypeOK, LockInv, NoEngineIsLost, UnderEngineLock, TakeLock, ThreadAt,
           Goes, Calls
  <1> QED BY <1>1, <1>2, <1>3, <1>4 DEF EngineInv

\* A look at the engine under the lock.
LEMMA LookKeeps == ASSUME EngineInv, NEW t \in Thread, Look(t) PROVE EngineInv'
  <1>1. TypeOK' /\ (engine <= built)'
    BY ThreadAssumption, EngineBoundsAssumption
    DEF EngineInv, TypeOK, LockInv, Look, ThreadAt, Goes, Calls, Places
  <1>2. LockInv' /\ CallInv'
    BY ThreadAssumption
    DEF EngineInv, TypeOK, LockInv, CallInv, Look, ThreadAt, Goes, Calls, UnderEngineLock
  <1>3. CellInv'
    BY ThreadAssumption
    DEF EngineInv, TypeOK, CellInv, CallInv, Look, ThreadAt, Goes, Calls, InCell
  <1>4. NoEngineIsLost'
    BY DEF EngineInv, TypeOK, LockInv, NoEngineIsLost, UnderEngineLock, Look, ThreadAt,
           Goes, Calls
  <1> QED BY <1>1, <1>2, <1>3, <1>4 DEF EngineInv

\* A new engine is about to be the current one, or was never built.
LEMMA BuildKeeps == ASSUME EngineInv, NEW t \in Thread, Build(t) PROVE EngineInv'
  <1>1. TypeOK' /\ (engine <= built)'
    BY ThreadAssumption, EngineBoundsAssumption
    DEF EngineInv, TypeOK, LockInv, Build, ThreadAt, Goes, Returns, Calls, Places
  <1>2. LockInv' /\ CallInv'
    BY ThreadAssumption
    DEF EngineInv, TypeOK, LockInv, CallInv, Build, ThreadAt, Goes, Returns, Calls,
        UnderEngineLock
  <1>3. CellInv'
    BY ThreadAssumption
    DEF EngineInv, TypeOK, CellInv, CallInv, Build, ThreadAt, Goes, Returns, Calls, InCell
  <1>4. NoEngineIsLost'
    BY DEF EngineInv, TypeOK, LockInv, NoEngineIsLost, UnderEngineLock, Build, ThreadAt,
           Goes, Returns, Calls
  <1> QED BY <1>1, <1>2, <1>3, <1>4 DEF EngineInv

\* The engine that was built takes the place of none.
LEMMA AssignKeeps == ASSUME EngineInv, NEW t \in Thread, Assign(t) PROVE EngineInv'
  <1>1. TypeOK' /\ (engine <= built)'
    BY ThreadAssumption, EngineBoundsAssumption
    DEF EngineInv, TypeOK, LockInv, Assign, ThreadAt, Calls, Places
  <1>2. LockInv' /\ CallInv'
    BY ThreadAssumption
    DEF EngineInv, TypeOK, LockInv, CallInv, Assign, ThreadAt, Calls, UnderEngineLock
  <1>3. CellInv'
    BY ThreadAssumption
    DEF EngineInv, TypeOK, CellInv, CallInv, Assign, ThreadAt, Calls, InCell
  <1>4. NoEngineIsLost'
    BY DEF EngineInv, TypeOK, LockInv, NoEngineIsLost, UnderEngineLock, Assign, ThreadAt,
           Calls
  <1> QED BY <1>1, <1>2, <1>3, <1>4 DEF EngineInv

\* A read of the engine without the lock.
LEMMA ReadKeeps == ASSUME EngineInv, NEW t \in Thread, Read(t) PROVE EngineInv'
  <1>1. TypeOK' /\ (engine <= built)'
    BY ThreadAssumption, EngineBoundsAssumption
    DEF EngineInv, TypeOK, LockInv, Read, ThreadAt, Calls, Places
  <1>2. LockInv' /\ CallInv'
    BY ThreadAssumption
    DEF EngineInv, TypeOK, LockInv, CallInv, Read, ThreadAt, Calls, UnderEngineLock
  <1>3. CellInv'
    BY ThreadAssumption
    DEF EngineInv, TypeOK, CellInv, CallInv, Read, ThreadAt, Calls, InCell
  <1>4. NoEngineIsLost'
    BY DEF EngineInv, TypeOK, LockInv, NoEngineIsLost, UnderEngineLock, Read, ThreadAt,
           Calls
  <1> QED BY <1>1, <1>2, <1>3, <1>4 DEF EngineInv

\* The cell is opened by the thread that found it closed.
LEMMA OpenKeeps == ASSUME EngineInv, NEW t \in Thread, OpenConnection(t) PROVE EngineInv'
  <1>1. TypeOK' /\ (engine <= built)'
    BY ThreadAssumption, EngineBoundsAssumption
    DEF EngineInv, TypeOK, LockInv, OpenConnection, ThreadAt, Goes, Returns, Calls, Places
  <1>2. LockInv' /\ CallInv'
    BY ThreadAssumption
    DEF EngineInv, TypeOK, LockInv, CallInv, OpenConnection, ThreadAt, Goes, Returns, Calls,
        UnderEngineLock
  <1>3. CellInv'
    BY ThreadAssumption
    DEF EngineInv, TypeOK, CellInv, CallInv, OpenConnection, ThreadAt, Goes, Returns, Calls,
        InCell
  <1>4. NoEngineIsLost'
    BY DEF EngineInv, TypeOK, LockInv, NoEngineIsLost, UnderEngineLock, OpenConnection,
           ThreadAt, Goes, Returns, Calls
  <1> QED BY <1>1, <1>2, <1>3, <1>4 DEF EngineInv

\* A connection is closed.
LEMMA CloseKeeps == ASSUME EngineInv, NEW t \in Thread, CloseConnection(t) PROVE EngineInv'
  <1>1. TypeOK' /\ (engine <= built)'
    BY ThreadAssumption, EngineBoundsAssumption
    DEF EngineInv, TypeOK, LockInv, CloseConnection, ThreadAt, Goes, Returns, Calls, Places
  <1>2. LockInv' /\ CallInv'
    BY ThreadAssumption
    DEF EngineInv, TypeOK, LockInv, CallInv, CloseConnection, ThreadAt, Goes, Returns,
        Calls, UnderEngineLock
  <1>3. CellInv'
    BY ThreadAssumption
    DEF EngineInv, TypeOK, CellInv, CallInv, CloseConnection, ThreadAt, Goes, Returns,
        Calls, InCell
  <1>4. NoEngineIsLost'
    BY DEF EngineInv, TypeOK, LockInv, NoEngineIsLost, UnderEngineLock, CloseConnection,
           ThreadAt, Goes, Returns, Calls
  <1> QED BY <1>1, <1>2, <1>3, <1>4 DEF EngineInv

\* The current engine is disposed of.
LEMMA DisposeKeeps == ASSUME EngineInv, NEW t \in Thread, DisposeEngine(t) PROVE EngineInv'
  <1>1. TypeOK' /\ (engine <= built)'
    BY ThreadAssumption, EngineBoundsAssumption
    DEF EngineInv, TypeOK, LockInv, DisposeEngine, ThreadAt, Goes, Returns, Calls, Places
  <1>2. LockInv' /\ CallInv'
    BY ThreadAssumption
    DEF EngineInv, TypeOK, LockInv, CallInv, DisposeEngine, ThreadAt, Goes, Returns, Calls,
        UnderEngineLock
  <1>3. CellInv'
    BY ThreadAssumption
    DEF EngineInv, TypeOK, CellInv, CallInv, DisposeEngine, ThreadAt, Goes, Returns, Calls,
        InCell
  <1>4. NoEngineIsLost'
    BY DEF EngineInv, TypeOK, LockInv, NoEngineIsLost, UnderEngineLock, DisposeEngine,
           ThreadAt, Goes, Returns, Calls
  <1> QED BY <1>1, <1>2, <1>3, <1>4 DEF EngineInv

\* The engine that is forgotten has been disposed of.
LEMMA ForgetKeeps == ASSUME EngineInv, NEW t \in Thread, Forget(t) PROVE EngineInv'
  <1>1. TypeOK' /\ (engine <= built)'
    BY ThreadAssumption, EngineBoundsAssumption
    DEF EngineInv, TypeOK, LockInv, Forget, ThreadAt, Goes, Returns, Calls, Places
  <1>2. LockInv' /\ CallInv'
    BY ThreadAssumption
    DEF EngineInv, TypeOK, LockInv, CallInv, Forget, ThreadAt, Goes, Returns, Calls,
        UnderEngineLock
  <1>3. CellInv'
    BY ThreadAssumption
    DEF EngineInv, TypeOK, CellInv, CallInv, Forget, ThreadAt, Goes, Returns, Calls, InCell
  <1>4. NoEngineIsLost'
    BY DEF EngineInv, TypeOK, LockInv, NoEngineIsLost, UnderEngineLock, Forget, ThreadAt,
           Goes, Returns, Calls
  <1> QED BY <1>1, <1>2, <1>3, <1>4 DEF EngineInv

------------------------------------------------------------------------------
\* Every step keeps the invariant.
LEMMA EngineSteps == EngineInv /\ [EngineNext]_engineVars => EngineInv'
  <1> SUFFICES ASSUME EngineInv, [EngineNext]_engineVars PROVE EngineInv'
    OBVIOUS
  <1>1. ASSUME NEW t \in Thread, Step(t) PROVE EngineInv'
    BY <1>1, TakeCellKeeps, CheckOutKeeps, CheckKeeps, TakeLockKeeps, LookKeeps,
       BuildKeeps, AssignKeeps, ReadKeeps, OpenKeeps, CloseKeeps, DisposeKeeps,
       ForgetKeeps
    DEF Step, Get, ReadEngine
  <1>2. ASSUME NEW t \in Thread, NEW c \in Calls, Call(t, c) PROVE EngineInv'
    BY <1>2, CallKeeps
  <1>3. CASE UNCHANGED engineVars
    BY <1>3
    DEF engineVars, EngineInv, TypeOK, LockInv, CellInv, CallInv, NoEngineIsLost, ThreadAt
  <1> QED BY <1>1, <1>2, <1>3 DEF EngineNext

\* The invariant holds in every reachable state.
LEMMA EngineAlways == EngineSpec => []EngineInv
  BY EngineStarts, EngineSteps, PTL DEF EngineSpec

\* No thread ever builds an engine whose pool nobody will dispose of: of the
\* double check in Database.engine, for any number of threads and engines.
THEOREM NoEngineLost == EngineSpec => []NoEngineIsLost
  BY EngineAlways, PTL DEF EngineInv

\* The threads that share a lazy session_factory() block share one connection:
\* _Lazy.get opens it once, for any number of threads and of disposals.
THEOREM OneCheckoutAlways == EngineSpec => []OneCheckout
  <1>1. EngineInv => OneCheckout
    BY DEF EngineInv, CellInv, OneCheckout
  <1> QED BY <1>1, EngineAlways, PTL

\* Every variable keeps its type.
THEOREM EngineTyped == EngineSpec => []TypeOK
  BY EngineAlways, PTL DEF EngineInv

------------------------------------------------------------------------------
(* 2. A call that retries its transaction, for every MaxRetries *)

\* The runs are counted by the loop, and each starts from a clean slate.
RetryInv ==
    /\ RetryTypeOK
    /\ pc = "called" => attempt = 0 /\ runs = 0
    /\ pc # "called" => runs = attempt + 1
    /\ InTransaction => attempt = 0 /\ pc # "waiting"
    /\ pc = "waiting" => attempt < MaxRetries
    /\ ~listed /\ pc \in {"called", "running", "waiting"} =>
            /\ committed \subseteq {0}
            /\ written \subseteq {0} \cup (IF pc = "running" THEN {runs} ELSE {})
    /\ OneAttemptIsKept

\* Nothing has run at the start.
LEMMA RetryStarts == RetryInit => RetryInv
  BY MaxRetriesAssumption
  DEF RetryInit, RetryInv, RetryTypeOK, Rows, Around, Ends, Outcomes, InTransaction,
         Joins, OneAttemptIsKept

\* Every step keeps the invariant.
LEMMA RetrySteps == RetryInv /\ [RetryNext]_retryVars => RetryInv'
<1>. SUFFICES ASSUME RetryInv, [RetryNext]_retryVars PROVE RetryInv'
  OBVIOUS
<1>. USE MaxRetriesAssumption DEF RetryInv, RetryTypeOK, Rows, Ends, Outcomes, InTransaction, Joins,
             OneAttemptIsKept
<1>1. CASE Run
  BY <1>1 DEF Run
<1>2. CASE WriteRow
  BY <1>2 DEF WriteRow
<1>3. CASE Wait
  BY <1>3 DEF Wait
<1>4. ASSUME NEW outcome \in Outcomes, Finish(outcome) PROVE RetryInv'
  BY <1>4 DEF Finish, Ended, Retries
<1>5. ASSUME NEW outcome \in Outcomes \ {"ok"}, CommitFails(outcome) PROVE RetryInv'
  BY <1>5 DEF CommitFails, EndedByCommit, Ended, Retries
<1>6. CASE UNCHANGED retryVars
  BY <1>6 DEF retryVars
<1>. QED
  BY <1>1, <1>2, <1>3, <1>4, <1>5, <1>6 DEF RetryNext

\* A call runs its function at most max_retries + 1 times, and once inside a
\* transaction, whatever its attempts raise (BaseRetryingTransaction._retry).
THEOREM RunsBounded == RetrySpec => []RunsAtMost
<1>1. RetryInit => RetryInv
  BY RetryStarts
<1>2. RetryInv /\ [RetryNext]_retryVars => RetryInv'
  BY RetrySteps
<1>3. RetryInv => RunsAtMost
  BY MaxRetriesAssumption DEF RetryInv, RetryTypeOK, RunsAtMost, InTransaction, Rows
<1>. QED
  BY <1>1, <1>2, <1>3, PTL DEF RetrySpec

\* What a finished call leaves is the work of one run, or of none
\* (RetryingTransaction.__call__ and Transaction._finish together).
THEOREM OneAttempt == RetrySpec => []OneAttemptIsKept
<1>1. RetryInit => RetryInv
  BY RetryStarts
<1>2. RetryInv /\ [RetryNext]_retryVars => RetryInv'
  BY RetrySteps
<1>3. RetryInv => OneAttemptIsKept
  BY DEF RetryInv
<1>. QED
  BY <1>1, <1>2, <1>3, PTL DEF RetrySpec

------------------------------------------------------------------------------
(* 3. The registry of the databases *)

\* What the registry holds, and what of it transactions() has still to open.
RegistryInv ==
    /\ made \in Nat /\ own \in Db \cup {NoDb} /\ held \in Db \cup {NoDb}
    /\ aliased \in Seq([alias : AnyAlias, db : Db])
    /\ engines \subseteq Disposed \ {NoDb}
    /\ left \in Seq(AnyAlias)
    /\ phase = "enter" => \A i \in DOMAIN left : Holds(left[i]) /\ At(left[i]) # NoDb

------------------------------------------------------------------------------
\* A configuration lists aliases.
LEMMA OrdersAreAliases ==
    ASSUME NEW order \in SetToAllKPermutations(Alias)
    PROVE  order \in Seq(Alias)
  <1>1. PICK S \in SUBSET Alias : order \in SetToSeqs(S)
    BY DEF SetToAllKPermutations
  <1>2. IsFiniteSet(S) /\ Cardinality(S) \in Nat
    BY <1>1, FS_Subset, FS_CardinalityType, AliasAssumption
  <1>3. order \in [1 .. Cardinality(S) -> S]
    BY <1>1 DEF SetToSeqs
  <1> QED BY <1>2, <1>3, <1>1

\* The entries of the aliases, field by field.
LEMMA Entries ==
    ASSUME aliased \in Seq([alias : AnyAlias, db : Db])
    PROVE  /\ Len(aliased) \in Nat /\ DOMAIN aliased = 1 .. Len(aliased)
           /\ \A i \in DOMAIN aliased : aliased[i].alias \in AnyAlias /\ aliased[i].db \in Db
  <1>1. Len(aliased) \in Nat /\ DOMAIN aliased = 1 .. Len(aliased)
    OBVIOUS
  <1>2. ASSUME NEW i \in 1 .. Len(aliased) PROVE aliased[i] \in [alias : AnyAlias, db : Db]
    BY ElementOfSeq
  <1>3. ASSUME NEW e \in [alias : AnyAlias, db : Db] PROVE e.alias \in AnyAlias /\ e.db \in Db
    OBVIOUS
  <1> QED BY <1>1, <1>2, <1>3

\* An alias the registry holds names one of the databases it can dispose of.
LEMMA HeldIsDisposed ==
    ASSUME aliased \in Seq([alias : AnyAlias, db : Db]), NEW alias, Holds(alias)
    PROVE  At(alias) \in Disposed
  <1>1. CASE alias = Default
    BY <1>1 DEF At, Disposed
  <1>2. CASE alias # Default
    <2>1. PICK j \in DOMAIN Aliases : Aliases[j] = alias
      BY DEF Holds, ToSet
    <2> DEFINE named == [i \in DOMAIN aliased |-> aliased[i].alias]
    <2>2. named \in Seq(AnyAlias) /\ Len(named) = Len(aliased)
      BY Entries
    <2>3. \E i \in DOMAIN aliased : aliased[i].alias = alias
      BY <1>2, <2>1, <2>2 DEF Aliases
    <2> QED BY <1>2, <2>3 DEF At, Disposed
  <1> QED BY <1>1, <1>2

LEMMA AliasesAreHeld ==
    ASSUME aliased \in Seq([alias : AnyAlias, db : Db]), Configured
    PROVE  /\ Aliases \in Seq(AnyAlias)
           /\ Len(Aliases) = Len(aliased) + 1
           /\ \A i \in DOMAIN Aliases : Holds(Aliases[i]) /\ At(Aliases[i]) # NoDb
  <1> DEFINE named == [i \in DOMAIN aliased |-> aliased[i].alias]
  <1>1. named \in Seq(AnyAlias) /\ Len(named) = Len(aliased)
    BY Entries
  <1>2. Aliases \in Seq(AnyAlias) /\ Len(Aliases) = Len(aliased) + 1
    BY <1>1 DEF Aliases, AnyAlias
  <1>3. ASSUME NEW i \in DOMAIN Aliases PROVE Holds(Aliases[i])
    BY DEF Holds, ToSet
  <1>4. ASSUME NEW i \in DOMAIN Aliases PROVE At(Aliases[i]) # NoDb
    <2>1. CASE Aliases[i] = Default
      BY <2>1 DEF At, Configured, NoDb
    <2>2. CASE Aliases[i] # Default
      <3>1. i \in 1 .. Len(aliased) + 1 /\ i # 1
        BY <1>1, <1>2, <2>2 DEF Aliases
      <3>2. Aliases[i] = aliased[i - 1].alias /\ i - 1 \in DOMAIN aliased
        BY <1>1, <3>1 DEF Aliases
      <3> DEFINE j == CHOOSE j \in DOMAIN aliased : aliased[j].alias = Aliases[i]
      <3>3. j \in DOMAIN aliased
        BY <3>2
      <3>5. aliased[j].db \in Db
        BY <3>3, Entries
      <3>6. At(Aliases[i]) = aliased[j].db
        BY <2>2 DEF At
      <3> QED BY <3>5, <3>6 DEF Db, NoDb
    <2> QED BY <2>1, <2>2
  <1> QED BY <1>2, <1>3, <1>4

------------------------------------------------------------------------------
\* What the blocks and the rows do leaves the registry as it is.
LEMMA KeepsRegistryInv ==
    ASSUME RegistryInv, registry' = registry, engines' = engines,
           left' \in Seq(AnyAlias),
           phase' # "enter" \/ (left' = left /\ phase' = phase)
    PROVE  RegistryInv'
  <1> USE DEF registry
  <1>1. Disposed' = Disposed
    BY DEF Disposed
  <1>2. \A alias : Holds(alias)' = Holds(alias) /\ At(alias)' = At(alias)
    BY DEF Holds, Aliases, At
  <1> QED BY <1>1, <1>2 DEF RegistryInv

\* So does a block on a database the registry holds.
LEMMA OpensRegistryInv ==
    ASSUME RegistryInv, UNCHANGED registry, UNCHANGED all,
           NEW d \in Disposed \ {NoDb}, engines' = engines \cup {d}
    PROVE  RegistryInv'
  <1> USE DEF registry, all
  <1>1. Disposed' = Disposed
    BY DEF Disposed
  <1>2. \A alias : Holds(alias)' = Holds(alias) /\ At(alias)' = At(alias)
    BY DEF Holds, Aliases, At
  <1> QED BY <1>1, <1>2 DEF RegistryInv

LEMMA RegistryInit == Init => RegistryInv
  BY DEF Init, RegistryInv, NoDb

LEMMA RegistryNext ==
    ASSUME RegistryInv, [Next]_vars
    PROVE  RegistryInv'
  <1>1. CASE UNCHANGED vars
    <2>1. registry' = registry /\ engines' = engines /\ all' = all
      BY <1>1 DEF vars
    <2> QED BY <2>1, KeepsRegistryInv DEF all, RegistryInv
  <1>2. CASE Configure
    <2>1. engines = {}
      BY <1>2 DEF Configure, Connected, RegistryInv, Disposed, NoDb
    <2>2. engines' = {} /\ UNCHANGED <<held, aliased, left, phase>>
      BY <1>2, <2>1 DEF Configure, Work, all
    <2>3. made' \in Nat /\ own' \in Db
      BY <1>2, BoundsAssumption DEF Configure, Makes, RegistryInv, Db
    <2>4. phase = "none"
      BY <1>2 DEF Configure, Idle
    <2> QED BY <2>2, <2>3, <2>4 DEF RegistryInv
  <1>3. ASSUME NEW order \in SetToAllKPermutations(Alias), NEW fails,
               ConfigureMany(order, fails)
        PROVE  RegistryInv'
    <2> DEFINE named == [i \in DOMAIN order |-> [alias |-> order[i], db |-> made + 1 + i]]
    <2>1. order \in Seq(Alias) /\ Len(order) \in Nat /\ DOMAIN order = 1 .. Len(order)
      BY OrdersAreAliases
    <2>2. engines \subseteq {}
      BY <1>3 DEF ConfigureMany, Connected, RegistryInv, Disposed, NoDb
    <2>3. made' \in Nat /\ own' \in Db /\ UNCHANGED <<held, left, phase>> /\ engines' = {}
      BY <1>3, <2>1, <2>2, BoundsAssumption
         DEF ConfigureMany, Makes, RegistryInv, Db, Work, all
    <2>4. ASSUME NEW i \in DOMAIN order, made + 1 + Len(order) <= MaxDatabases
          PROVE  named[i] \in [alias : AnyAlias, db : Db]
      BY <2>1, <2>4, BoundsAssumption DEF AnyAlias, Db, RegistryInv
    <2>5. aliased' \in Seq([alias : AnyAlias, db : Db])
      <3>1. CASE UNCHANGED aliased
        BY <3>1 DEF RegistryInv
      <3>2. CASE aliased' = named
        BY <1>3, <2>1, <2>4, <3>2 DEF ConfigureMany
      <3> QED BY <1>3, <3>1, <3>2 DEF ConfigureMany
    <2>6. phase = "none"
      BY <1>3 DEF ConfigureMany, Idle
    <2> QED BY <2>3, <2>5, <2>6 DEF RegistryInv
  <1>4. ASSUME NEW alias \in AnyAlias, NEW d \in Db, NEW connected \in BOOLEAN,
               Register(alias, d, connected)
        PROVE  RegistryInv'
    <2>1. made' \in Nat /\ UNCHANGED <<own, left, phase>> /\ phase = "none"
      BY <1>4 DEF Register, Makes, Idle, RegistryInv, all
    <2>2. CASE alias = Default /\ ~Configured /\ held' = d /\ UNCHANGED aliased
      <3>1. Disposed \ {NoDb} \subseteq Disposed' /\ d \in Disposed'
        BY <2>1, <2>2 DEF Disposed, Configured
      <3>2. engines' \subseteq Disposed' \ {NoDb}
        BY <1>4, <3>1 DEF Register, RegistryInv, Db, NoDb
      <3> QED BY <2>1, <2>2, <3>2 DEF RegistryInv
    <2>3. CASE aliased' = Append(aliased, [alias |-> alias, db |-> d]) /\ UNCHANGED held
      <3> DEFINE entry == [alias |-> alias, db |-> d]
      <3>1. entry \in [alias : AnyAlias, db : Db] /\ entry.db = d
        OBVIOUS
      <3> HIDE DEF entry
      <3>2. aliased' \in Seq([alias : AnyAlias, db : Db])
        BY <2>3, <3>1 DEF RegistryInv, entry
      <3>3. /\ DOMAIN aliased' = 1 .. Len(aliased) + 1 /\ DOMAIN aliased = 1 .. Len(aliased)
            /\ \A i \in 1 .. Len(aliased) : aliased'[i] = aliased[i]
            /\ aliased'[Len(aliased) + 1] = entry /\ Len(aliased) \in Nat
        BY <2>3, <3>1, Entries DEF RegistryInv, entry
      <3>4. Disposed \subseteq Disposed'
        BY <2>1, <2>3, <3>3 DEF Disposed
      <3>6. Len(aliased) + 1 \in DOMAIN aliased' /\ aliased'[Len(aliased) + 1].db = d
        BY <3>1, <3>3
      <3>7. d \in Disposed'
        BY <3>6 DEF Disposed
      <3>5. engines' \subseteq Disposed' \ {NoDb}
        BY <1>4, <3>4, <3>7 DEF Register, RegistryInv, Db, NoDb
      <3> QED BY <2>1, <2>3, <3>2, <3>5 DEF RegistryInv
    <2> QED BY <1>4, <2>2, <2>3 DEF Register
  <1>5. CASE Route
    BY <1>5 DEF Route, Idle, RegistryInv, Disposed, Work, all
  <1>6. CASE Dispose
    BY <1>6 DEF Dispose, Idle, RegistryInv, Disposed, registry, all
  <1>7. ASSUME NEW alias \in AnyAlias, Open(alias) PROVE RegistryInv'
    <2>1. At(alias) \in Disposed \ {NoDb}
      BY <1>7, HeldIsDisposed DEF Open, RegistryInv
    <2>2. Plain(At(alias)).db = At(alias)
      BY DEF Plain
    <2> QED BY <1>7, <2>1, <2>2, OpensRegistryInv DEF Open, Opens
  <1>8. ASSUME NEW alias \in AnyAlias, OpenUsing(alias) PROVE RegistryInv'
    <2>1. At(alias) \in Disposed \ {NoDb}
      BY <1>8, HeldIsDisposed DEF OpenUsing, RegistryInv
    <2>2. [Plain(At(alias)) EXCEPT !.to = alias].db = At(alias)
      BY DEF Plain
    <2> QED BY <1>8, <2>1, <2>2, OpensRegistryInv DEF OpenUsing, Opens
  <1>9. ASSUME NEW h \in Handle, EnterUsing(h) PROVE RegistryInv'
    <2>1. [Plain(NoDb) EXCEPT !.to = HandleAlias[h], !.handle = h].db = NoDb
      BY DEF Plain
    <2>2. registry' = registry /\ engines' = engines /\ all' = all
      BY <1>9, <2>1 DEF EnterUsing, Opens
    <2> QED BY <2>2, KeepsRegistryInv DEF all, RegistryInv
  <1>10. CASE OpenAll
    <2>1. /\ UNCHANGED registry /\ UNCHANGED engines /\ left' = Aliases
          /\ Configured
      BY <1>10 DEF OpenAll
    <2> USE DEF registry
    <2>2. Disposed' = Disposed
      BY <2>1 DEF Disposed
    <2>3. \A alias : Holds(alias)' = Holds(alias) /\ At(alias)' = At(alias)
      BY <2>1 DEF Holds, Aliases, At
    <2> QED BY <2>1, <2>2, <2>3, AliasesAreHeld DEF RegistryInv
  <1>11. CASE OpenNextFails
    <2>1. /\ phase' \in {"none", "exit", "fails"} /\ left' = <<>>
          /\ registry' = registry /\ engines' = engines
      BY <1>11, Zenon DEF OpenNextFails, NotAll
    <2>2. phase' # "enter" /\ left' \in Seq(AnyAlias)
      BY <2>1
    <2> QED BY <2>1, <2>2, KeepsRegistryInv
  <1>16. CASE OpenNext
    <2>1. /\ UNCHANGED registry /\ phase = "enter"
          /\ \/ Len(left) = 1 /\ NotAll
             \/ Len(left) > 1 /\ left' = Tail(left) /\ UNCHANGED <<phase, first>>
          /\ Opens([Plain(At(Head(left))) EXCEPT !.first = first])
      BY <1>16 DEF OpenNext
    <2>2. [Plain(At(Head(left))) EXCEPT !.first = first].db = At(Head(left))
      BY DEF Plain
    <2>3. Len(left) \in Nat /\ Len(left) >= 1 /\ left \in Seq(AnyAlias)
      BY <2>1 DEF RegistryInv
    <2>4. At(Head(left)) \in Disposed \ {NoDb}
      BY <2>1, <2>3, HeldIsDisposed DEF RegistryInv
    <2>5. engines' = engines \cup {At(Head(left))}
      BY <2>1, <2>2, <2>4 DEF Opens
    <2> USE DEF registry
    <2>6. Disposed' = Disposed
      BY <2>1 DEF Disposed
    <2>7. \A alias : Holds(alias)' = Holds(alias) /\ At(alias)' = At(alias)
      BY <2>1 DEF Holds, Aliases, At
    <2>8. /\ left' \in Seq(AnyAlias)
          /\ phase' = "enter" => \A i \in DOMAIN left' : Holds(left'[i]) /\ At(left'[i]) # NoDb
      <3>1. CASE Len(left) = 1 /\ NotAll
        BY <3>1 DEF NotAll
      <3>2. CASE Len(left) > 1 /\ left' = Tail(left)
        <4>1. /\ left' \in Seq(AnyAlias) /\ Len(left') = Len(left) - 1
              /\ DOMAIN left = 1 .. Len(left)
              /\ \A i \in DOMAIN left' : left'[i] = left[i + 1] /\ i + 1 \in DOMAIN left
          BY <2>3, <3>2
        <4> QED BY <2>1, <4>1 DEF RegistryInv
      <3> QED BY <2>1, <3>1, <3>2
    <2> QED BY <2>1, <2>4, <2>5, <2>6, <2>7, <2>8 DEF RegistryInv
  <1>12. ASSUME NEW m \in Model, NEW r \in Row, Write(m, r) PROVE RegistryInv'
    <2>1. registry' = registry /\ engines' = engines /\ all' = all
      BY <1>12 DEF Write
    <2> QED BY <2>1, KeepsRegistryInv DEF all, RegistryInv
  <1>13. ASSUME NEW failed \in BOOLEAN, NEW commits \in BOOLEAN, Close(failed, commits)
         PROVE  RegistryInv'
    <2>1. registry' = registry /\ engines' = engines /\ all' = all
      BY <1>13 DEF Close, Closes
    <2> QED BY <2>1, KeepsRegistryInv DEF all, RegistryInv
  <1>14. ASSUME NEW failed \in BOOLEAN, CloseAll(failed) PROVE RegistryInv'
    <2>1. /\ phase' \in {"exit", "fails"} /\ left' = <<>>
          /\ registry' = registry /\ engines' = engines
      BY <1>14, Zenon DEF CloseAll
    <2>2. phase' # "enter" /\ left' \in Seq(AnyAlias)
      BY <2>1
    <2> QED BY <2>1, <2>2, KeepsRegistryInv
  <1>15. ASSUME NEW commits \in BOOLEAN, NEW lists \in BOOLEAN, CloseNext(commits, lists)
         PROVE  RegistryInv'
    <2>1. phase \in {"exit", "fails"} /\ registry' = registry /\ engines' = engines
      BY <1>15 DEF CloseNext, Closes
    <2>2. left' \in {<<>>, left}
      BY <1>15, Zenon DEF CloseNext, NotAll
    <2>3. phase' \in {"none", "fails", phase}
      BY <1>15, Zenon DEF CloseNext, NotAll
    <2>4. phase' # "enter"
      BY <2>1, <2>3
    <2>5. <<>> \in Seq(AnyAlias) /\ left \in Seq(AnyAlias)
      BY DEF RegistryInv
    <2>6. left' \in Seq(AnyAlias)
      BY <2>2, <2>5, Zenon
    <2> QED BY <2>1, <2>4, <2>6, KeepsRegistryInv
  <1> QED BY <1>1, <1>2, <1>3, <1>4, <1>5, <1>6, <1>7, <1>8, <1>9, <1>10, <1>11, <1>12,
             <1>13, <1>14, <1>15, <1>16 DEF Next, Configuring, Opening, Closing

\* Every database that connected can be disposed of through the registry, in
\* whatever order databases are configured, registered and connected
\* (_reject_if_connected).
THEOREM NoPoolIsLostHolds == Spec => []NoPoolIsLost
  <1>1. RegistryInv => NoPoolIsLost
    BY DEF RegistryInv, NoPoolIsLost
  <1> QED BY <1>1, RegistryInit, RegistryNext, PTL DEF Spec

------------------------------------------------------------------------------
(* The end of transactions().                                               *)

\* While it keeps the work of the databases that are left, all those that ended committed,
\* or raised what commit_on_error lists.
EndsInv ==
    /\ ends \in Seq({"committed", "listed", "undone"})
    /\ NothingCommitsAfterAFailure
    /\ phase = "exit" => \A i \in DOMAIN ends : ends[i] \in {"committed", "listed"}

LEMMA EndsNext ==
    ASSUME EndsInv, [Next]_vars
    PROVE  EndsInv'
  <1>1. CASE UNCHANGED vars
    BY <1>1 DEF vars, all, EndsInv, NothingCommitsAfterAFailure
  <1>2. CASE ends' = <<>>
    BY <1>2 DEF EndsInv, NothingCommitsAfterAFailure
  <1>3. ASSUME NEW commits \in BOOLEAN, NEW lists \in BOOLEAN, CloseNext(commits, lists)
         PROVE  EndsInv'
    <2>1. \/ ends' = ends
          \/ ends' = Append(ends, CameTo(commits, lists))
      BY <1>3, Zenon DEF CloseNext
    <2>2. phase' = "exit" => phase = "exit" /\ (commits \/ lists)
      BY <1>3 DEF CloseNext, NotAll, Raises
    <2>3. /\ CameTo(commits, lists) \in {"committed", "listed", "undone"}
          /\ phase = "exit" /\ (commits \/ lists) => CameTo(commits, lists) # "undone"
          /\ phase # "exit" => CameTo(commits, lists) # "committed"
      BY <1>3 DEF CameTo, CloseNext
    <2>4. CASE ends' = ends
      BY <2>2, <2>4 DEF EndsInv, NothingCommitsAfterAFailure
    <2>5. ASSUME NEW x \in {"committed", "listed", "undone"}, ends' = Append(ends, x),
                 phase' = "exit" => phase = "exit" /\ x # "undone",
                 x = "committed" => phase = "exit"
          PROVE  EndsInv'
      BY <2>5 DEF EndsInv, NothingCommitsAfterAFailure
    <2> QED BY <2>1, <2>2, <2>3, <2>4, <2>5
  <1> QED BY <1>1, <1>2, <1>3 DEF Next

\* transactions() ends its databases from the last to the first, and commits none
\* after one that was undone, nor after one whose commit raised what commit_on_error
\* does not list (Databases.transactions).
THEOREM NothingCommitsAfterAFailureHolds == Spec => []NothingCommitsAfterAFailure
  <1>1. Init => EndsInv
    BY DEF Init, EndsInv, NothingCommitsAfterAFailure
  <1>2. EndsInv /\ [Next]_vars => EndsInv'
    BY EndsNext
  <1>3. EndsInv => NothingCommitsAfterAFailure
    BY DEF EndsInv
  <1> QED BY <1>1, <1>2, <1>3, PTL DEF Spec

------------------------------------------------------------------------------
(* The stack of blocks.                                                     *)

StackInv ==
    /\ blocks \in Seq(Block)
    /\ using \in AnyAlias \cup {NoAlias}
    /\ tokens \in [Handle -> AnyAlias \cup {NoAlias}]
    /\ resets \subseteq Handle
    /\ first \in 0 .. MaxDepth

\* A block of one database, one redirected by using(), an object of using() that
\* is entered, and one of transactions(): what each puts on the stack.
Pushes(b) == b \in Block /\ blocks' = Append(blocks, b)

LEMMA Pushed ==
    ASSUME blocks \in Seq(Block), NEW b, Pushes(b)
    PROVE  /\ blocks' \in Seq(Block) /\ Len(blocks) \in Nat /\ Len(blocks') = Len(blocks) + 1
           /\ DOMAIN blocks = 1 .. Len(blocks) /\ DOMAIN blocks' = 1 .. Len(blocks')
           /\ \A i \in DOMAIN blocks : blocks'[i] = blocks[i]
           /\ blocks'[Len(blocks')] = b
  BY DEF Pushes

LEMMA Popped ==
    ASSUME blocks \in Seq(Block), blocks # <<>>, blocks' = Front(blocks)
    PROVE  /\ blocks' \in Seq(Block) /\ Len(blocks) \in Nat /\ Len(blocks') = Len(blocks) - 1
           /\ DOMAIN blocks = 1 .. Len(blocks) /\ DOMAIN blocks' = 1 .. Len(blocks')
           /\ Len(blocks) \in DOMAIN blocks
           /\ \A i \in DOMAIN blocks' : blocks'[i] = blocks[i]
  <1>1. Len(blocks) \in Nat \ {0} /\ DOMAIN blocks = 1 .. Len(blocks)
    BY EmptySeq
  <1>2. blocks' = SubSeq(blocks, 1, Len(blocks) - 1)
    BY DEF Front
  <1>3. /\ blocks' \in Seq(Block) /\ Len(blocks') = Len(blocks) - 1
        /\ \A i \in 1 .. Len(blocks) - 1 : blocks'[i] = blocks[i]
    BY <1>1, <1>2
  <1> QED BY <1>1, <1>3

LEMMA HeldIsDb ==
    ASSUME RegistryInv, NEW alias, Holds(alias)
    PROVE  At(alias) \in Db \cup {NoDb}
  BY HeldIsDisposed, Entries DEF RegistryInv, Disposed

\* A block, field by field.
LEMMA Fields ==
    ASSUME NEW b \in Block
    PROVE  /\ b.db \in Db \cup {NoDb} /\ b.to \in AnyAlias \cup {NoAlias}
           /\ b.handle \in Handle \cup {NoAlias} /\ b.before \in AnyAlias \cup {NoAlias}
           /\ b.first \in 0 .. MaxDepth
  BY DEF Block

LEMMA OpenPushes ==
    ASSUME RegistryInv, StackInv, NEW alias, Open(alias)
    PROVE  \E b : /\ Pushes(b) /\ b.db # NoDb /\ b.to = NoAlias /\ b.handle = NoAlias
                  /\ b.first = 0
                  /\ UNCHANGED <<override, all, work, kept>>
  <1> DEFINE b == [db |-> At(alias), to |-> NoAlias, handle |-> NoAlias, before |-> using,
                   first |-> 0]
  <1>1. b \in Block
    BY HeldIsDb, BoundsAssumption DEF Open, Block, StackInv
  <1>2. b = Plain(At(alias))
    BY DEF Plain
  <1>3. b.db # NoDb /\ b.to = NoAlias /\ b.handle = NoAlias /\ b.first = 0
    BY DEF Open
  <1>4. blocks' = Append(blocks, b)
    BY <1>2 DEF Open, Opens
  <1> HIDE DEF b
  <1> QED BY <1>1, <1>3, <1>4 DEF Open, Pushes

LEMMA OpenUsingPushes ==
    ASSUME RegistryInv, StackInv, NEW alias \in AnyAlias, OpenUsing(alias)
    PROVE  \E b : /\ Pushes(b) /\ b.db # NoDb /\ b.to = alias /\ b.handle = NoAlias
                  /\ b.before = using /\ b.first = 0
                  /\ using' = alias
                  /\ UNCHANGED <<tokens, resets, all, work, kept>>
  <1> DEFINE b == [db |-> At(alias), to |-> alias, handle |-> NoAlias, before |-> using,
                   first |-> 0]
  <1>1. b \in Block
    BY HeldIsDb, BoundsAssumption DEF OpenUsing, Block, StackInv
  <1>2. b = [Plain(At(alias)) EXCEPT !.to = alias]
    BY DEF Plain
  <1>3. /\ b.db # NoDb /\ b.to = alias /\ b.handle = NoAlias /\ b.before = using
        /\ b.first = 0
    BY DEF OpenUsing
  <1>4. blocks' = Append(blocks, b)
    BY <1>2 DEF OpenUsing, Opens
  <1> HIDE DEF b
  <1> QED BY <1>1, <1>3, <1>4 DEF OpenUsing, Pushes

LEMMA EnterUsingPushes ==
    ASSUME RegistryInv, StackInv, NEW h \in Handle, EnterUsing(h)
    PROVE  \E b : /\ Pushes(b) /\ b.db = NoDb /\ b.to = HandleAlias[h] /\ b.handle = h
                  /\ b.before = using /\ b.first = 0
                  /\ using' = HandleAlias[h]
                  /\ tokens' = [tokens EXCEPT ![h] = using] /\ resets' = resets \cup {h}
                  /\ UNCHANGED <<all, work, kept>>
  <1> DEFINE b == [db |-> NoDb, to |-> HandleAlias[h], handle |-> h, before |-> using,
                   first |-> 0]
  <1>1. b \in Block
    BY HandleAssumption, BoundsAssumption DEF Block, StackInv
  <1> DEFINE c == [db |-> NoDb, to |-> HandleAlias[h], handle |-> NoAlias, before |-> using,
                   first |-> 0]
  <1>5. c = [Plain(NoDb) EXCEPT !.to = HandleAlias[h]]
    BY DEF Plain
  <1>6. b = [c EXCEPT !.handle = h]
    OBVIOUS
  <1>2. b = [Plain(NoDb) EXCEPT !.to = HandleAlias[h], !.handle = h]
    BY <1>5, <1>6, Zenon
  <1>3. /\ b.db = NoDb /\ b.to = HandleAlias[h] /\ b.handle = h /\ b.before = using
        /\ b.first = 0
    OBVIOUS
  <1>4. blocks' = Append(blocks, b)
    BY <1>2 DEF EnterUsing, Opens
  <1> HIDE DEF b
  <1> QED BY <1>1, <1>3, <1>4 DEF EnterUsing, Pushes

\* The next database of a transactions(), when it opens.
LEMMA OpenNextPushes ==
    ASSUME RegistryInv, StackInv, OpenNext
    PROVE  \E b : /\ Pushes(b) /\ b.db # NoDb /\ b.to = NoAlias /\ b.handle = NoAlias
                  /\ b.first = first
                  /\ phase = "enter"
                  /\ phase' \in {"none", "enter"} /\ first' \in {0, first}
                  /\ phase' = "enter" => first' = first
                  /\ UNCHANGED <<override, work, kept>>
  <1> DEFINE b == [db |-> At(Head(left)), to |-> NoAlias, handle |-> NoAlias, before |-> using,
                   first |-> first]
  <1>1. /\ phase = "enter" /\ Opens([Plain(At(Head(left))) EXCEPT !.first = first])
        /\ Len(left) >= 1 /\ UNCHANGED <<override, work, kept>>
        /\ phase' \in {"none", "enter"} /\ first' \in {0, first}
        /\ phase' = "enter" => first' = first
    BY DEF OpenNext, NotAll, RegistryInv
  <1>2. Holds(Head(left)) /\ At(Head(left)) # NoDb
    BY <1>1 DEF RegistryInv
  <1>3. b \in Block
    BY <1>2, HeldIsDb DEF Block, StackInv
  <1>4. b = [Plain(At(Head(left))) EXCEPT !.first = first]
    BY DEF Plain
  <1>5. b.db # NoDb /\ b.to = NoAlias /\ b.handle = NoAlias /\ b.first = first
    BY <1>2
  <1>6. blocks' = Append(blocks, b)
    BY <1>1, <1>4 DEF Opens
  <1> HIDE DEF b
  <1> QED BY <1>1, <1>3, <1>5, <1>6 DEF Pushes

\* The step a transactions() that is entered does not take: the database that
\* does not open.
LEMMA OpenNextEnds ==
    ASSUME OpenNextFails
    PROVE  /\ (phase' = "none" /\ first' = 0)
              \/ (phase' \in {"exit", "fails"} /\ first' = first /\ Len(blocks) >= first)
           /\ UNCHANGED <<blocks, override, work, kept>>
  BY Zenon DEF OpenNextFails, NotAll

LEMMA StackNext ==
    ASSUME RegistryInv, StackInv, [Next]_vars
    PROVE  StackInv'
  <1>1. ASSUME UNCHANGED <<override, blocks>>, first' \in 0 .. MaxDepth PROVE StackInv'
    BY <1>1 DEF override, StackInv
  <1>2. ASSUME NEW b, Pushes(b), UNCHANGED override, first' \in 0 .. MaxDepth PROVE StackInv'
    BY <1>2, Pushed DEF override, StackInv
  <1>3. ASSUME blocks # <<>>, blocks' = Front(blocks)
        PROVE  blocks' \in Seq(Block) /\ Top \in Block
    <2>1. blocks' \in Seq(Block) /\ Len(blocks) \in DOMAIN blocks
      BY <1>3, Popped DEF StackInv
    <2>2. Top \in Block
      BY <2>1, ElementOfSeq DEF Top, StackInv
    <2> QED BY <2>1, <2>2
  <1>4. CASE UNCHANGED vars
    BY <1>1, <1>4 DEF vars, all, StackInv
  <1>5. CASE Configuring
    BY <1>1, <1>5
       DEF Configuring, Configure, ConfigureMany, Register, Route, Dispose, Work, all, StackInv
  <1>6. ASSUME NEW alias \in AnyAlias, Open(alias) PROVE StackInv'
    BY <1>2, <1>6, OpenPushes DEF all, StackInv
  <1>7. ASSUME NEW alias \in AnyAlias, OpenUsing(alias) PROVE StackInv'
    <2>1. PICK b : Pushes(b) /\ using' = alias /\ UNCHANGED <<tokens, resets, all>>
      BY <1>7, OpenUsingPushes
    <2> QED BY <2>1, Pushed DEF all, StackInv
  <1>8. ASSUME NEW h \in Handle, EnterUsing(h) PROVE StackInv'
    <2>1. PICK b : /\ Pushes(b) /\ using' = HandleAlias[h]
                   /\ tokens' = [tokens EXCEPT ![h] = using] /\ resets' = resets \cup {h}
                   /\ UNCHANGED all
      BY <1>8, EnterUsingPushes
    <2> QED BY <2>1, Pushed, HandleAssumption DEF all, StackInv
  <1>9. CASE OpenAll
    <2>1. Len(blocks) + 1 \in 0 .. MaxDepth
      BY <1>9, AliasesAreHeld, BoundsAssumption, Entries DEF OpenAll, RegistryInv, StackInv
    <2> QED BY <1>1, <1>9, <2>1 DEF OpenAll
  <1>10. CASE OpenNextFails
    BY <1>1, <1>10, OpenNextEnds, BoundsAssumption DEF StackInv
  <1>11. CASE OpenNext
    <2>1. PICK b : /\ Pushes(b) /\ UNCHANGED override
                   /\ first' \in {0, first}
      BY <1>11, OpenNextPushes
    <2>2. first' \in 0 .. MaxDepth
      BY <2>1, BoundsAssumption DEF StackInv
    <2> QED BY <1>2, <2>1, <2>2
  <1>12. ASSUME NEW m \in Model, NEW r \in Row, Write(m, r) PROVE StackInv'
    BY <1>1, <1>12 DEF Write, all, StackInv
  <1>13. ASSUME NEW failed \in BOOLEAN, NEW commits \in BOOLEAN, Close(failed, commits)
         PROVE  StackInv'
    <2>1. blocks # <<>> /\ blocks' = Front(blocks) /\ first' = first
      BY <1>13 DEF Close, Closes, all
    <2>2. Top.before \in AnyAlias \cup {NoAlias} /\ Top.handle \in Handle \cup {NoAlias}
      BY <1>3, <2>1, Fields
    <2>3. /\ tokens' = tokens /\ resets' \subseteq resets
          /\ \/ using' \in {using, Top.before}
             \/ Top.handle # NoAlias /\ using' = tokens[Top.handle]
      BY <1>13 DEF Close
    <2>4. using' \in AnyAlias \cup {NoAlias}
      BY <2>2, <2>3 DEF StackInv
    <2> QED BY <1>3, <2>1, <2>3, <2>4 DEF StackInv
  <1>14. ASSUME NEW failed \in BOOLEAN, CloseAll(failed) PROVE StackInv'
    <2>1. Top \in Block
      BY <1>14, Popped, ElementOfSeq DEF CloseAll, Top, StackInv
    <2> QED BY <1>1, <1>14, <2>1, Fields DEF CloseAll
  <1>15. ASSUME NEW commits \in BOOLEAN, NEW lists \in BOOLEAN, CloseNext(commits, lists)
         PROVE  StackInv'
    <2>1. blocks # <<>> /\ blocks' = Front(blocks) /\ UNCHANGED override
      BY <1>15 DEF CloseNext, Closes
    <2>2. first' \in {0, first}
      BY <1>15, Zenon DEF CloseNext, NotAll
    <2> QED BY <1>3, <2>1, <2>2, BoundsAssumption DEF override, StackInv
  <1> QED BY <1>4, <1>5, <1>6, <1>7, <1>8, <1>9, <1>10, <1>11, <1>12, <1>13, <1>14, <1>15
          DEF Next, Opening, Closing

LEMMA StackInit == Init => StackInv
  BY BoundsAssumption DEF Init, StackInv

------------------------------------------------------------------------------
(* The transactions of the databases are units of work.                     *)

Opened == {d \in Db : OpenOn(d) # {}}
UnitVars == <<Opened, work, kept>>

\* A block begins the transaction of its database when it is the first one there.
LEMMA PushBegins ==
    ASSUME StackInv, NEW b, Pushes(b), UNCHANGED <<work, kept>>
    PROVE  U!UnitNext \/ UNCHANGED UnitVars
  <1>1. \A d : OpenOn(d)' = OpenOn(d) \cup (IF d = b.db THEN {Len(blocks')} ELSE {})
    BY Pushed DEF OpenOn, StackInv
  <1>2. b.db \in Db \cup {NoDb}
    BY Fields DEF Pushes
  <1>3. CASE b.db \in Opened \/ b.db = NoDb
    <2>1. Opened' = Opened
      BY <1>1, <1>3 DEF Opened, Db, NoDb
    <2> QED BY <2>1 DEF UnitVars
  <1>4. CASE b.db \in Db /\ b.db \notin Opened
    <2>1. Opened' = Opened \cup {b.db}
      BY <1>1, <1>4 DEF Opened
    <2>2. U!Begin(b.db)
      BY <1>4, <2>1 DEF U!Begin, Opened
    <2> QED BY <1>4, <2>2 DEF U!UnitNext
  <1> QED BY <1>2, <1>3, <1>4

\* The outermost block of a database ends its transaction, with all of its rows
\* or none; any other block leaves it open.
LEMMA CloseEnds ==
    ASSUME StackInv, NEW failed, NEW commits, Closes(failed, commits)
    PROVE  U!UnitNext \/ UNCHANGED UnitVars
  <1> DEFINE n == Len(blocks)
  <1>1. blocks # <<>> /\ blocks' = Front(blocks)
    BY DEF Closes
  <1>2. \A d : OpenOn(d)' = OpenOn(d) \ {n}
    BY <1>1, Popped DEF OpenOn, StackInv
  <1>3. \A d : n \in OpenOn(d) <=> d = Top.db
    BY <1>1, Popped DEF OpenOn, Top, StackInv
  <1>4. CASE EndsWork
    <2>1. Top.db \in Db
      BY <1>1, <1>4, Popped, ElementOfSeq, Fields DEF EndsWork, Top, StackInv
    <2>2. Top.db \in Opened /\ Opened' = Opened \ {Top.db}
      BY <1>2, <1>3, <1>4, <2>1 DEF EndsWork, Opened
    <2>3. work' = [work EXCEPT ![Top.db] = {}] /\ kept' \in {kept, kept \cup work[Top.db]}
      BY <1>4 DEF Closes
    <2>4. U!End(Top.db)
      BY <2>2, <2>3 DEF U!End, Opened
    <2> QED BY <2>1, <2>4 DEF U!UnitNext
  <1>5. CASE ~EndsWork
    <2>1. \A d \in Db : OpenOn(d)' # {} <=> OpenOn(d) # {}
      BY <1>2, <1>3, <1>5 DEF EndsWork, Db, NoDb
    <2>2. Opened' = Opened
      BY <2>1 DEF Opened
    <2> QED BY <1>5, <2>2 DEF Closes, UnitVars
  <1> QED BY <1>4, <1>5

LEMMA UnitsNext ==
    ASSUME RegistryInv, StackInv, [Next]_vars
    PROVE  U!UnitNext \/ UNCHANGED UnitVars
  <1> DEFINE Refines == U!UnitNext \/ UNCHANGED UnitVars
  <1> SUFFICES Refines
    OBVIOUS
  <1> HIDE DEF Refines
  <1>1. ASSUME UNCHANGED <<blocks, work, kept>> PROVE Refines
    BY <1>1 DEF Refines, UnitVars, Opened, OpenOn
  <1>2. ASSUME NEW b, Pushes(b), UNCHANGED <<work, kept>> PROVE Refines
    BY <1>2, PushBegins DEF Refines
  <1>3. ASSUME NEW failed, NEW commits, Closes(failed, commits) PROVE Refines
    BY <1>3, CloseEnds DEF Refines
  <1>4. CASE UNCHANGED vars
    BY <1>1, <1>4 DEF vars
  <1>5. CASE Configuring
    BY <1>1, <1>5
       DEF Configuring, Configure, ConfigureMany, Register, Route, Dispose, Work
  <1>6. ASSUME NEW alias \in AnyAlias, Open(alias) \/ OpenUsing(alias) PROVE Refines
    BY <1>2, <1>6, OpenPushes, OpenUsingPushes
  <1>7. ASSUME NEW h \in Handle, EnterUsing(h) PROVE Refines
    BY <1>2, <1>7, EnterUsingPushes
  <1>8. CASE OpenAll
    BY <1>1, <1>8 DEF OpenAll
  <1>9. CASE OpenNextFails
    BY <1>1, <1>9, OpenNextEnds
  <1>10. CASE OpenNext
    BY <1>2, <1>10, OpenNextPushes
  <1>11. ASSUME NEW m \in Model, NEW r \in Row, Write(m, r) PROVE Refines
    <2>1. PICK i \in DOMAIN blocks : blocks[i].db = DbFor(m)
      BY <1>11 DEF Write, OpenOn
    <2>2. DbFor(m) \in Db
      BY <1>11, <2>1, ElementOfSeq, Fields DEF Write, StackInv
    <2>3. Opened' = Opened
      BY <1>11 DEF Write, Opened, OpenOn
    <2>4. U!Do(DbFor(m), r)
      BY <1>11, <2>2, <2>3 DEF Write, U!Do, Opened
    <2> QED BY <2>2, <2>4 DEF U!UnitNext, Refines
  <1>12. ASSUME NEW failed \in BOOLEAN, NEW commits \in BOOLEAN, Close(failed, commits)
         PROVE  Refines
    BY <1>3, <1>12 DEF Close
  <1>13. ASSUME NEW failed \in BOOLEAN, CloseAll(failed) PROVE Refines
    BY <1>1, <1>13 DEF CloseAll
  <1>14. ASSUME NEW commits \in BOOLEAN, NEW lists \in BOOLEAN, CloseNext(commits, lists)
         PROVE  Refines
    BY <1>3, <1>14 DEF CloseNext
  <1> QED
    BY <1>4, <1>5, <1>6, <1>7, <1>8, <1>9, <1>10, <1>11, <1>12, <1>13, <1>14
       DEF Next, Opening, Closing

\* The transactions of the databases are units of work: what is written in one is
\* kept or dropped as a whole, by the step that ends it, through transactions()
\* and using() alike.
THEOREM KeepsUnitsHolds == Spec => KeepsUnits
  <1>1. Init => U!UnitInit
    BY DEF Init, U!UnitInit, OpenOn
  <1>2. RegistryInv /\ StackInv /\ [Next]_vars => RegistryInv' /\ StackInv'
    BY RegistryNext, StackNext
  <1>3. RegistryInv /\ StackInv /\ [Next]_vars => [U!UnitNext]_UnitVars
    BY UnitsNext
  <1> QED BY <1>1, <1>2, <1>3, RegistryInit, StackInit, PTL
          DEF Spec, KeepsUnits, U!UnitSpec, UnitVars, Opened

------------------------------------------------------------------------------
(* The override follows the blocks.                                         *)

\* n is the innermost using() block among the first k, 0 when there is none.
LastUsing(k, n) ==
    /\ n \in 0 .. k
    /\ n # 0 => blocks[n].to # NoAlias
    /\ \A i \in n + 1 .. k : blocks[i].to = NoAlias

Override(n) == IF n = 0 THEN NoAlias ELSE blocks[n].to

\* The override is that of the innermost using() block, and each of them kept the
\* one it found.
OverrideInv ==
    /\ \E n \in 0 .. Len(blocks) : LastUsing(Len(blocks), n) /\ using = Override(n)
    /\ \A k \in DOMAIN blocks : blocks[k].to # NoAlias =>
           \E n \in 0 .. k - 1 : LastUsing(k - 1, n) /\ blocks[k].before = Override(n)

\* An object that is entered is so once, and its token is that of its block.
TokensInv ==
    /\ \A k \in DOMAIN blocks : blocks[k].handle # NoAlias =>
           /\ blocks[k].to # NoAlias
           /\ blocks[k].handle \in resets
           /\ tokens[blocks[k].handle] = blocks[k].before
    /\ \A j, k \in DOMAIN blocks :
           blocks[k].handle # NoAlias /\ blocks[j].handle = blocks[k].handle => j = k

\* No using() block is among those of a transactions().
AllInv ==
    /\ \A k \in DOMAIN blocks : blocks[k].first # 0 =>
           blocks[k].first <= k /\ \A j \in blocks[k].first .. k : blocks[j].to = NoAlias
    /\ phase # "none" =>
           /\ first # 0 /\ first <= Len(blocks) + 1
           /\ \A j \in first .. Len(blocks) : blocks[j].to = NoAlias
    /\ phase \in {"exit", "fails"} => first <= Len(blocks)

UsingInv == OverrideInv /\ TokensInv /\ AllInv

\* What a block that is opened leaves of the blocks under it.
LEMMA LastPushed ==
    ASSUME StackInv, NEW b, Pushes(b), NEW k \in 0 .. Len(blocks), NEW n
    PROVE  /\ LastUsing(k, n)' <=> LastUsing(k, n)
           /\ n \in 0 .. k => Override(n)' = Override(n)
  <1>1. \A i \in 1 .. Len(blocks) : blocks'[i] = blocks[i]
    BY Pushed DEF StackInv
  <1>2. Len(blocks) \in Nat
    BY Pushed DEF StackInv
  <1> QED BY <1>1, <1>2 DEF LastUsing, Override

LEMMA LastPopped ==
    ASSUME StackInv, blocks # <<>>, blocks' = Front(blocks),
           NEW k \in 0 .. Len(blocks) - 1, NEW n
    PROVE  /\ LastUsing(k, n)' <=> LastUsing(k, n)
           /\ n \in 0 .. k => Override(n)' = Override(n)
  <1>1. \A i \in 1 .. Len(blocks) - 1 : blocks'[i] = blocks[i]
    BY Popped DEF StackInv
  <1>2. Len(blocks) \in Nat
    BY Popped DEF StackInv
  <1> QED BY <1>1, <1>2 DEF LastUsing, Override

LEMMA OverrideFollows ==
    ASSUME StackInv, OverrideInv
    PROVE  /\ Innermost # 0 => Innermost \in DOMAIN blocks /\ blocks[Innermost].to # NoAlias
           /\ UsingFollowsTheBlocks
  <1>1. PICK n \in 0 .. Len(blocks) : LastUsing(Len(blocks), n) /\ using = Override(n)
    BY DEF OverrideInv
  <1> DEFINE S == {0} \cup {i \in DOMAIN blocks : blocks[i].to # NoAlias}
  <1>2. Len(blocks) \in Nat /\ DOMAIN blocks = 1 .. Len(blocks)
    BY DEF StackInv
  <1>3. n \in S /\ \A i \in S : i \in Nat /\ n >= i
    BY <1>1, <1>2 DEF LastUsing
  <1>4. Max(S) = n
    <2> HIDE DEF S
    <2>1. Max(S) \in S /\ \A i \in S : Max(S) >= i
      BY <1>3, Zenon DEF Max
    <2>2. Max(S) \in Nat /\ n \in Nat /\ n >= Max(S) /\ Max(S) >= n
      BY <1>3, <2>1, Zenon
    <2>3. \A m \in Nat : n >= m /\ m >= n => m = n
      BY <2>2
    <2> QED BY <2>2, <2>3, Zenon
  <1>5. Innermost = n
    BY <1>4 DEF Innermost
  <1> QED BY <1>1, <1>2, <1>5 DEF UsingFollowsTheBlocks, LastUsing, Override

\* A block that redirects nothing.
LEMMA PlainPush ==
    ASSUME StackInv, OverrideInv, TokensInv, NEW b, Pushes(b),
           b.to = NoAlias, b.handle = NoAlias, UNCHANGED override
    PROVE  OverrideInv' /\ TokensInv'
  <1> USE Pushed DEF StackInv, override
  <1>1. OverrideInv'
    <2>1. PICK n \in 0 .. Len(blocks) : LastUsing(Len(blocks), n) /\ using = Override(n)
      BY DEF OverrideInv
    <2>2. LastUsing(Len(blocks), n)' /\ using' = Override(n)'
      BY <2>1 DEF LastUsing, Override
    <2>3. ASSUME NEW k \in DOMAIN blocks', blocks'[k].to # NoAlias
          PROVE  \E m \in 0 .. k - 1 : LastUsing(k - 1, m)' /\ blocks'[k].before = Override(m)'
      <3>1. k \in DOMAIN blocks /\ blocks'[k] = blocks[k]
        BY <2>3
      <3>2. PICK m \in 0 .. k - 1 : LastUsing(k - 1, m) /\ blocks[k].before = Override(m)
        BY <2>3, <3>1 DEF OverrideInv
      <3>3. k - 1 \in 0 .. Len(blocks)
        BY <3>1
      <3> QED BY <3>1, <3>2, <3>3, LastPushed
    <2>4. n \in 0 .. Len(blocks')
      BY <2>1
    <2> QED BY <2>2, <2>3, <2>4, Zenon DEF OverrideInv
  <1>2. TokensInv'
    BY DEF TokensInv
  <1> QED BY <1>1, <1>2

\* A block of using() keeps the override it finds.
LEMMA RedirectPush ==
    ASSUME StackInv, OverrideInv, NEW b, Pushes(b), b.to # NoAlias,
           b.before = using, using' = b.to
    PROVE  OverrideInv'
  <1> USE Pushed DEF StackInv
  <1>1. PICK n \in 0 .. Len(blocks) : LastUsing(Len(blocks), n) /\ using = Override(n)
    BY DEF OverrideInv
  <1>2. ASSUME NEW m, m = Len(blocks') PROVE LastUsing(m, m)' /\ using' = Override(m)'
    BY <1>2 DEF LastUsing, Override
  <1>3. Len(blocks') \in 0 .. Len(blocks')
    OBVIOUS
  <1>4. ASSUME NEW k \in DOMAIN blocks', blocks'[k].to # NoAlias
        PROVE  \E m \in 0 .. k - 1 : LastUsing(k - 1, m)' /\ blocks'[k].before = Override(m)'
    <2>1. CASE k \in DOMAIN blocks
      <3>1. blocks'[k] = blocks[k]
        BY <2>1
      <3>2. PICK m \in 0 .. k - 1 : LastUsing(k - 1, m) /\ blocks[k].before = Override(m)
        BY <1>4, <2>1, <3>1 DEF OverrideInv
      <3>3. k - 1 \in 0 .. Len(blocks)
        BY <2>1
      <3> QED BY <3>1, <3>2, <3>3, LastPushed
    <2>2. CASE k = Len(blocks')
      <3>1. blocks'[k] = b /\ k - 1 = Len(blocks) /\ k - 1 \in 0 .. Len(blocks)
        BY <2>2
      <3>2. LastUsing(k - 1, n)' /\ Override(n)' = using
        BY <1>1, <3>1, LastPushed
      <3>3. n \in 0 .. k - 1
        BY <1>1, <3>1
      <3> QED BY <3>1, <3>2, <3>3
    <2> QED BY <1>4, <2>1, <2>2
  <1> QED BY <1>2, <1>3, <1>4, Zenon DEF OverrideInv

\* The block that closes gives back the override it found; one that redirects
\* nothing leaves it.
LEMMA PopOverride ==
    ASSUME StackInv, OverrideInv, blocks # <<>>, blocks' = Front(blocks),
           using' = IF Top.to # NoAlias THEN Top.before ELSE using
    PROVE  OverrideInv'
  <1> USE Popped DEF StackInv
  <1>1. ASSUME NEW k \in DOMAIN blocks', blocks'[k].to # NoAlias
        PROVE  \E m \in 0 .. k - 1 : LastUsing(k - 1, m)' /\ blocks'[k].before = Override(m)'
    <2>1. k \in DOMAIN blocks /\ blocks'[k] = blocks[k]
      BY <1>1
    <2>2. PICK m \in 0 .. k - 1 : LastUsing(k - 1, m) /\ blocks[k].before = Override(m)
      BY <1>1, <2>1 DEF OverrideInv
    <2>3. k - 1 \in 0 .. Len(blocks) - 1
      BY <1>1
    <2> QED BY <2>1, <2>2, <2>3, LastPopped
  <1>2. \E n \in 0 .. Len(blocks) - 1 : LastUsing(Len(blocks) - 1, n) /\ using' = Override(n)
    <2>1. CASE Top.to # NoAlias
      BY <2>1 DEF OverrideInv, Top
    <2>2. CASE Top.to = NoAlias
      <3>1. PICK n \in 0 .. Len(blocks) : LastUsing(Len(blocks), n) /\ using = Override(n)
        BY DEF OverrideInv
      <3>2. n # Len(blocks)
        BY <2>2, <3>1 DEF LastUsing, Top
      <3>3. n \in 0 .. Len(blocks) - 1 /\ LastUsing(Len(blocks) - 1, n)
        BY <3>1, <3>2 DEF LastUsing
      <3> QED BY <2>2, <3>1, <3>3
    <2> QED BY <2>1, <2>2
  <1>3. PICK n \in 0 .. Len(blocks) - 1 : LastUsing(Len(blocks) - 1, n) /\ using' = Override(n)
    BY <1>2
  <1>4. ASSUME NEW m, m = Len(blocks) - 1 PROVE LastUsing(m, n)' /\ using' = Override(n)'
    BY <1>3, <1>4, LastPopped
  <1>5. ASSUME NEW m, m = Len(blocks') PROVE LastUsing(m, n)' /\ using' = Override(n)'
    BY <1>4, <1>5
  <1>6. n \in 0 .. Len(blocks')
    BY <1>3
  <1> QED BY <1>1, <1>5, <1>6, Zenon DEF OverrideInv

\* A block that is opened belongs to no transactions(), or to the one being
\* entered.
LEMMA PushFirst ==
    ASSUME StackInv, AllInv, NEW b, Pushes(b),
           b.first = 0 \/ (b.first = first /\ b.to = NoAlias /\ phase = "enter")
    PROVE  \A k \in DOMAIN blocks' : blocks'[k].first # 0 =>
               /\ blocks'[k].first <= k
               /\ \A j \in blocks'[k].first .. k : blocks'[j].to = NoAlias
  <1> USE Pushed DEF StackInv
  <1> DEFINE Redirects(k) == /\ blocks'[k].first <= k
                             /\ \A j \in blocks'[k].first .. k : blocks'[j].to = NoAlias
  <1>1. ASSUME NEW k \in DOMAIN blocks, blocks'[k].first # 0 PROVE Redirects(k)
    <2>1. blocks'[k] = blocks[k] /\ k \in 1 .. Len(blocks)
      OBVIOUS
    <2>2. blocks[k].first \in Nat \ {0}
      BY <1>1, <2>1, ElementOfSeq, Fields, BoundsAssumption
    <2>3. \A j \in blocks[k].first .. k : j \in DOMAIN blocks /\ blocks'[j] = blocks[j]
      BY <2>1, <2>2
    <2> QED BY <1>1, <2>1, <2>3 DEF AllInv
  <1>2. ASSUME NEW k, k = Len(blocks'), blocks'[k].first # 0 PROVE Redirects(k)
    <2>1. k = Len(blocks) + 1 /\ blocks'[k] = b /\ k \in Nat
      BY <1>2
    <2>2. /\ b.first = first /\ b.to = NoAlias /\ first # 0 /\ first <= k
          /\ \A j \in first .. Len(blocks) : blocks[j].to = NoAlias
      BY <1>2, <2>1 DEF AllInv
    <2>3. first \in Nat \ {0}
      BY <2>2, BoundsAssumption
    <2>4. ASSUME NEW j \in first .. k PROVE blocks'[j].to = NoAlias
      <3>1. CASE j = k
        BY <2>1, <2>2, <3>1
      <3>2. CASE j # k
        BY <2>1, <2>2, <2>3, <3>2
      <3> QED BY <3>1, <3>2
    <2> QED BY <2>1, <2>2, <2>4
  <1> QED BY <1>1, <1>2

\* No transactions() is being entered or left.
LEMMA PushAll ==
    ASSUME StackInv, AllInv, NEW b, Pushes(b), b.first = 0, phase = "none", UNCHANGED all
    PROVE  AllInv'
  <1>1. phase' = "none"
    BY DEF all
  <1> QED BY <1>1, PushFirst DEF AllInv

LEMMA PopAll ==
    ASSUME StackInv, AllInv, blocks # <<>>, blocks' = Front(blocks)
    PROVE  \A k \in DOMAIN blocks' : blocks'[k].first # 0 =>
               /\ blocks'[k].first <= k
               /\ \A j \in blocks'[k].first .. k : blocks'[j].to = NoAlias
  <1> USE Popped DEF StackInv
  <1>1. SUFFICES ASSUME NEW k \in DOMAIN blocks', blocks'[k].first # 0
                 PROVE  /\ blocks'[k].first <= k
                        /\ \A j \in blocks'[k].first .. k : blocks'[j].to = NoAlias
    OBVIOUS
  <1>2. k \in DOMAIN blocks /\ blocks'[k] = blocks[k]
    OBVIOUS
  <1>3. blocks[k].first \in Nat \ {0}
    BY <1>1, <1>2, ElementOfSeq, Fields, BoundsAssumption
  <1>4. \A j \in blocks[k].first .. k : j \in DOMAIN blocks' /\ blocks'[j] = blocks[j]
    BY <1>2, <1>3
  <1> QED BY <1>1, <1>2, <1>4 DEF AllInv

LEMMA UsingNext ==
    ASSUME ~Reentered, RegistryInv, StackInv, UsingInv, [Next]_vars
    PROVE  UsingInv'
  <1> USE DEF UsingInv
  <1>1. ASSUME UNCHANGED <<override, blocks>> PROVE OverrideInv' /\ TokensInv'
    BY <1>1 DEF override, OverrideInv, TokensInv, LastUsing, Override
  <1>2. ASSUME UNCHANGED <<all, blocks>> PROVE AllInv'
    BY <1>2 DEF all, AllInv
  <1>3. CASE UNCHANGED vars
    BY <1>1, <1>2, <1>3 DEF vars
  <1>4. CASE Configuring
    BY <1>1, <1>2, <1>4
       DEF Configuring, Configure, ConfigureMany, Register, Route, Dispose, Work
  <1>5. ASSUME NEW alias \in AnyAlias, Open(alias) PROVE UsingInv'
    <2>1. phase = "none"
      BY <1>5 DEF Open, Idle
    <2> QED BY <1>5, <2>1, OpenPushes, PlainPush, PushAll
  <1>6. ASSUME NEW alias \in AnyAlias, OpenUsing(alias) PROVE UsingInv'
    <2>1. phase = "none"
      BY <1>6 DEF OpenUsing, Idle
    <2>2. PICK b : /\ Pushes(b) /\ b.to = alias /\ b.handle = NoAlias
                   /\ b.before = using /\ b.first = 0
                   /\ using' = alias
                   /\ UNCHANGED <<tokens, resets, all>>
      BY <1>6, OpenUsingPushes
    <2>3. OverrideInv'
      BY <2>2, RedirectPush, AliasAssumption
    <2>4. TokensInv'
      BY <2>2, Pushed DEF TokensInv, StackInv
    <2> QED BY <2>1, <2>2, <2>3, <2>4, PushAll
  <1>7. ASSUME NEW h \in Handle, EnterUsing(h) PROVE UsingInv'
    <2>1. phase = "none" /\ h \notin resets
      BY <1>7 DEF EnterUsing, Idle
    <2>2. PICK b : /\ Pushes(b) /\ b.to = HandleAlias[h] /\ b.handle = h
                   /\ b.before = using /\ b.first = 0
                   /\ using' = HandleAlias[h]
                   /\ tokens' = [tokens EXCEPT ![h] = using] /\ resets' = resets \cup {h}
                   /\ UNCHANGED all
      BY <1>7, EnterUsingPushes
    <2>3. HandleAlias[h] \in AnyAlias /\ HandleAlias[h] # NoAlias
      BY HandleAssumption, AliasAssumption
    <2>4. OverrideInv'
      BY <2>2, <2>3, RedirectPush
    <2>5. \A k \in DOMAIN blocks : blocks[k].handle # h
      BY <2>1, HandleAssumption DEF TokensInv
    <2>6. tokens'[h] = using /\ \A g \in resets : tokens'[g] = tokens[g]
      BY <2>1, <2>2 DEF StackInv
    <2>7. TokensInv'
      BY <2>2, <2>3, <2>5, <2>6, Pushed DEF TokensInv, StackInv
    <2> QED BY <2>1, <2>2, <2>4, <2>7, PushAll
  <1>8. CASE OpenAll
    <2>1. AllInv'
      BY <1>8 DEF OpenAll, Idle, AllInv, StackInv
    <2> QED BY <1>1, <1>8, <2>1 DEF OpenAll
  <1>9. CASE OpenNextFails
    <2>2. /\ blocks' = blocks /\ phase = "enter"
          /\ \/ phase' = "none"
             \/ phase' \in {"exit", "fails"} /\ first' = first /\ Len(blocks) >= first
      BY <1>9, OpenNextEnds, Zenon DEF OpenNextFails
    <2>3. ASSUME phase' = "none" PROVE AllInv'
      BY <2>2, <2>3 DEF AllInv
    <2>4. ASSUME phase' \in {"exit", "fails"}, first' = first, Len(blocks) >= first PROVE AllInv'
      BY <2>2, <2>4 DEF AllInv, StackInv
    <2>1. AllInv'
      BY <2>2, <2>3, <2>4
    <2> QED BY <1>1, <1>9, <2>1, OpenNextEnds
  <1>10. CASE OpenNext
    <2>1. PICK b : /\ Pushes(b) /\ b.to = NoAlias /\ b.handle = NoAlias
                   /\ b.first = first /\ phase = "enter"
                   /\ phase' \in {"none", "enter"}
                   /\ phase' = "enter" => first' = first
                   /\ UNCHANGED override
      BY <1>10, OpenNextPushes
    <2>3. phase' = "enter" => /\ first' # 0 /\ first' <= Len(blocks') + 1
                             /\ \A j \in first' .. Len(blocks') : blocks'[j].to = NoAlias
      <3>1. ASSUME NEW j \in first .. Len(blocks') PROVE blocks'[j].to = NoAlias
        <4>1. CASE j = Len(blocks')
          BY <2>1, <4>1, Pushed DEF StackInv
        <4>2. CASE j # Len(blocks')
          BY <2>1, <4>2, Pushed, BoundsAssumption DEF StackInv, AllInv
        <4> QED BY <4>1, <4>2
      <3>2. first # 0 /\ first <= Len(blocks') + 1
        BY <2>1, Pushed, BoundsAssumption DEF StackInv, AllInv
      <3> QED BY <2>1, <3>1, <3>2
    <2>2. AllInv'
      BY <2>1, <2>3, PushFirst DEF AllInv
    <2> QED BY <2>1, <2>2, PlainPush
  <1>11. ASSUME NEW m \in Model, NEW r \in Row, Write(m, r) PROVE UsingInv'
    BY <1>1, <1>2, <1>11 DEF Write
  <1>12. ASSUME NEW failed \in BOOLEAN, NEW commits \in BOOLEAN, Close(failed, commits)
         PROVE  UsingInv'
    <2>1. blocks # <<>> /\ blocks' = Front(blocks) /\ phase' = "none"
      BY <1>12 DEF Close, Closes, Idle, all
    <2>2. AllInv'
      BY <2>1, PopAll DEF AllInv
    <2>3. CASE Top.handle = NoAlias
      <3>1. /\ using' = IF Top.to # NoAlias THEN Top.before ELSE using
            /\ UNCHANGED <<tokens, resets>>
        BY <1>12, <2>3 DEF Close
      <3>2. TokensInv'
        BY <2>1, <3>1, Popped DEF TokensInv, StackInv
      <3> QED BY <2>1, <2>2, <3>1, <3>2, PopOverride
    <2>4. CASE Top.handle # NoAlias
      <3>1. /\ Top.to # NoAlias /\ Top.handle \in resets /\ tokens[Top.handle] = Top.before
            /\ \A j \in DOMAIN blocks : blocks[j].handle = Top.handle => j = Len(blocks)
        BY <2>1, <2>4, Popped DEF TokensInv, Top, StackInv
      <3>2. using' = Top.before /\ resets' = resets \ {Top.handle} /\ UNCHANGED tokens
        BY <1>12, <2>4, <3>1 DEF Close
      <3>3. TokensInv'
        BY <2>1, <3>1, <3>2, Popped DEF TokensInv, StackInv
      <3> QED BY <2>1, <2>2, <3>1, <3>2, <3>3, PopOverride
    <2> QED BY <2>3, <2>4
  <1>13. ASSUME NEW failed \in BOOLEAN, CloseAll(failed) PROVE UsingInv'
    <2>1. /\ blocks # <<>> /\ blocks' = blocks /\ Top.first # 0 /\ first' = Top.first
          /\ UNCHANGED override
      BY <1>13 DEF CloseAll
    <2>2. Len(blocks) \in DOMAIN blocks /\ Len(blocks) \in Nat
      BY <2>1 DEF StackInv
    <2>3. AllInv'
      BY <2>1, <2>2, ElementOfSeq, Fields, BoundsAssumption DEF AllInv, Top, StackInv
    <2> QED BY <1>1, <2>1, <2>3
  <1>14. ASSUME NEW commits \in BOOLEAN, NEW lists \in BOOLEAN, CloseNext(commits, lists)
         PROVE  UsingInv'
    <2>1. /\ blocks # <<>> /\ blocks' = Front(blocks) /\ UNCHANGED override
          /\ phase \in {"exit", "fails"}
      BY <1>14 DEF CloseNext, Closes
    <2>2. /\ Len(blocks) \in DOMAIN blocks /\ first <= Len(blocks)
          /\ \A j \in first .. Len(blocks) : blocks[j].to = NoAlias
      BY <2>1, Popped DEF AllInv, StackInv
    <2>3. Top.to = NoAlias
      BY <2>1, <2>2, Popped DEF Top, StackInv
    <2>4. Top.handle = NoAlias
      BY <2>2, <2>3 DEF TokensInv, Top
    <2>5. OverrideInv' /\ TokensInv'
      BY <2>1, <2>3, <2>4, Popped, PopOverride DEF TokensInv, StackInv, override
    <2>6. \/ phase' = "none"
          \/ phase' \in {"exit", "fails"} /\ first' = first /\ Len(blocks) # first
      BY <1>14, <2>1, Zenon DEF CloseNext, NotAll
    <2>7. AllInv'
      BY <2>1, <2>2, <2>6, Popped, PopAll DEF AllInv, StackInv
    <2> QED BY <2>5, <2>7
  <1> QED BY <1>3, <1>4, <1>5, <1>6, <1>7, <1>8, <1>9, <1>10, <1>11, <1>12, <1>13, <1>14
          DEF Next, Opening, Closing

\* The override of the context is that of the innermost using() block, and gone
\* with the outermost, however blocks are opened, fail and end, when no object of
\* using() is entered again while it is (_Using, _Redirected).
THEOREM UsingFollowsTheBlocksHolds ==
    ASSUME ~Reentered
    PROVE  Spec => []UsingFollowsTheBlocks
  <1>1. Init => UsingInv
    BY DEF Init, UsingInv, OverrideInv, TokensInv, AllInv, LastUsing, Override
  <1>2. RegistryInv /\ StackInv /\ UsingInv /\ [Next]_vars
          => RegistryInv' /\ StackInv' /\ UsingInv'
    BY RegistryNext, StackNext, UsingNext
  <1>3. StackInv /\ UsingInv => UsingFollowsTheBlocks
    BY OverrideFollows DEF UsingInv
  <1> QED BY <1>1, <1>2, <1>3, RegistryInit, StackInit, PTL DEF Spec

------------------------------------------------------------------------------
(* What is written under using().                                           *)

\* A row that follows a using() block is in the transaction of the database of
\* that block, and nowhere else.
Written(r) ==
    /\ under[r] \in DOMAIN blocks
    /\ blocks[under[r]].db \in Db
    /\ r \in work[blocks[under[r]].db]
    /\ r \notin kept
    /\ \A d \in Db : r \in work[d] => d = blocks[under[r]].db

WrittenInv ==
    /\ work \in [Db -> SUBSET Row] /\ kept \in SUBSET Row /\ under \in [Row -> Nat]
    /\ \A r \in Row : under[r] # 0 => Written(r)

\* A model that follows a using() block writes to the database of the block: the
\* override names it, and a model placed on the default database is moved.
LEMMA FollowsWritesThere ==
    ASSUME RegistryInv, StackInv, OverrideInv, routers \in Routing,
           NEW m \in Model, Follows(m)
    PROVE  /\ Innermost \in DOMAIN blocks
           /\ DbFor(m) = blocks[Innermost].db
  <1> DEFINE placement == PlacementOf(m)
             alias == blocks[Innermost].to
  <1>1. Innermost \in DOMAIN blocks /\ alias # NoAlias /\ using = alias
    BY OverrideFollows DEF Follows, UsingFollowsTheBlocks
  <1>2. alias \in AnyAlias
    BY <1>1, ElementOfSeq, Fields DEF StackInv
  <1>3. placement \in AnyAlias \cup Db /\ placement \in {Default, At(Default)}
    BY RoutingAssumption DEF PlacementOf, Follows
  <1>4. At(Default) \in Db \cup {NoDb}
    BY DEF At, RegistryInv
  <1>5. Moved(placement)
    BY <1>1, <1>3, <1>4, RoutingAssumption DEF Moved
  <1>6. alias \notin Db /\ Holds(alias) /\ At(alias) = blocks[Innermost].db
    BY <1>2, RoutingAssumption DEF Follows
  <1>7. DbFor(m) = At(alias)
    BY <1>1, <1>5, <1>6 DEF DbFor
  <1> QED BY <1>1, <1>6, <1>7

\* The rows keep what is true of them while the blocks and the work stay.
LEMMA KeepsWritten ==
    ASSUME StackInv, WrittenInv, UNCHANGED <<work, kept, under>>,
           \A i \in DOMAIN blocks : i \in DOMAIN blocks' /\ blocks'[i] = blocks[i]
    PROVE  WrittenInv'
  BY DEF WrittenInv, Written

LEMMA WriteKeepsWritten ==
    ASSUME RegistryInv, StackInv, OverrideInv, routers \in Routing, WrittenInv,
           NEW m \in Model, NEW r \in Row, Write(m, r)
    PROVE  WrittenInv'
  <1> DEFINE d == DbFor(m)
  <1>1. /\ under[r] = 0 /\ r \notin kept /\ \A e \in Db : r \notin work[e]
        /\ d # NoDb /\ OpenOn(d) # {}
        /\ work' = [work EXCEPT ![d] = @ \cup {r}]
        /\ under' = [under EXCEPT ![r] = IF Follows(m) THEN Innermost ELSE 0]
        /\ blocks' = blocks /\ kept' = kept
    BY DEF Write
  <1>2. PICK i \in DOMAIN blocks : blocks[i].db = d
    BY <1>1 DEF OpenOn
  <1>3. d \in Db
    BY <1>1, <1>2, ElementOfSeq, Fields DEF StackInv
  <1> HIDE DEF d
  <1>4. /\ work' \in [Db -> SUBSET Row] /\ work'[d] = work[d] \cup {r}
        /\ \A e \in Db : e # d => work'[e] = work[e]
    BY <1>1, <1>3 DEF WrittenInv
  <1>5. Follows(m) => Innermost \in DOMAIN blocks /\ d = blocks[Innermost].db
    BY FollowsWritesThere DEF d
  <1>6. DOMAIN blocks \subseteq Nat
    BY DEF StackInv
  <1>7. /\ under' \in [Row -> Nat]
        /\ \A s \in Row : s # r => under'[s] = under[s]
        /\ under'[r] = IF Follows(m) THEN Innermost ELSE 0
    BY <1>1, <1>5, <1>6 DEF WrittenInv
  <1>8. ASSUME NEW s \in Row, under'[s] # 0 PROVE Written(s)'
    <2>1. CASE s = r
      BY <1>1, <1>3, <1>4, <1>5, <1>7, <1>8, <2>1 DEF Written
    <2>2. CASE s # r
      <3>1. under'[s] = under[s] /\ Written(s)
        BY <1>7, <1>8, <2>2 DEF WrittenInv
      <3>2. \A e \in Db : s \in work'[e] <=> s \in work[e]
        BY <1>4, <2>2
      <3> QED BY <1>1, <3>1, <3>2 DEF Written
    <2> QED BY <2>1, <2>2
  <1> QED BY <1>1, <1>4, <1>7, <1>8 DEF WrittenInv

\* The end of a block: its rows are forgotten, and those of another block are in
\* the transaction of another database, or of one that stays open.
LEMMA CloseKeepsWritten ==
    ASSUME StackInv, WrittenInv, NEW failed, NEW commits, Closes(failed, commits)
    PROVE  WrittenInv'
  <1> DEFINE n == Len(blocks)
  <1>1. blocks # <<>> /\ blocks' = Front(blocks)
    BY DEF Closes
  <1>2. under' = [r \in Row |-> IF under[r] = n THEN 0 ELSE under[r]]
    BY DEF Closes
  <1>3. \/ EndsWork /\ kept' \in {kept, kept \cup work[Top.db]}
                    /\ work' = [work EXCEPT ![Top.db] = {}]
        \/ UNCHANGED <<kept, work>>
    BY Zenon DEF Closes
  <1>4. EndsWork => Top.db \in Db
    BY <1>1, Popped, ElementOfSeq, Fields DEF EndsWork, Top, StackInv
  <1>5. /\ work' \in [Db -> SUBSET Row] /\ kept' \in SUBSET Row
        /\ under' \in [Row -> Nat]
    BY <1>2, <1>3, <1>4 DEF WrittenInv
  <1>6. ASSUME NEW r \in Row, under'[r] # 0 PROVE Written(r)'
    <2>1. under'[r] = under[r] /\ under[r] # n /\ Written(r)
      BY <1>2, <1>6 DEF WrittenInv
    <2> DEFINE i == under[r]
    <2>2. i \in DOMAIN blocks' /\ blocks'[i] = blocks[i]
      BY <1>1, <2>1, Popped DEF Written, StackInv
    <2>3. EndsWork => blocks[i].db # Top.db
      BY <2>1 DEF EndsWork, OpenOn, Written
    <2>4. r \notin kept' /\ \A d \in Db : r \in work'[d] => r \in work[d]
      BY <1>3, <1>4, <2>1, <2>3 DEF Written, WrittenInv
    <2>5. r \in work'[blocks[i].db]
      BY <1>3, <1>4, <2>1, <2>3 DEF Written, WrittenInv
    <2> QED BY <2>1, <2>2, <2>4, <2>5 DEF Written
  <1> QED BY <1>5, <1>6 DEF WrittenInv

\* The routers in force are among those the configurations give.
LEMMA RoutersNext ==
    ASSUME routers \in Routing, [Next]_vars
    PROVE  routers' \in Routing
  <1>1. ASSUME UNCHANGED routers PROVE routers' \in Routing
    BY <1>1
  <1>2. CASE UNCHANGED vars
    BY <1>1, <1>2, Zenon DEF vars, registry
  <1>3. CASE Configuring
    <2>1. ASSUME NEW order, NEW fails, ConfigureMany(order, fails)
          PROVE  routers' \in Routing
      BY <2>1, Zenon DEF ConfigureMany
    <2>2. ASSUME NEW alias, NEW d, NEW connected, Register(alias, d, connected)
          PROVE  routers' \in Routing
      BY <2>2, Zenon DEF Register
    <2>3. Configure \/ Route \/ Dispose => routers' \in Routing
      BY Zenon DEF Configure, Route, Dispose, registry
    <2> QED BY <1>3, <2>1, <2>2, <2>3, Zenon DEF Configuring
  <1>4. CASE Opening
    BY <1>4, Zenon DEF Opening, Open, OpenUsing, EnterUsing, OpenAll, OpenNext,
                       OpenNextFails, registry
  <1>5. ASSUME NEW m, NEW r, Write(m, r) PROVE routers' \in Routing
    BY <1>5, Zenon DEF Write, registry
  <1>6. ASSUME NEW failed, NEW commits, Closes(failed, commits) PROVE routers' \in Routing
    BY <1>6, Zenon DEF Closes, registry
  <1>7. ASSUME NEW failed, CloseAll(failed) PROVE routers' \in Routing
    BY <1>7, Zenon DEF CloseAll, registry
  <1> QED BY <1>2, <1>3, <1>4, <1>5, <1>6, <1>7, Zenon DEF Next, Closing, Close, CloseNext

LEMMA WrittenNext ==
    ASSUME RegistryInv, StackInv, OverrideInv, routers \in Routing, WrittenInv, [Next]_vars
    PROVE  WrittenInv'
  <1>1. ASSUME UNCHANGED <<blocks, work, kept, under>> PROVE WrittenInv'
    BY <1>1, KeepsWritten
  <1>2. ASSUME NEW b, Pushes(b), UNCHANGED <<work, kept, under>> PROVE WrittenInv'
    BY <1>2, KeepsWritten, Pushed DEF StackInv
  <1>3. CASE UNCHANGED vars
    BY <1>1, <1>3 DEF vars
  <1>4. CASE Configuring
    <2>1. Configuring => UNCHANGED <<blocks, work, kept, under>>
      BY Zenon DEF Configuring, Configure, ConfigureMany, Register, Route, Dispose, Work
    <2> QED BY <1>1, <1>4, <2>1
  <1>5. ASSUME NEW alias \in AnyAlias, Open(alias) \/ OpenUsing(alias) PROVE WrittenInv'
    BY <1>2, <1>5, OpenPushes, OpenUsingPushes DEF Open, OpenUsing
  <1>6. ASSUME NEW h \in Handle, EnterUsing(h) PROVE WrittenInv'
    BY <1>2, <1>6, EnterUsingPushes DEF EnterUsing
  <1>7. CASE OpenAll
    BY <1>1, <1>7 DEF OpenAll
  <1>8. CASE OpenNextFails
    BY <1>1, <1>8 DEF OpenNextFails
  <1>9. CASE OpenNext
    BY <1>2, <1>9, OpenNextPushes DEF OpenNext
  <1>10. ASSUME NEW m \in Model, NEW r \in Row, Write(m, r) PROVE WrittenInv'
    BY <1>10, WriteKeepsWritten
  <1>11. ASSUME NEW failed \in BOOLEAN, NEW commits \in BOOLEAN, Close(failed, commits)
         PROVE  WrittenInv'
    BY <1>11, CloseKeepsWritten DEF Close
  <1>12. ASSUME NEW failed \in BOOLEAN, CloseAll(failed) PROVE WrittenInv'
    BY <1>1, <1>12 DEF CloseAll
  <1>13. ASSUME NEW commits \in BOOLEAN, NEW lists \in BOOLEAN, CloseNext(commits, lists)
         PROVE  WrittenInv'
    BY <1>13, CloseKeepsWritten DEF CloseNext
  <1> QED BY <1>3, <1>4, <1>5, <1>6, <1>7, <1>8, <1>9, <1>10, <1>11, <1>12, <1>13
          DEF Next, Opening, Closing

\* What the end of the transaction of a using() block does with the rows that
\* follow the block.
KeptAsOne ==
    (/\ Len(blocks') < Len(blocks) /\ Top.to # NoAlias /\ Top.db # NoDb /\ EndsWork)
    => LET rows == {r \in Row : under[r] = Len(blocks)}
       IN /\ rows \subseteq kept' \/ rows \cap kept' = {}
          /\ \A d \in Db : rows \cap work'[d] = {}

LEMMA EndKeepsAsOne ==
    ASSUME StackInv, WrittenInv, NEW failed, NEW commits, Closes(failed, commits)
    PROVE  KeptAsOne
  <1> SUFFICES ASSUME EndsWork PROVE KeptAsOne
    BY DEF KeptAsOne
  <1> DEFINE rows == {r \in Row : under[r] = Len(blocks)}
  <1>1. blocks # <<>> /\ Len(blocks) \in DOMAIN blocks /\ Len(blocks) # 0
    BY Popped DEF Closes, StackInv
  <1>2. Top.db \in Db
    BY <1>1, ElementOfSeq, Fields DEF EndsWork, Top, StackInv
  <1>3. kept' \in {kept, kept \cup work[Top.db]} /\ work' = [work EXCEPT ![Top.db] = {}]
    BY DEF Closes
  <1>4. ASSUME NEW r \in rows
        PROVE  /\ r \in work[Top.db] /\ r \notin kept
               /\ \A d \in Db : d # Top.db => r \notin work[d]
    BY <1>1, <1>4 DEF WrittenInv, Written, Top
  <1>5. rows \subseteq kept' \/ rows \cap kept' = {}
    BY <1>3, <1>4
  <1>6. \A d \in Db : rows \cap work'[d] = {}
    BY <1>2, <1>3, <1>4 DEF WrittenInv
  <1> QED BY <1>5, <1>6 DEF KeptAsOne

LEMMA KeptAsOneNext ==
    ASSUME RegistryInv, StackInv, WrittenInv, [Next]_vars
    PROVE  KeptAsOne
  <1>1. ASSUME blocks' = blocks PROVE KeptAsOne
    BY <1>1 DEF KeptAsOne, StackInv
  <1>2. ASSUME NEW b, Pushes(b) PROVE KeptAsOne
    BY <1>2, Pushed DEF KeptAsOne, StackInv
  <1>3. ASSUME NEW failed, NEW commits, Closes(failed, commits) PROVE KeptAsOne
    BY <1>3, EndKeepsAsOne
  <1>4. CASE UNCHANGED vars
    BY <1>1, <1>4 DEF vars
  <1>5. CASE Configuring
    BY <1>1, <1>5
       DEF Configuring, Configure, ConfigureMany, Register, Route, Dispose, Work
  <1>6. ASSUME NEW alias \in AnyAlias, Open(alias) \/ OpenUsing(alias) PROVE KeptAsOne
    BY <1>2, <1>6, OpenPushes, OpenUsingPushes
  <1>7. ASSUME NEW h \in Handle, EnterUsing(h) PROVE KeptAsOne
    BY <1>2, <1>7, EnterUsingPushes
  <1>8. CASE OpenAll
    BY <1>1, <1>8 DEF OpenAll
  <1>9. CASE OpenNextFails
    BY <1>1, <1>9 DEF OpenNextFails
  <1>10. CASE OpenNext
    BY <1>2, <1>10, OpenNextPushes
  <1>11. ASSUME NEW m \in Model, NEW r \in Row, Write(m, r) PROVE KeptAsOne
    BY <1>1, <1>11 DEF Write
  <1>12. ASSUME NEW failed \in BOOLEAN, NEW commits \in BOOLEAN, Close(failed, commits)
         PROVE  KeptAsOne
    BY <1>3, <1>12 DEF Close
  <1>13. ASSUME NEW failed \in BOOLEAN, CloseAll(failed) PROVE KeptAsOne
    BY <1>1, <1>13 DEF CloseAll
  <1>14. ASSUME NEW commits \in BOOLEAN, NEW lists \in BOOLEAN, CloseNext(commits, lists)
         PROVE  KeptAsOne
    BY <1>3, <1>14 DEF CloseNext
  <1> QED BY <1>4, <1>5, <1>6, <1>7, <1>8, <1>9, <1>10, <1>11, <1>12, <1>13, <1>14
          DEF Next, Opening, Closing

\* What the models that follow using() write in its block is kept or undone as
\* one when the transaction of the block ends, wherever models are placed and
\* however routers, configurations and blocks change in between, when no object of
\* using() is entered again while it is (db_for, _Redirected.__exit__).
THEOREM WorkUnderUsingIsOneHolds ==
    ASSUME ~Reentered
    PROVE  Spec => WorkUnderUsingIsOne
  <1> DEFINE Inv == /\ RegistryInv /\ StackInv /\ UsingInv
                    /\ routers \in Routing /\ WrittenInv
  <1>1. Init => Inv
    <2>1. Init => UsingInv
      BY DEF Init, UsingInv, OverrideInv, TokensInv, AllInv, LastUsing, Override
    <2>2. Init => WrittenInv /\ routers \in Routing
      BY DEF Init, WrittenInv
    <2> QED BY <2>1, <2>2, RegistryInit, StackInit
  <1>2. Inv /\ [Next]_vars => Inv'
    BY RegistryNext, StackNext, UsingNext, RoutersNext, WrittenNext DEF UsingInv
  <1>3. Inv /\ [Next]_vars => [KeptAsOne]_vars
    BY KeptAsOneNext
  <1> QED BY <1>1, <1>2, <1>3, PTL DEF Spec, WorkUnderUsingIsOne, KeptAsOne

================================================================================
