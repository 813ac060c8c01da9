---------------------------- MODULE ModelsProofs -----------------------------
(***************************************************************************)
(* Proofs about Models, for every set of keys, values and queries and for  *)
(* any number of writes: what the writes reported is there, others see a   *)
(* transaction as a whole, a bulk write touches the rows its query reads,  *)
(* the pages of a query show each of its rows once, and its reads agree.   *)
(*                                                                         *)
(* What a write changes is of no matter to the first two: both follow from *)
(* which tables are kept for the blocks open (SavedFor).  The others are   *)
(* of the queries that calls build (Shaped) and of the tables that writes  *)
(* make, finite and with each key once (FiniteTables).                     *)
(***************************************************************************)
EXTENDS Models, FiniteSetTheorems, FunctionTheorems, SequenceTheorems, WellFoundedInduction, TLAPS

\* The rows a table may have, each key once, and those instances are of.
FiniteTables == {table \in Tables : IsFiniteSet(table)}
FiniteRows == {rows \in SUBSET Row : IsFiniteSet(rows)}

\* What is known of an open block.
BlockRecord == [kind   : {"connect", "transaction"},
                ends   : {"nothing", "root", "savepoint", "lender"},
                begun  : BOOLEAN,
                held   : FiniteRows,
                before : FiniteTables]

\* The types of the variables.
Typed ==
    /\ connection \in [rows : FiniteTables, saved : Seq(FiniteTables)]
    /\ blocks \in Seq(BlockRecord) /\ Top <= MaxDepth
    /\ detached \in FiniteRows /\ reported \in FiniteTables /\ writes \in Nat

\* What a block ends, by what it found open, and which session has begun a
\* transaction: that of a connect() with none around it.
EndsFit ==
    /\ Top >= 1 =>
         /\ blocks[1].ends = IF blocks[1].kind = "connect" THEN "nothing" ELSE "root"
         /\ blocks[1].begun => blocks[1].kind = "connect"
    /\ Top = 2 =>
         /\ ~blocks[2].begun
         /\ IF blocks[1].kind = "connect"
            THEN /\ blocks[2].kind = "transaction"
                 /\ blocks[2].ends = IF blocks[1].begun THEN "lender" ELSE "root"
            ELSE blocks[2].ends \in
                    IF blocks[2].kind = "connect" THEN {"nothing"} ELSE {"nothing", "savepoint"}

\* Which tables are kept for the blocks bs: those that the ones which end something
\* found, or the table as it is, where a session has only read.
SavedFor(bs, table, saved) ==
    /\ Len(bs) = 0 => saved = <<>>
    /\ (Len(bs) = 1 /\ bs[1].kind = "connect") =>
           saved = IF bs[1].begun THEN <<table>> ELSE <<>>
    /\ (Len(bs) = 1 /\ bs[1].kind = "transaction") => saved = <<bs[1].before>>
    /\ (Len(bs) = 2 /\ bs[1].kind = "connect") => saved = <<bs[2].before>>
    /\ (Len(bs) = 2 /\ bs[1].kind = "transaction") =>
           saved = IF bs[2].ends = "savepoint" THEN <<bs[1].before, bs[2].before>>
                   ELSE <<bs[1].before>>

\* The inductive invariant.
Inv ==
    /\ Typed
    /\ EndsFit
    /\ SavedFor(blocks, reported, connection.saved)
    /\ WhatIsReportedIsThere

\* What OthersSeeTransactionsWhole says of one step.
StepIsWhole ==
    /\ InTransaction /\ InTransaction' => Others(connection') = Others(connection)
    /\ writes' # writes /\ ~InTransaction => Others(connection') = reported'

------------------------------------------------------------------------------
(* Finite sets, and the rows of a table. *)

\* A set of naturals has a least member.
LEMMA Least ==
    ASSUME NEW T \in SUBSET Nat, T # {}
    PROVE  \E x \in T : \A y \in T : x <= y
<1>. DEFINE R == OpToRel(<, Nat)
<1>1. IsWellFoundedOn(R, Nat)
  BY NatLessThanWellFounded
<1>2. PICK x \in T : \A y \in T : ~(<<y, x>> \in R)
  <2>. HIDE DEF R
  <2>. QED
    BY <1>1, WFMin
<1>3. \A y \in T : ~(y < x)
  BY <1>2 DEF OpToRel
<1>. QED
  BY <1>3

\* A finite set of naturals has a bound.
LEMMA Bounded ==
    ASSUME NEW S \in SUBSET Nat, IsFiniteSet(S)
    PROVE  \E n \in Nat : \A x \in S : x <= n
<1>. DEFINE n == Cardinality(S)
<1>1. n \in Nat /\ ExistsBijection(1 .. n, S)
  BY FS_CardinalityType
<1>. HIDE DEF n
<1>2. PICK f \in [1 .. n -> S] : \A x \in S : \E i \in 1 .. n : f[i] = x
  BY <1>1 DEF ExistsBijection, Bijection, Surjection
<1>. DEFINE UpTo(k, m) == \A i \in 1 .. k : f[i] <= m
            T == {k \in 0 .. n : \A m \in Nat : ~UpTo(k, m)}
<1>a. \A k \in 0 .. n : k \notin T => \E m \in Nat : UpTo(k, m)
  OBVIOUS
<1>b. \A k \in T : k \in 0 .. n /\ \A m \in Nat : ~UpTo(k, m)
  OBVIOUS
<1>c. \A m \in Nat : UpTo(0, m)
  OBVIOUS
<1>. HIDE DEF T
<1>3. T = {}
  <2>1. SUFFICES ASSUME T # {} PROVE FALSE
    OBVIOUS
  <2>2. PICK k \in T : \A j \in T : k <= j
    <3>1. T \in SUBSET Nat
      BY <1>1, <1>b
    <3>. QED
      BY <3>1, <2>1, Least
  <2>3. k \in 0 .. n /\ \A m \in Nat : ~UpTo(k, m)
    BY <2>2, <1>b
  <2>4. k # 0
    BY <2>3, <1>c
  <2>5. k - 1 \in 0 .. n /\ k - 1 \notin T
    <3>1. k \in Nat /\ k - 1 \in 0 .. n /\ ~(k <= k - 1)
      BY <2>3, <2>4, <1>1
    <3>. QED
      BY <3>1, <2>2
  <2>6. PICK m \in Nat : UpTo(k - 1, m)
    BY <2>5, <1>a
  <2>7. f[k] \in Nat
    <3>1. k \in 1 .. n
      BY <2>3, <2>4, <1>1
    <3>. QED
      BY <3>1
  <2>. DEFINE larger == IF m <= f[k] THEN f[k] ELSE m
  <2>8. larger \in Nat /\ m <= larger /\ f[k] <= larger
    BY <2>6, <2>7
  <2>. HIDE DEF larger
  <2>9. ASSUME NEW i \in 1 .. k PROVE f[i] <= larger
    <3>1. CASE i = k
      BY <3>1, <2>8
    <3>2. CASE i # k
      <4>1. i \in 1 .. k - 1 /\ i \in 1 .. n
        BY <3>2, <2>3, <2>9, <1>1
      <4>2. f[i] \in Nat /\ f[i] <= m
        BY <4>1, <2>6
      <4>. QED
        BY <4>2, <2>6, <2>8
    <3>. QED
      BY <3>1, <3>2
  <2>. QED
    BY <2>3, <2>8, <2>9
<1>4. PICK m \in Nat : UpTo(n, m)
  <2>1. n \in 0 .. n
    BY <1>1
  <2>. QED
    BY <2>1, <1>3, <1>a
<1>. QED
  BY <1>2, <1>4

\* The Max of the community modules is a member, and the last.
LEMMA MaxIsLast ==
    ASSUME NEW S \in SUBSET Nat, IsFiniteSet(S), S # {}
    PROVE  Max(S) \in S /\ \A y \in S : y <= Max(S)
<1>. DEFINE bounds == {n \in Nat : \A x \in S : x <= n}
<1>1. PICK n \in bounds : \A m \in bounds : n <= m
  BY Bounded, Least
<1>2. n \in S
  <2>1. SUFFICES ASSUME n \notin S PROVE FALSE
    OBVIOUS
  <2>2. \A x \in S : x \in Nat /\ x <= n - 1
    BY <1>1, <2>1
  <2>3. n - 1 \in Nat
    <3>1. PICK x : x \in S
      OBVIOUS
    <3>. QED
      BY <3>1, <1>1, <2>2
  <2>. QED
    BY <1>1, <2>2, <2>3
<1>3. \A y \in S : n >= y
  BY <1>1
<1>. QED
  BY <1>2, <1>3 DEF Max

\* What a function makes of a finite set is finite.
LEMMA ImageIsFinite ==
    ASSUME NEW S, IsFiniteSet(S), NEW f, DOMAIN f = S
    PROVE  IsFiniteSet({f[x] : x \in S})
<1>. DEFINE T == {f[x] : x \in S}
            g == [x \in S |-> f[x]]
<1>1. g \in Surjection(S, T)
  BY DEF Surjection
<1>. HIDE DEF T, g
<1>2. IsFiniteSet(T)
  BY <1>1, FS_Surjection
<1>. QED
  BY <1>2 DEF T

\* Rows changed one by one, each under its key, are a table.
LEMMA Mapped ==
    ASSUME NEW rows \in SUBSET Row, IsFiniteSet(rows), NEW f \in [rows -> Row],
           \A r \in rows : f[r].id = r.id,
           NEW changed, changed = {f[r] : r \in rows}
    PROVE  changed \in FiniteRows /\ (rows \in FiniteTables => changed \in FiniteTables)
<1>1. changed \in SUBSET Row
  OBVIOUS
<1>2. IsFiniteSet(changed)
  BY ImageIsFinite
<1>3. ASSUME rows \in FiniteTables PROVE changed \in Tables
  <2>1. \A r, s \in rows : r.id = s.id => r = s
    BY <1>3 DEF FiniteTables, Tables
  <2>2. \A r, s \in changed : r.id = s.id => r = s
    BY <2>1
  <2>. QED
    BY <1>1, <2>2 DEF Tables
<1>. QED
  BY <1>1, <1>2, <1>3 DEF FiniteRows, FiniteTables

\* The rows of a table are finitely many, and some of them are a table.
LEMMA SomeRows ==
    ASSUME NEW rows, NEW some \in SUBSET rows
    PROVE  /\ rows \in FiniteTables => rows \in FiniteRows
           /\ rows \in FiniteRows => some \in FiniteRows
           /\ rows \in FiniteTables => some \in FiniteTables
<1>1. IsFiniteSet(rows) => IsFiniteSet(some)
  BY FS_Subset
<1>2. rows \in Tables => some \in Tables /\ rows \in SUBSET Row
  BY DEF Tables
<1>. QED
  BY <1>1, <1>2 DEF FiniteTables, FiniteRows

\* One row in the place of any with its key.
LEMMA WithOne ==
    ASSUME NEW rows, NEW r \in Row
    PROVE  /\ rows \in FiniteRows => With(rows, r) \in FiniteRows
           /\ rows \in FiniteTables => With(rows, r) \in FiniteTables
<1>. DEFINE others == {s \in rows : s.id # r.id}
<1>1. IsFiniteSet(rows) => IsFiniteSet(others \cup {r})
  <2>1. IsFiniteSet(rows) => IsFiniteSet(others)
    BY FS_Subset
  <2>. HIDE DEF others
  <2>. QED
    BY <2>1, FS_AddElement
<1>2. rows \in Tables => others \cup {r} \in Tables
  BY DEF Tables
<1>. QED
  BY <1>1, <1>2 DEF FiniteTables, FiniteRows, With

\* What the writes do to the rows of a table, or to those held, gives such rows.
LEMMA Changed ==
    ASSUME NEW rows
    PROVE  /\ rows \in FiniteTables => rows \in FiniteRows
           /\ rows \in FiniteRows =>
                /\ \A r \in Row : With(rows, r) \in FiniteRows
                /\ \A ids : Without(rows, ids) \in FiniteRows
                /\ \A ids : \A v \in Value : Revalued(rows, ids, v) \in FiniteRows
                /\ \A ids : \A marked \in BOOLEAN : Remarked(rows, ids, marked) \in FiniteRows
                /\ \A some \in SUBSET rows : some \in FiniteRows
           /\ rows \in FiniteTables =>
                /\ \A r \in Row : With(rows, r) \in FiniteTables
                /\ \A ids : Without(rows, ids) \in FiniteTables
                /\ \A ids : \A v \in Value : Revalued(rows, ids, v) \in FiniteTables
                /\ \A ids : \A marked \in BOOLEAN : Remarked(rows, ids, marked) \in FiniteTables
                /\ \A some \in SUBSET rows : some \in FiniteTables
<1>1. \A ids : Without(rows, ids) \in SUBSET rows
  BY DEF Without
<1>2. ASSUME rows \in FiniteRows, NEW ids, NEW v \in Value
      PROVE  /\ Revalued(rows, ids, v) \in FiniteRows
             /\ rows \in FiniteTables => Revalued(rows, ids, v) \in FiniteTables
  <2>. DEFINE f == [s \in rows |-> IF s.id \in ids THEN [s EXCEPT !.value = v] ELSE s]
  <2>1. rows \in SUBSET Row /\ IsFiniteSet(rows)
    BY <1>2 DEF FiniteRows
  <2>2. \A s \in Row : [s EXCEPT !.value = v] \in Row /\ [s EXCEPT !.value = v].id = s.id
    BY DEF Row
  <2>3. f \in [rows -> Row] /\ \A s \in rows : f[s].id = s.id
    BY <2>1, <2>2
  <2>4. Revalued(rows, ids, v) = {f[s] : s \in rows}
    BY DEF Revalued
  <2>. HIDE DEF f
  <2>. QED
    BY <2>1, <2>3, <2>4, Mapped
<1>3. ASSUME rows \in FiniteRows, NEW ids, NEW marked \in BOOLEAN
      PROVE  /\ Remarked(rows, ids, marked) \in FiniteRows
             /\ rows \in FiniteTables => Remarked(rows, ids, marked) \in FiniteTables
  <2>. DEFINE f == [s \in rows |-> IF s.id \in ids THEN [s EXCEPT !.marked = marked] ELSE s]
  <2>1. rows \in SUBSET Row /\ IsFiniteSet(rows)
    BY <1>3 DEF FiniteRows
  <2>2. \A s \in Row : [s EXCEPT !.marked = marked] \in Row /\ [s EXCEPT !.marked = marked].id = s.id
    BY DEF Row
  <2>3. f \in [rows -> Row] /\ \A s \in rows : f[s].id = s.id
    BY <2>1, <2>2
  <2>4. Remarked(rows, ids, marked) = {f[s] : s \in rows}
    BY DEF Remarked
  <2>. HIDE DEF f
  <2>. QED
    BY <2>1, <2>3, <2>4, Mapped
<1>. QED
  BY <1>1, <1>2, <1>3, SomeRows, WithOne

\* No rows, and one.
LEMMA FewRows == {} \in FiniteRows /\ \A r \in Row : {r} \in FiniteRows
  BY FS_EmptySet, FS_Singleton DEF FiniteRows

\* The rows of both.
LEMMA BothRows ==
    ASSUME NEW a \in FiniteRows, NEW b \in FiniteRows PROVE a \cup b \in FiniteRows
  BY FS_Union DEF FiniteRows

------------------------------------------------------------------------------
(* The blocks. *)

\* At most two blocks are open, and the outermost decides with the next what is kept.
LEMMA Shapes ==
    ASSUME Inv
    PROVE  /\ Top \in 0 .. 2
           /\ Top = 0 \/ Top = 1 \/ Top = 2
           /\ HasSession <=> Top # 0
           /\ \A d \in 1 .. Top : blocks[d] \in BlockRecord
           /\ Top = 0 => blocks = <<>> /\ connection.saved = <<>> /\ ~InTransaction
           /\ (Top = 1 /\ blocks[1].kind = "connect") =>
                 /\ ~InTransaction
                 /\ connection.saved = IF blocks[1].begun THEN <<reported>> ELSE <<>>
           /\ (Top = 1 /\ blocks[1].kind = "transaction") =>
                 InTransaction /\ connection.saved = <<blocks[1].before>>
           /\ (Top = 2 /\ blocks[1].kind = "connect") =>
                 InTransaction /\ connection.saved = <<blocks[2].before>>
           /\ (Top = 2 /\ blocks[1].kind = "transaction") =>
                 /\ InTransaction
                 /\ connection.saved = IF blocks[2].ends = "savepoint"
                                       THEN <<blocks[1].before, blocks[2].before>>
                                       ELSE <<blocks[1].before>>
<1>1. Top \in 0 .. 2 /\ \A d \in 1 .. Top : blocks[d] \in BlockRecord
  <2>1. blocks \in Seq(BlockRecord) /\ Top <= MaxDepth
    BY DEF Inv, Typed
  <2>2. Top \in Nat /\ \A d \in 1 .. Top : blocks[d] \in BlockRecord
    BY <2>1 DEF Top
  <2>. QED
    BY <2>1, <2>2, DepthAssumption
<1>2. \A d \in 1 .. Top : blocks[d].kind \in {"connect", "transaction"}
  BY <1>1 DEF BlockRecord
<1>3. InTransaction <=> \/ Top >= 1 /\ blocks[1].kind = "transaction"
                        \/ Top = 2 /\ blocks[2].kind = "transaction"
  BY <1>1 DEF InTransaction
<1>4. /\ Top = 0 => blocks = <<>>
      /\ HasSession <=> Top # 0
  BY DEF Inv, Typed, Top, HasSession
<1>. QED
  BY <1>1, <1>2, <1>3, <1>4 DEF Inv, EndsFit, SavedFor, Top

\* A block is open: the innermost of one or two.
LEMMA SomeOpen ==
    ASSUME Inv, HasSession
    PROVE  /\ Top = 1 \/ Top = 2
           /\ blocks[Top] \in BlockRecord /\ blocks[1] \in BlockRecord
           /\ blocks[1].kind = "connect" \/ blocks[1].kind = "transaction"
<1>1. Top = 1 \/ Top = 2
  BY Shapes DEF HasSession
<1>2. blocks[Top] \in BlockRecord /\ blocks[1] \in BlockRecord
  BY <1>1, Shapes
<1>. QED
  BY <1>1, <1>2 DEF BlockRecord

\* With no block open, nothing is kept.
LEMMA InitInv == Init => Inv
<1>. SUFFICES ASSUME Init PROVE Inv
  OBVIOUS
<1>1. blocks = <<>> /\ Top = 0
  BY DEF Init, Top
<1>2. connection \in [rows : FiniteTables, saved : Seq(FiniteTables)] /\ reported \in FiniteTables
  BY InitialAssumption DEF Init, FiniteTables
<1>3. connection.saved = <<>> /\ connection.rows = reported
  BY DEF Init
<1>. QED
  BY <1>1, <1>2, <1>3, DepthAssumption, FewRows
  DEF Init, Inv, Typed, EndsFit, SavedFor, Top, WhatIsReportedIsThere

\* A session is left with other instances, and may have begun a transaction or ended it:
\* the block is the same otherwise.
LEMMA SessionChanges ==
    ASSUME Inv, HasSession, NEW held \in FiniteRows, NEW begun \in BOOLEAN,
           InTransaction => begun = blocks[Top].begun,
           blocks' = [blocks EXCEPT ![Top].held = held, ![Top].begun = begun]
    PROVE  /\ blocks' \in Seq(BlockRecord) /\ Top' = Top
           /\ EndsFit'
           /\ InTransaction' = InTransaction
           /\ InTransaction => \A table : SavedFor(blocks', table, connection.saved)
           /\ ~InTransaction => \A table :
                 SavedFor(blocks', table, IF begun THEN <<table>> ELSE <<>>)
<1>1. blocks \in Seq(BlockRecord) /\ Top \in 1 .. 2 /\ Top = Len(blocks)
  BY Shapes DEF Inv, Typed, HasSession, Top
<1>2. blocks[Top] \in BlockRecord
  BY <1>1
<1>3. [blocks[Top] EXCEPT !.held = held, !.begun = begun] \in BlockRecord
  BY <1>2 DEF BlockRecord
<1>4. blocks' = [blocks EXCEPT ![Top] = [blocks[Top] EXCEPT !.held = held, !.begun = begun]]
  BY <1>1
<1>5. /\ blocks' \in Seq(BlockRecord) /\ Len(blocks') = Top
      /\ \A d \in 1 .. Top : blocks'[d] = IF d = Top THEN [blocks[Top] EXCEPT !.held = held, !.begun = begun]
                                          ELSE blocks[d]
  BY <1>1, <1>3, <1>4
<1>6. \A d \in 1 .. Top :
          /\ blocks'[d].kind = blocks[d].kind /\ blocks'[d].ends = blocks[d].ends
          /\ blocks'[d].before = blocks[d].before
          /\ blocks'[d].begun = IF d = Top THEN begun ELSE blocks[d].begun
  BY <1>2, <1>5 DEF BlockRecord
<1>7. Top' = Top
  BY <1>5 DEF Top
<1>8. InTransaction' = InTransaction
  BY <1>6, <1>7 DEF InTransaction
<1>9. EndsFit'
  <2>1. EndsFit
    BY DEF Inv
  <2>2. CASE Top = 1
    BY <2>1, <2>2, <1>2, <1>6, <1>7, <1>8, Shapes DEF EndsFit, BlockRecord
  <2>3. CASE Top = 2
    BY <2>1, <2>3, <1>1, <1>6, <1>7, <1>8, Shapes DEF EndsFit, BlockRecord
  <2>. QED
    BY <2>2, <2>3, <1>1
<1>10. CASE InTransaction
  <2>1. \A table : SavedFor(blocks', table, connection.saved)
    <3>1. CASE Top = 1
      BY <3>1, <1>10, <1>1, <1>2, <1>5, <1>6, Shapes DEF SavedFor, BlockRecord
    <3>2. CASE Top = 2
      <4>1. Len(blocks') = 2 /\ (blocks[1].kind = "connect" \/ blocks[1].kind = "transaction")
        BY <3>2, <1>5, SomeOpen
      <4>2. /\ blocks'[1].kind = blocks[1].kind /\ blocks'[1].before = blocks[1].before
            /\ blocks'[2].ends = blocks[2].ends /\ blocks'[2].before = blocks[2].before
        BY <3>2, <1>6
      <4>. QED
        BY <4>1, <4>2, <3>2, Shapes DEF SavedFor
    <3>. QED
      BY <3>1, <3>2, SomeOpen
  <2>. QED
    BY <2>1, <1>5, <1>7, <1>8, <1>9, <1>10
<1>11. CASE ~InTransaction
  <2>1. Top = 1 /\ blocks[1].kind = "connect"
    BY <1>1, <1>2, <1>11, Shapes DEF BlockRecord
  <2>. QED
    BY <2>1, <1>1, <1>5, <1>6, <1>7, <1>8, <1>9, <1>11 DEF SavedFor
<1>. QED
  BY <1>10, <1>11

\* Others see the first table kept, where a transaction is open.
LEMMA OthersSee ==
    ASSUME Inv, InTransaction
    PROVE  connection.saved # <<>> /\ Others(connection) = connection.saved[1]
<1>1. Top \in {1, 2} /\ blocks[1].kind \in {"connect", "transaction"}
  BY Shapes DEF BlockRecord
<1>2. connection.saved # <<>>
  BY <1>1, Shapes
<1>. QED
  BY <1>2 DEF Others

\* A write that returns reports what is there, and outside a transaction others see it.
LEMMA WritesKeep ==
    ASSUME Inv, NEW change, NEW held \in FiniteRows, change[connection.rows] \in FiniteTables,
           Writes(change, held)
    PROVE  Inv' /\ StepIsWhole
<1>. DEFINE rows == change[connection.rows]
<1>1. HasSession /\ Persist(rows, held) /\ reported' = rows /\ detached' = detached
      /\ writes' \in Nat
  BY DEF Writes, Inv, WhatIsReportedIsThere, Typed
<1>2. blocks \in Seq(BlockRecord) /\ Top \in 1 .. 2 /\ Top = Len(blocks)
      /\ blocks[Top] \in BlockRecord /\ connection \in [rows : FiniteTables, saved : Seq(FiniteTables)]
  BY <1>1, Shapes DEF Inv, Typed, HasSession, Top
<1>. HIDE DEF rows
<1>3. rows \in FiniteTables
  BY DEF rows
<1>4. CASE InTransaction
  <2>1. connection' = [connection EXCEPT !.rows = rows]
        /\ blocks' = [blocks EXCEPT ![Top].held = held]
    BY <1>1, <1>4 DEF Persist
  <2>2. blocks' = [blocks EXCEPT ![Top].held = held, ![Top].begun = blocks[Top].begun]
    BY <2>1, <1>2 DEF BlockRecord
  <2>3. blocks[Top].begun \in BOOLEAN
    BY <1>2 DEF BlockRecord
  <2>4. /\ blocks' \in Seq(BlockRecord) /\ Top' = Top /\ EndsFit' /\ InTransaction'
        /\ \A table : SavedFor(blocks', table, connection.saved)
    BY <2>2, <2>3, <1>1, <1>4, SessionChanges
  <2>5. connection'.rows = rows /\ connection'.saved = connection.saved
        /\ connection' \in [rows : FiniteTables, saved : Seq(FiniteTables)]
    BY <2>1, <1>2, <1>3
  <2>6. Others(connection') = Others(connection)
    BY <2>5, <1>4, OthersSee DEF Others
  <2>. QED
    BY <2>4, <2>5, <2>6, <1>1, <1>3, <1>4
    DEF Inv, Typed, WhatIsReportedIsThere, StepIsWhole
<1>5. CASE ~InTransaction
  <2>1. connection' = [rows |-> rows, saved |-> <<>>]
        /\ blocks' = [blocks EXCEPT ![Top].held = held, ![Top].begun = FALSE]
    BY <1>1, <1>5 DEF Persist
  <2>2. /\ blocks' \in Seq(BlockRecord) /\ Top' = Top /\ EndsFit' /\ ~InTransaction'
        /\ SavedFor(blocks', reported', <<>>)
    BY <2>1, <1>1, <1>5, SessionChanges
  <2>3. connection'.rows = rows /\ connection'.saved = <<>>
        /\ connection' \in [rows : FiniteTables, saved : Seq(FiniteTables)]
    BY <2>1, <1>3
  <2>4. Others(connection') = rows
    BY <2>3 DEF Others
  <2>. QED
    BY <2>2, <2>3, <2>4, <1>1, <1>3, <1>5
    DEF Inv, Typed, WhatIsReportedIsThere, StepIsWhole
<1>. QED
  BY <1>4, <1>5

\* A read changes no row, and begins a transaction at most.
LEMMA ReadsKeep ==
    ASSUME Inv, HasSession, NEW held \in FiniteRows, Reads(held)
    PROVE  Inv' /\ StepIsWhole
<1>. DEFINE begun == blocks[Top].begun \/ ~InTransaction
<1>1. blocks \in Seq(BlockRecord) /\ Top \in 1 .. 2 /\ Top = Len(blocks)
      /\ blocks[Top] \in BlockRecord /\ connection \in [rows : FiniteTables, saved : Seq(FiniteTables)]
  BY Shapes DEF Inv, Typed, HasSession, Top
<1>2. begun \in BOOLEAN /\ (InTransaction => begun = blocks[Top].begun)
  BY <1>1 DEF BlockRecord
<1>3. blocks' = [blocks EXCEPT ![Top].held = held, ![Top].begun = begun]
  BY <1>1 DEF Reads, BlockRecord
<1>4. /\ blocks' \in Seq(BlockRecord) /\ Top' = Top /\ EndsFit' /\ InTransaction' = InTransaction
      /\ InTransaction => \A table : SavedFor(blocks', table, connection.saved)
      /\ ~InTransaction => \A table : SavedFor(blocks', table, <<table>>)
  <2>. HIDE DEF begun
  <2>1. ~InTransaction => begun
    BY DEF begun
  <2>. QED
    BY <2>1, <1>2, <1>3, SessionChanges
<1>5. CASE InTransaction
  <2>1. connection' = connection /\ reported' = reported /\ detached' = detached /\ writes' = writes
    BY <1>5 DEF Reads
  <2>. QED
    BY <2>1, <1>4, <1>5 DEF Inv, Typed, WhatIsReportedIsThere, StepIsWhole
<1>6. CASE ~InTransaction
  <2>1. connection' = Begun(connection) /\ reported' = reported
        /\ detached' = detached /\ writes' = writes
    BY <1>6 DEF Reads
  <2>2. connection.saved = <<>> \/ connection.saved = <<reported>>
    BY <1>1, <1>6, Shapes DEF BlockRecord
  <2>3. connection.rows = reported /\ reported \in FiniteTables
    BY DEF Inv, Typed, WhatIsReportedIsThere
  <2>4. CASE connection.saved = <<>>
    <3>1. connection' = [connection EXCEPT !.saved = <<connection.rows>>]
      BY <2>1, <2>4 DEF Begun
    <3>2. <<reported>> \in Seq(FiniteTables)
      BY <2>3
    <3>3. /\ connection'.rows = reported /\ connection'.saved = <<reported>>
          /\ connection' \in [rows : FiniteTables, saved : Seq(FiniteTables)]
      BY <2>3, <3>1, <3>2, <1>1
    <3>. QED
      BY <2>1, <3>3, <1>4, <1>6 DEF Inv, Typed, WhatIsReportedIsThere, StepIsWhole
  <2>5. CASE connection.saved = <<reported>>
    <3>1. connection' = connection
      BY <2>1, <2>5 DEF Begun
    <3>. QED
      BY <2>1, <2>3, <2>5, <3>1, <1>1, <1>4, <1>6
      DEF Inv, Typed, WhatIsReportedIsThere, StepIsWhole
  <2>. QED
    BY <2>2, <2>4, <2>5
<1>. QED
  BY <1>5, <1>6

\* A new block finds the table as it is reported.
LEMMA BlockIs ==
    ASSUME Inv, NEW kind \in {"connect", "transaction"},
           NEW ends \in {"nothing", "root", "savepoint", "lender"}
    PROVE  /\ Block(kind, ends) \in BlockRecord
           /\ Block(kind, ends).kind = kind /\ Block(kind, ends).ends = ends
           /\ ~Block(kind, ends).begun /\ Block(kind, ends).before = connection.rows
  BY FewRows DEF Block, BlockRecord, Inv, Typed, WhatIsReportedIsThere

\* One more block.
LEMMA OneMore ==
    ASSUME Inv, Top < MaxDepth, NEW b \in BlockRecord, blocks' = Append(blocks, b)
    PROVE  /\ Top = 0 \/ Top = 1
           /\ blocks' \in Seq(BlockRecord) /\ Top' = Top + 1 /\ Top' <= MaxDepth
           /\ Len(blocks') = Top + 1
           /\ blocks'[Top + 1] = b
           /\ Top = 1 => blocks'[1] = blocks[1]
           /\ InTransaction' <=> InTransaction \/ b.kind = "transaction"
<1>1. blocks \in Seq(BlockRecord) /\ Top \in Nat /\ Top = Len(blocks)
  BY DEF Inv, Typed, Top
<1>2. Top = 0 \/ Top = 1
  <2>1. Top = 0 \/ Top = 1 \/ Top = 2
    BY Shapes
  <2>. QED
    BY <2>1, DepthAssumption
<1>3. /\ blocks' \in Seq(BlockRecord) /\ Len(blocks') = Top + 1
      /\ blocks'[Top + 1] = b
      /\ \A d \in 1 .. Top : blocks'[d] = blocks[d]
  BY <1>1
<1>4. Top' = Top + 1
  BY <1>3 DEF Top
<1>5. Top' <= MaxDepth
  BY <1>2, <1>4, DepthAssumption
<1>6. InTransaction' <=> \E d \in 1 .. Top + 1 : blocks'[d].kind = "transaction"
  BY <1>4 DEF InTransaction
<1>7. InTransaction <=> \E d \in 1 .. Top : blocks[d].kind = "transaction"
  BY DEF InTransaction
<1>. QED
  BY <1>2, <1>3, <1>4, <1>5, <1>6, <1>7

\* connect() keeps the table as it is, and a session of it has yet to begin.
LEMMA ConnectKeeps == Inv /\ Connect => Inv' /\ StepIsWhole
<1>. SUFFICES ASSUME Inv, Connect PROVE Inv' /\ StepIsWhole
  OBVIOUS
<1>. DEFINE b == Block("connect", "nothing")
<1>1. Top < MaxDepth /\ blocks' = Append(blocks, b) /\ (Top = 0 \/ InTransaction)
      /\ UNCHANGED <<connection, detached, reported, writes>>
  BY DEF Connect
<1>2. b \in BlockRecord /\ b.kind = "connect" /\ b.ends = "nothing" /\ ~b.begun
  BY BlockIs
<1>. HIDE DEF b
<1>3. /\ Top = 0 \/ Top = 1
      /\ blocks' \in Seq(BlockRecord) /\ Top' = Top + 1 /\ Top' <= MaxDepth
      /\ Len(blocks') = Top + 1
      /\ blocks'[Top + 1] = b
      /\ Top = 1 => blocks'[1] = blocks[1]
      /\ InTransaction' <=> InTransaction
  BY <1>1, <1>2, OneMore
<1>4. EndsFit' /\ SavedFor(blocks', reported', connection'.saved)
  <2>1. CASE Top = 0
    BY <2>1, <1>1, <1>2, <1>3, Shapes DEF EndsFit, SavedFor
  <2>2. CASE Top = 1
    <3>1. blocks[1].kind = "transaction" /\ connection.saved = <<blocks[1].before>>
      BY <2>2, <1>1, SomeOpen, Shapes
    <3>2. blocks[1].ends = "root" /\ ~blocks[1].begun
      BY <2>2, <3>1 DEF Inv, EndsFit
    <3>. QED
      BY <2>2, <3>1, <3>2, <1>1, <1>2, <1>3 DEF EndsFit, SavedFor
  <2>. QED
    BY <2>1, <2>2, <1>3
<1>. QED
  BY <1>1, <1>3, <1>4 DEF Inv, Typed, WhatIsReportedIsThere, StepIsWhole, Others

\* transaction() keeps the table it finds, where it has an end of its own.
LEMMA TransactionKeeps ==
    ASSUME Inv, NEW savepoint \in BOOLEAN, Transaction(savepoint)
    PROVE  Inv' /\ StepIsWhole
<1>. DEFINE ends == IF InTransaction THEN IF savepoint THEN "savepoint" ELSE "nothing"
                    ELSE IF HasSession /\ blocks[Top].begun THEN "lender" ELSE "root"
            b == Block("transaction", ends)
<1>1. Top < MaxDepth /\ blocks' = Append(blocks, b)
      /\ UNCHANGED <<detached, reported, writes>>
  BY DEF Transaction
<1>2. connection' = IF ends = "savepoint" THEN WithSavepoint(connection)
                    ELSE IF ends = "root" THEN Begun(connection) ELSE connection
  BY DEF Transaction
<1>3. ends \in {"nothing", "root", "savepoint", "lender"}
  OBVIOUS
<1>4. InTransaction => ends \in {"savepoint", "nothing"}
  OBVIOUS
<1>5. ~InTransaction => ends = IF HasSession /\ blocks[Top].begun THEN "lender" ELSE "root"
  OBVIOUS
<1>6. b \in BlockRecord /\ b.kind = "transaction" /\ b.ends = ends /\ ~b.begun
      /\ b.before = connection.rows
  BY <1>3, BlockIs
<1>. HIDE DEF b, ends
<1>7. /\ Top = 0 \/ Top = 1
      /\ blocks' \in Seq(BlockRecord) /\ Top' = Top + 1 /\ Top' <= MaxDepth
      /\ Len(blocks') = Top + 1
      /\ blocks'[Top + 1] = b
      /\ Top = 1 => blocks'[1] = blocks[1]
      /\ InTransaction'
  BY <1>1, <1>6, OneMore
<1>8. connection.rows = reported /\ reported \in FiniteTables
      /\ connection \in [rows : FiniteTables, saved : Seq(FiniteTables)]
  BY DEF Inv, Typed, WhatIsReportedIsThere
<1>9. ASSUME NEW saved \in Seq(FiniteTables), connection' = [connection EXCEPT !.saved = saved],
             EndsFit', SavedFor(blocks', reported, saved),
             InTransaction => Others(connection') = Others(connection)
      PROVE  Inv' /\ StepIsWhole
  <2>1. connection'.rows = connection.rows /\ connection'.saved = saved
        /\ connection' \in [rows : FiniteTables, saved : Seq(FiniteTables)]
    BY <1>8, <1>9
  <2>. QED
    BY <2>1, <1>1, <1>7, <1>8, <1>9 DEF Inv, Typed, WhatIsReportedIsThere, StepIsWhole
<1>10. connection = [connection EXCEPT !.saved = connection.saved]
       /\ connection.saved \in Seq(FiniteTables)
  BY <1>8
<1>11. CASE Top = 0
  <2>1. ends = "root" /\ connection.saved = <<>> /\ ~InTransaction
    BY <1>5, <1>11, Shapes DEF HasSession
  <2>2. connection' = [connection EXCEPT !.saved = <<connection.rows>>]
    BY <2>1, <1>2 DEF Begun
  <2>3. <<connection.rows>> \in Seq(FiniteTables)
    BY <1>8
  <2>4. EndsFit' /\ SavedFor(blocks', reported, <<connection.rows>>)
    BY <2>1, <1>6, <1>7, <1>11 DEF EndsFit, SavedFor
  <2>. QED
    BY <2>1, <2>2, <2>3, <2>4, <1>9
<1>12. CASE Top = 1 /\ blocks[1].kind = "connect"
  <2>1. /\ ~InTransaction /\ HasSession /\ blocks[1].ends = "nothing"
        /\ connection.saved = IF blocks[1].begun THEN <<reported>> ELSE <<>>
    BY <1>12, Shapes DEF Inv, EndsFit
  <2>2. ends = IF blocks[1].begun THEN "lender" ELSE "root"
    BY <2>1, <1>5, <1>12
  <2>3. connection' = [connection EXCEPT !.saved = <<reported>>]
    BY <2>1, <2>2, <1>2, <1>8, <1>10 DEF Begun
  <2>4. <<reported>> \in Seq(FiniteTables)
    BY <1>8
  <2>5. EndsFit' /\ SavedFor(blocks', reported, <<reported>>)
    BY <2>1, <2>2, <1>6, <1>7, <1>8, <1>12 DEF EndsFit, SavedFor
  <2>. QED
    BY <2>1, <2>3, <2>4, <2>5, <1>9
<1>13. CASE Top = 1 /\ blocks[1].kind = "transaction"
  <2>1. /\ InTransaction /\ blocks[1].ends = "root" /\ ~blocks[1].begun
        /\ connection.saved = <<blocks[1].before>>
    BY <1>13, Shapes DEF Inv, EndsFit
  <2>2. CASE ends = "savepoint"
    <3>1. connection' = [connection EXCEPT !.saved = <<blocks[1].before, connection.rows>>]
      BY <2>1, <2>2, <1>2 DEF WithSavepoint
    <3>2. blocks[1].before \in FiniteTables
      BY <1>13, SomeOpen, Shapes DEF BlockRecord
    <3>3. <<blocks[1].before, connection.rows>> \in Seq(FiniteTables)
      BY <3>2, <1>8
    <3>4. EndsFit' /\ SavedFor(blocks', reported, <<blocks[1].before, connection.rows>>)
      BY <2>1, <2>2, <1>6, <1>7, <1>13 DEF EndsFit, SavedFor
    <3>5. Others(connection') = Others(connection)
      BY <2>1, <3>1, <1>8 DEF Others
    <3>. QED
      BY <3>1, <3>3, <3>4, <3>5, <1>9
  <2>3. CASE ends = "nothing"
    <3>1. connection' = connection
      BY <2>3, <1>2
    <3>2. EndsFit' /\ SavedFor(blocks', reported, connection.saved)
      BY <2>1, <2>3, <1>6, <1>7, <1>13 DEF EndsFit, SavedFor
    <3>. QED
      BY <3>1, <3>2, <1>9, <1>10
  <2>. QED
    BY <2>1, <2>2, <2>3, <1>4
<1>. QED
  BY <1>7, <1>11, <1>12, <1>13, SomeOpen, Shapes

\* One block less.
LEMMA OneLess ==
    ASSUME Inv, HasSession, blocks' = Front(blocks)
    PROVE  /\ blocks' \in Seq(BlockRecord) /\ Top' <= MaxDepth
           /\ Top = 1 => Top' = 0 /\ Len(blocks') = 0 /\ ~InTransaction'
           /\ Top = 2 => /\ Top' = 1 /\ Len(blocks') = 1 /\ blocks'[1] = blocks[1]
                         /\ InTransaction' <=> blocks[1].kind = "transaction"
<1>1. blocks \in Seq(BlockRecord) /\ Len(blocks) = Top /\ (Top = 1 \/ Top = 2)
  BY SomeOpen DEF Inv, Typed, Top
<1>2. blocks' = SubSeq(blocks, 1, Top - 1)
  BY <1>1 DEF Front
<1>3. /\ blocks' \in Seq(BlockRecord) /\ Len(blocks') = Top - 1
      /\ \A d \in 1 .. Top - 1 : blocks'[d] = blocks[d]
  BY <1>1, <1>2
<1>4. Top' = Top - 1
  BY <1>3 DEF Top
<1>5. Top' <= MaxDepth
  BY <1>1, <1>4, DepthAssumption
<1>6. InTransaction' <=> \E d \in 1 .. Top - 1 : blocks'[d].kind = "transaction"
  BY <1>4 DEF InTransaction
<1>. QED
  BY <1>1, <1>3, <1>4, <1>5, <1>6

\* What is kept last is put back, and kept no longer.
LEMMA Kept ==
    /\ \A x : Last(<<x>>) = x /\ Front(<<x>>) = <<>>
    /\ \A x, y : Last(<<x, y>>) = y /\ Front(<<x, y>>) = <<x>>
<1>1. ASSUME NEW x, NEW y
      PROVE  Last(<<x, y>>) = y /\ Front(<<x, y>>) = <<x>>
  <2>1. <<x, y>> \in Seq({x, y}) /\ Len(<<x, y>>) = 2
    OBVIOUS
  <2>2. /\ SubSeq(<<x, y>>, 1, 1) \in Seq({x, y}) /\ Len(SubSeq(<<x, y>>, 1, 1)) = 1
        /\ SubSeq(<<x, y>>, 1, 1)[1] = x
    BY <2>1
  <2>3. <<x>> \in Seq({x, y}) /\ Len(<<x>>) = 1 /\ <<x>>[1] = x
    OBVIOUS
  <2>4. \A i \in 1 .. 1 : SubSeq(<<x, y>>, 1, 1)[i] = <<x>>[i]
    BY <2>2, <2>3
  <2>5. SubSeq(<<x, y>>, 1, 1) = <<x>>
    BY <2>2, <2>3, <2>4, SeqEqual
  <2>. QED
    BY <2>1, <2>5 DEF Last, Front
<1>2. ASSUME NEW x
      PROVE  Last(<<x>>) = x /\ Front(<<x>>) = <<>>
  BY DEF Last, Front
<1>. QED
  BY <1>1, <1>2

\* The end of a block: what is put back, and for how many blocks tables are still kept.
LEMMA EndsTo ==
    ASSUME Inv, NEW saved \in Seq(FiniteTables), NEW rows \in FiniteTables,
           connection' = [rows |-> rows, saved |-> saved], reported' = rows,
           detached' \in FiniteRows, writes' = writes,
           blocks' \in Seq(BlockRecord), Top' <= MaxDepth, EndsFit',
           SavedFor(blocks', rows, saved),
           InTransaction /\ InTransaction' => Others(connection') = Others(connection)
    PROVE  Inv' /\ StepIsWhole
  BY DEF Inv, Typed, WhatIsReportedIsThere, StepIsWhole

\* The end of connect() puts back the table its session began from.
LEMMA EndConnectKeeps ==
    ASSUME Inv, HasSession, EndConnect, detached' \in FiniteRows, writes' = writes
    PROVE  Inv' /\ StepIsWhole
<1>1. /\ blocks[Top].kind = "connect" /\ blocks' = Front(blocks) /\ reported' = reported
      /\ connection' = IF blocks[Top].begun THEN RolledBack(connection) ELSE connection
  BY DEF EndConnect
<1>2. /\ connection.rows = reported /\ reported \in FiniteTables
      /\ connection = [rows |-> reported, saved |-> connection.saved]
      /\ connection.saved \in Seq(FiniteTables) /\ <<>> \in Seq(FiniteTables)
  BY DEF Inv, Typed, WhatIsReportedIsThere
<1>3. CASE Top = 1
  <2>1. connection.saved = IF blocks[1].begun THEN <<reported>> ELSE <<>>
    BY <1>1, <1>3, Shapes
  <2>2. connection' = [rows |-> reported, saved |-> <<>>]
    <3>1. CASE blocks[1].begun
      BY <3>1, <2>1, <1>1, <1>3, Kept DEF RolledBack
    <3>2. CASE ~blocks[1].begun
      BY <3>2, <2>1, <1>1, <1>2, <1>3
    <3>. QED
      BY <3>1, <3>2
  <2>3. EndsFit' /\ SavedFor(blocks', reported, <<>>) /\ ~InTransaction'
    BY <1>1, <1>3, OneLess DEF EndsFit, SavedFor
  <2>. QED
    BY <2>2, <2>3, <1>1, <1>2, OneLess, EndsTo
<1>4. CASE Top = 2
  <2>1. blocks[1].kind = "transaction" /\ ~blocks[2].begun
        /\ blocks[2].ends = "nothing" /\ blocks[1].ends = "root" /\ ~blocks[1].begun
    BY <1>1, <1>4, SomeOpen DEF Inv, EndsFit
  <2>2. connection.saved = <<blocks[1].before>>
    BY <2>1, <1>4, Shapes
  <2>3. connection' = connection
    BY <2>1, <1>1, <1>4
  <2>4. EndsFit' /\ SavedFor(blocks', reported, connection.saved)
    BY <2>1, <2>2, <1>1, <1>4, OneLess DEF EndsFit, SavedFor
  <2>. QED
    BY <2>3, <2>4, <1>1, <1>2, OneLess, EndsTo
<1>. QED
  BY <1>3, <1>4, SomeOpen

\* The lender of a transaction has it no longer.
LEMMA LenderIs ==
    ASSUME Inv, Top = 2, NEW lender \in BlockRecord, lender.kind = blocks[1].kind,
           lender.kind = "connect", lender.ends = "nothing", ~lender.begun,
           blocks' = <<lender>>
    PROVE  /\ blocks' \in Seq(BlockRecord) /\ Top' <= MaxDepth /\ ~InTransaction'
           /\ EndsFit' /\ \A table : SavedFor(blocks', table, <<>>)
<1>1. blocks' \in Seq(BlockRecord) /\ Len(blocks') = 1 /\ blocks'[1] = lender
  OBVIOUS
<1>2. Top' = 1
  BY <1>1 DEF Top
<1>3. Top' <= MaxDepth
  BY <1>2, DepthAssumption
<1>. QED
  BY <1>1, <1>2, <1>3 DEF EndsFit, SavedFor, InTransaction

\* The end of transaction() puts back the table it found, or forgets it.
LEMMA EndTransactionKeeps ==
    ASSUME Inv, HasSession, blocks[Top].kind = "transaction", Keep \/ Undo,
           detached' \in FiniteRows, writes' = writes
    PROVE  Inv' /\ StepIsWhole
<1>. DEFINE b == blocks[Top]
            undone == IF b.ends = "nothing" THEN connection ELSE RolledBack(connection)
            kept == IF b.ends = "nothing" THEN connection
                    ELSE IF b.ends = "lender" THEN Committed(connection)
                    ELSE Ended(connection)
            forgets == [blocks[1] EXCEPT
                          !.begun = FALSE,
                          !.held = {r \in undone.rows : r.id \in IdsOf(@)}]
            lends == [blocks[1] EXCEPT !.begun = FALSE]
<1>1. Keep => /\ connection' = kept /\ reported' = reported
              /\ blocks' = IF b.ends = "lender" THEN <<lends>> ELSE Front(blocks)
  BY DEF Keep
<1>2. Undo => /\ connection' = undone
              /\ reported' = IF b.ends = "nothing" THEN reported ELSE b.before
              /\ blocks' = IF b.ends = "lender" THEN <<forgets>> ELSE Front(blocks)
  BY DEF Undo
<1>3. /\ connection.rows = reported /\ reported \in FiniteTables
      /\ connection = [rows |-> reported, saved |-> connection.saved]
      /\ connection.saved \in Seq(FiniteTables) /\ <<>> \in Seq(FiniteTables)
  BY DEF Inv, Typed, WhatIsReportedIsThere
<1>4. b \in BlockRecord /\ b.before \in FiniteTables /\ blocks[1] \in BlockRecord
  BY SomeOpen DEF BlockRecord
<1>5. b.ends = "nothing" => kept = connection /\ undone = connection
  OBVIOUS
<1>6. (b.ends # "nothing" /\ connection.saved = <<b.before>>) =>
        /\ undone = [rows |-> b.before, saved |-> <<>>]
        /\ kept = [rows |-> reported, saved |-> <<>>]
  BY <1>3, Kept DEF RolledBack, Committed, Ended
<1>7. lends \in BlockRecord /\ lends.kind = blocks[1].kind /\ lends.ends = blocks[1].ends
      /\ ~lends.begun
  BY <1>4 DEF BlockRecord
<1>8. undone.rows \in FiniteTables =>
        /\ forgets \in BlockRecord /\ forgets.kind = blocks[1].kind
        /\ forgets.ends = blocks[1].ends /\ ~forgets.begun
  <2>. DEFINE held == {r \in undone.rows : r.id \in IdsOf(blocks[1].held)}
  <2>1. undone.rows \in FiniteTables => held \in FiniteRows
    BY SomeRows
  <2>2. forgets = [blocks[1] EXCEPT !.begun = FALSE, !.held = held]
    OBVIOUS
  <2>. HIDE DEF held, undone, forgets
  <2>. QED
    BY <2>1, <2>2, <1>4 DEF BlockRecord
<1>. HIDE DEF undone, kept, lends, forgets
<1>9. CASE Top = 1
  <2>1. b.ends = "root" /\ connection.saved = <<b.before>>
    BY <1>9, Shapes DEF Inv, EndsFit
  <2>2. blocks' = Front(blocks)
    BY <2>1, <1>1, <1>2
  <2>3. EndsFit' /\ (\A table : SavedFor(blocks', table, <<>>)) /\ ~InTransaction'
    BY <2>2, <1>9, OneLess DEF EndsFit, SavedFor
  <2>. QED
    BY <2>1, <2>2, <2>3, <1>1, <1>2, <1>3, <1>4, <1>6, OneLess, EndsTo
<1>10. CASE Top = 2 /\ blocks[1].kind = "connect"
  <2>1. connection.saved = <<b.before>> /\ blocks[1].ends = "nothing"
        /\ b.ends = IF blocks[1].begun THEN "lender" ELSE "root"
    BY <1>10, Shapes DEF Inv, EndsFit
  <2>2. CASE b.ends = "lender"
    <3>1. /\ blocks' \in Seq(BlockRecord) /\ Top' <= MaxDepth /\ ~InTransaction'
          /\ EndsFit' /\ \A table : SavedFor(blocks', table, <<>>)
      <4>1. CASE blocks' = <<lends>>
        BY <4>1, <2>1, <1>7, <1>10, LenderIs
      <4>2. CASE blocks' = <<forgets>>
        <5>1. undone.rows \in FiniteTables
          BY <2>1, <2>2, <1>4, <1>6
        <5>. QED
          BY <4>2, <5>1, <2>1, <1>8, <1>10, LenderIs
      <4>. QED
        BY <4>1, <4>2, <2>2, <1>1, <1>2
    <3>. QED
      BY <3>1, <2>1, <2>2, <1>1, <1>2, <1>3, <1>4, <1>6, EndsTo
  <2>3. CASE b.ends = "root"
    <3>1. blocks' = Front(blocks) /\ ~blocks[1].begun
      BY <2>1, <2>3, <1>1, <1>2
    <3>2. EndsFit' /\ (\A table : SavedFor(blocks', table, <<>>)) /\ ~InTransaction'
      BY <3>1, <2>1, <1>10, OneLess DEF EndsFit, SavedFor
    <3>. QED
      BY <3>1, <3>2, <2>1, <2>3, <1>1, <1>2, <1>3, <1>4, <1>6, OneLess, EndsTo
  <2>. QED
    BY <2>1, <2>2, <2>3
<1>11. CASE Top = 2 /\ blocks[1].kind = "transaction"
  <2>1. /\ blocks[1].ends = "root" /\ ~blocks[1].begun /\ InTransaction
        /\ b.ends = "nothing" \/ b.ends = "savepoint"
        /\ connection.saved = IF b.ends = "savepoint" THEN <<blocks[1].before, b.before>>
                              ELSE <<blocks[1].before>>
    BY <1>11, Shapes DEF Inv, EndsFit
  <2>2. blocks' = Front(blocks)
    BY <2>1, <1>1, <1>2
  <2>3. EndsFit' /\ \A table : SavedFor(blocks', table, <<blocks[1].before>>)
    BY <2>1, <2>2, <1>11, OneLess DEF EndsFit, SavedFor
  <2>4. blocks[1].before \in FiniteTables
    BY <1>4 DEF BlockRecord
  <2>5. <<blocks[1].before>> \in Seq(FiniteTables)
    BY <2>4
  <2>6. Others(connection) = blocks[1].before
    BY <2>1 DEF Others
  <2>7. CASE b.ends = "nothing"
    <3>1. connection' = connection /\ reported' = reported
      BY <2>7, <1>1, <1>2, <1>5
    <3>. QED
      BY <3>1, <2>1, <2>2, <2>3, <2>7, <1>3, OneLess, EndsTo
  <2>8. CASE b.ends = "savepoint"
    <3>1. connection.saved = <<blocks[1].before, b.before>>
      BY <2>1, <2>8
    <3>2. \/ /\ reported' = reported
             /\ connection' = [rows |-> reported, saved |-> <<blocks[1].before>>]
          \/ /\ reported' = b.before
             /\ connection' = [rows |-> b.before, saved |-> <<blocks[1].before>>]
      BY <3>1, <2>8, <1>1, <1>2, <1>3, Kept DEF undone, kept, RolledBack, Ended
    <3>3. Others(connection') = blocks[1].before
      BY <3>2 DEF Others
    <3>. QED
      BY <3>2, <3>3, <2>2, <2>3, <2>5, <2>6, <1>3, <1>4, OneLess, EndsTo
  <2>. QED
    BY <2>1, <2>7, <2>8
<1>. QED
  BY <1>9, <1>10, <1>11, SomeOpen

\* The two ends, with a value returned or an exception.
LEMMA EndKeeps ==
    ASSUME Inv, NEW raised \in BOOLEAN, End(raised)
    PROVE  Inv' /\ StepIsWhole
<1>1. HasSession /\ Detaches /\ writes' = writes
      /\ (EndConnect \/ (blocks[Top].kind = "transaction" /\ (Keep \/ Undo)))
  BY DEF End
<1>2. detached' \in FiniteRows
  <2>1. Held \in FiniteRows /\ detached \in FiniteRows
    BY <1>1, SomeOpen DEF Held, BlockRecord, Inv, Typed
  <2>. QED
    BY <1>1, <2>1, FewRows DEF Detaches, FiniteRows
<1>. QED
  BY <1>1, <1>2, EndConnectKeeps, EndTransactionKeeps

------------------------------------------------------------------------------
(* The reads and the writes: each leaves rows of the model. *)

\* What the session of the innermost block holds, and what is read, are rows.
LEMMA RowsHeld ==
    ASSUME Inv, HasSession
    PROVE  /\ Held \in FiniteRows /\ connection.rows \in FiniteTables
           /\ connection.rows \in Seen /\ detached \in FiniteRows
  BY SomeOpen DEF Held, BlockRecord, Inv, Typed, Seen

\* The keys known are finitely many naturals.
LEMMA KnownIdsAre ==
    ASSUME Inv, HasSession
    PROVE  /\ KnownIds \in SUBSET Nat /\ IsFiniteSet(KnownIds)
           /\ IdsOf(connection.rows) \subseteq KnownIds
<1>. DEFINE helds == UNION {blocks[d].held : d \in 1 .. Top}
            rows == connection.rows \cup detached \cup helds
<1>1. helds \in SUBSET Row /\ IsFiniteSet(helds)
  <2>1. Top = 1 \/ Top = 2
    BY SomeOpen
  <2>2. \A d \in 1 .. Top : blocks[d].held \in SUBSET Row /\ IsFiniteSet(blocks[d].held)
    BY Shapes DEF BlockRecord, FiniteRows
  <2>3. helds \in SUBSET Row
    BY <2>2
  <2>4. CASE Top = 1
    <3>1. helds = blocks[1].held
      BY <2>4
    <3>. QED
      BY <3>1, <2>2, <2>3, <2>4
  <2>5. CASE Top = 2
    <3>1. helds = blocks[1].held \cup blocks[2].held
      BY <2>5
    <3>2. IsFiniteSet(blocks[1].held) /\ IsFiniteSet(blocks[2].held)
      BY <2>2, <2>5
    <3>3. IsFiniteSet(helds)
      BY <3>1, <3>2, FS_Union
    <3>. QED
      BY <3>3, <2>3
  <2>. QED
    BY <2>1, <2>4, <2>5
<1>2. connection.rows \in SUBSET Row /\ detached \in SUBSET Row
      /\ IsFiniteSet(connection.rows) /\ IsFiniteSet(detached)
  BY RowsHeld DEF FiniteTables, FiniteRows, Tables
<1>. HIDE DEF helds
<1>3. IsFiniteSet(connection.rows \cup detached)
  BY <1>2, FS_Union
<1>4. rows \in SUBSET Row /\ IsFiniteSet(rows)
  BY <1>1, <1>2, <1>3, FS_Union
<1>5. KnownIds = IdsOf(rows)
  BY DEF KnownIds, helds
<1>. HIDE DEF rows
<1>6. IsFiniteSet(IdsOf(rows))
  <2>. DEFINE f == [r \in rows |-> r.id]
  <2>1. IdsOf(rows) = {f[r] : r \in rows} /\ DOMAIN f = rows
    BY DEF IdsOf
  <2>. HIDE DEF f
  <2>. QED
    BY <2>1, <1>4, ImageIsFinite
<1>7. IdsOf(rows) \in SUBSET Nat
  BY <1>4, IdAssumption DEF IdsOf, Row
<1>8. IdsOf(connection.rows) \subseteq IdsOf(rows)
  BY DEF rows, IdsOf
<1>. QED
  BY <1>5, <1>6, <1>7, <1>8

\* New rows have keys no row has, while there are any.
LEMMA NewRowsAre ==
    ASSUME Inv, HasSession, NEW n \in Nat, NewIds(n) \subseteq Id, NEW v \in Value
    PROVE  /\ connection.rows \cup NewRows(n, v) \in FiniteTables
           /\ Held \cup NewRows(n, v) \in FiniteRows
<1>. DEFINE f == [id \in NewIds(n) |-> [id |-> id, value |-> v, marked |-> FALSE]]
            last == Max({0} \cup KnownIds)
<1>1. \A id \in Id : [id |-> id, value |-> v, marked |-> FALSE] \in Row
  BY DEF Row
<1>2. NewRows(n, v) = {f[id] : id \in NewIds(n)} /\ DOMAIN f = NewIds(n)
      /\ \A id \in NewIds(n) : f[id] \in Row /\ f[id].id = id
  BY <1>1 DEF NewRows
<1>3. IsFiniteSet(NewIds(n))
  <2>. DEFINE g == [i \in 1 .. n |-> last + i]
  <2>1. NewIds(n) = {g[i] : i \in 1 .. n} /\ DOMAIN g = 1 .. n
    BY DEF NewIds
  <2>2. IsFiniteSet(1 .. n)
    BY FS_Interval
  <2>. HIDE DEF g
  <2>. QED
    BY <2>1, <2>2, ImageIsFinite
<1>4. NewRows(n, v) \in SUBSET Row /\ IsFiniteSet(NewRows(n, v))
  <2>. HIDE DEF f
  <2>. QED
    BY <1>2, <1>3, ImageIsFinite
<1>5. connection.rows \in FiniteTables /\ Held \in FiniteRows
  BY RowsHeld
<1>6. last \in Nat /\ \A id \in IdsOf(connection.rows) : id \in Nat /\ id <= last
  <2>1. IdsOf(connection.rows) \subseteq KnownIds
    BY KnownIdsAre
  <2>2. KnownIds \in SUBSET Nat /\ IsFiniteSet(KnownIds)
    BY KnownIdsAre
  <2>3. {0} \cup KnownIds \in SUBSET Nat /\ IsFiniteSet({0} \cup KnownIds)
    BY <2>2, FS_AddElement
  <2>. QED
    BY <2>1, <2>3, MaxIsLast
<1>7. \A id \in NewIds(n) : id \notin IdsOf(connection.rows)
  <2>1. NewIds(n) = {last + i : i \in 1 .. n}
    BY DEF NewIds
  <2>. HIDE DEF last
  <2>2. \A id \in NewIds(n) : id > last
    BY <2>1, <1>6
  <2>. QED
    BY <2>2, <1>6
<1>8. connection.rows \cup NewRows(n, v) \in Tables
  <2>. HIDE DEF f
  <2>1. connection.rows \in Tables
    BY <1>5 DEF FiniteTables
  <2>2. \A r \in connection.rows : r.id \in IdsOf(connection.rows)
    BY DEF IdsOf
  <2>3. \A r \in NewRows(n, v) : r.id \in NewIds(n) /\ r = f[r.id]
    BY <1>2
  <2>. QED
    BY <2>1, <2>2, <2>3, <1>4, <1>7 DEF Tables
<1>. QED
  BY <1>4, <1>5, <1>8, FS_Union DEF FiniteTables, FiniteRows

\* create() adds one row.
LEMMA SaveNewKeeps == ASSUME Inv, NEW v \in Value, SaveNew(v) PROVE Inv' /\ StepIsWhole
<1>. DEFINE change == [rows \in Seen |-> rows \cup NewRows(1, v)]
<1>1. HasSession /\ NewIds(1) \subseteq Id /\ Writes(change, Held \cup NewRows(1, v))
  BY DEF SaveNew
<1>2. Held \cup NewRows(1, v) \in FiniteRows /\ change[connection.rows] \in FiniteTables
  BY <1>1, RowsHeld, NewRowsAre
<1>. HIDE DEF change
<1>. QED
  BY <1>1, <1>2, WritesKeep

\* create_many() adds rows.
LEMMA CreateManyKeeps ==
    ASSUME Inv, NEW n \in Nat, NEW v \in Value, CreateMany(n, v) PROVE Inv' /\ StepIsWhole
<1>. DEFINE change == [rows \in Seen |-> rows \cup NewRows(n, v)]
<1>1. HasSession /\ NewIds(n) \subseteq Id /\ Writes(change, Held)
  BY DEF CreateMany
<1>2. Held \in FiniteRows /\ change[connection.rows] \in FiniteTables
  BY <1>1, RowsHeld, NewRowsAre
<1>. HIDE DEF change
<1>. QED
  BY <1>1, <1>2, WritesKeep

\* save() replaces one row.
LEMMA SaveKeeps ==
    ASSUME Inv, NEW r \in Row, NEW v \in Value, Save(r, v) PROVE Inv' /\ StepIsWhole
<1>. DEFINE change == [rows \in Seen |-> Revalued(rows, {r.id}, v)]
<1>1. HasSession /\ Writes(change, With(Held, [r EXCEPT !.value = v]))
  BY DEF Save, Saved
<1>2. [r EXCEPT !.value = v] \in Row
  BY DEF Row
<1>3. With(Held, [r EXCEPT !.value = v]) \in FiniteRows /\ change[connection.rows] \in FiniteTables
  BY <1>1, <1>2, RowsHeld, Changed
<1>. HIDE DEF change
<1>. QED
  BY <1>1, <1>3, WritesKeep

\* delete() removes a row, or marks it.
LEMMA DeleteKeeps ==
    ASSUME Inv, NEW r \in Row, NEW force \in BOOLEAN, Delete(r, force)
    PROVE  Inv' /\ StepIsWhole
<1>. DEFINE removes == [rows \in Seen |-> Without(rows, {r.id})]
            marks == [rows \in Seen |-> Remarked(rows, {r.id}, TRUE)]
<1>1. HasSession /\ \/ Writes(removes, Held \ {r})
                    \/ Writes(marks, With(Held, [r EXCEPT !.marked = TRUE]))
  BY DEF Delete, Saved
<1>2. [r EXCEPT !.marked = TRUE] \in Row
  BY DEF Row
<1>3. /\ With(Held, [r EXCEPT !.marked = TRUE]) \in FiniteRows /\ Held \ {r} \in FiniteRows
      /\ removes[connection.rows] \in FiniteTables /\ marks[connection.rows] \in FiniteTables
  BY <1>1, <1>2, RowsHeld, Changed
<1>. HIDE DEF removes, marks
<1>. QED
  BY <1>1, <1>3, WritesKeep

\* restore() takes the mark off.
LEMMA RestoreKeeps == ASSUME Inv, NEW r \in Row, Restore(r) PROVE Inv' /\ StepIsWhole
<1>. DEFINE change == [rows \in Seen |->
                        IF r.marked THEN Remarked(rows, {r.id}, FALSE) ELSE rows]
<1>1. HasSession /\ Writes(change, With(Held, [r EXCEPT !.marked = FALSE]))
  BY DEF Restore, Saved
<1>2. [r EXCEPT !.marked = FALSE] \in Row
  BY DEF Row
<1>3. /\ With(Held, [r EXCEPT !.marked = FALSE]) \in FiniteRows
      /\ change[connection.rows] \in FiniteTables
  BY <1>1, <1>2, RowsHeld, Changed
<1>. HIDE DEF change
<1>. QED
  BY <1>1, <1>3, WritesKeep

\* merge() and save() put back an instance no session holds.
LEMMA MergeAndSaveKeeps ==
    ASSUME Inv, NEW r \in Row, MergeAndSave(r) PROVE Inv' /\ StepIsWhole
<1>. DEFINE Valued(rows, s) ==
                IF r.value = s.value THEN rows ELSE Revalued(rows, {r.id}, r.value)
            Copied(rows, s) == IF r.marked = s.marked THEN Valued(rows, s)
                               ELSE Remarked(Valued(rows, s), {r.id}, r.marked)
            adds == [rows \in Seen |-> With(rows, r)]
            copies(s) == [rows \in Seen |-> Copied(rows, s)]
<1>1. HasSession /\ \/ Writes(adds, With(Held, r))
                    \/ \E s : Writes(copies(s), With(Held, r))
  BY DEF MergeAndSave
<1>2. r.value \in Value /\ r.marked \in BOOLEAN
  BY DEF Row
<1>3. With(Held, r) \in FiniteRows /\ adds[connection.rows] \in FiniteTables
  BY <1>1, RowsHeld, Changed
<1>4. ASSUME NEW s PROVE copies(s)[connection.rows] \in FiniteTables
  <2>1. Valued(connection.rows, s) \in FiniteTables
    BY <1>1, <1>2, RowsHeld, Changed
  <2>2. Copied(connection.rows, s) \in FiniteTables
    BY <2>1, <1>2, Changed
  <2>. QED
    BY <2>2, <1>1, RowsHeld
<1>. HIDE DEF adds, copies
<1>. QED
  BY <1>1, <1>3, <1>4, WritesKeep

\* refresh() reads a row.
LEMMA RefreshKeeps == ASSUME Inv, NEW r \in Row, Refresh(r) PROVE Inv' /\ StepIsWhole
<1>1. PICK s \in connection.rows : Reads(With(Held, s))
  BY DEF Refresh
<1>2. HasSession
  BY DEF Refresh, Saved
<1>3. With(Held, s) \in FiniteRows
  <2>1. s \in Row
    BY <1>2, RowsHeld DEF FiniteTables, Tables
  <2>. QED
    BY <2>1, <1>2, RowsHeld, Changed
<1>. QED
  BY <1>1, <1>2, <1>3, ReadsKeep

\* get() finds rows of the table.
LEMMA GetReads ==
    ASSUME NEW q, NEW id, NEW table \in FiniteTables
    PROVE  Get(q, id, table) \in FiniteRows
<1>1. Get(q, id, table) \in SUBSET table
  BY DEF Get, Selected
<1>. QED
  BY <1>1, SomeRows

\* get() reads a row by key.
LEMMA GetByKeeps ==
    ASSUME Inv, NEW q, NEW id, NEW options \in BOOLEAN, GetBy(q, id, options)
    PROVE  Inv' /\ StepIsWhole
<1>. DEFINE found == Get(q, id, connection.rows)
            known == {r \in Held : r.id = id}
            held == IF options THEN Without(Held, IdsOf(found)) \cup found
                    ELSE Held \cup {r \in found : known = {}}
<1>1. HasSession /\ Reads(held)
  BY DEF GetBy
<1>2. found \in FiniteRows
  BY <1>1, RowsHeld, GetReads
<1>3. held \in FiniteRows
  <2>1. Without(Held, IdsOf(found)) \in FiniteRows /\ Held \in FiniteRows
    BY <1>1, RowsHeld, Changed
  <2>2. {r \in found : known = {}} \in FiniteRows
    BY <1>2, SomeRows
  <2>. QED
    BY <1>2, <2>1, <2>2, BothRows
<1>. HIDE DEF held
<1>. QED
  BY <1>1, <1>3, ReadsKeep

\* update() of a query replaces the rows it finds.
LEMMA BulkUpdateKeeps ==
    ASSUME Inv, NEW q, NEW v \in Value, BulkUpdate(q, v) PROVE Inv' /\ StepIsWhole
<1>. DEFINE change == [rows \in Seen |-> Revalued(rows, IdsOf(Touched(q, rows)), v)]
            held == Revalued(Held, IdsOf(Touched(q, Held)), v)
<1>1. HasSession /\ Writes(change, held)
  BY DEF BulkUpdate
<1>2. held \in FiniteRows /\ change[connection.rows] \in FiniteTables
  BY <1>1, RowsHeld, Changed
<1>. HIDE DEF change, held
<1>. QED
  BY <1>1, <1>2, WritesKeep

\* delete() of a query removes them, or marks them.
LEMMA BulkDeleteKeeps ==
    ASSUME Inv, NEW q, NEW force \in BOOLEAN, BulkDelete(q, force)
    PROVE  Inv' /\ StepIsWhole
<1>. DEFINE Removed(rows) == rows \ Touched(q, rows)
            Hidden(rows) == Remarked(rows, IdsOf(Touched(q, rows)), TRUE)
            removes == [rows \in Seen |-> Removed(rows)]
            hides == [rows \in Seen |-> Hidden(rows)]
<1>1. HasSession /\ (Writes(removes, Removed(Held)) \/ Writes(hides, Hidden(Held)))
  BY DEF BulkDelete
<1>2. /\ Removed(Held) \in FiniteRows /\ Hidden(Held) \in FiniteRows
      /\ removes[connection.rows] \in FiniteTables /\ hides[connection.rows] \in FiniteTables
  <2>1. Removed(Held) \in SUBSET Held /\ Removed(connection.rows) \in SUBSET connection.rows
    OBVIOUS
  <2>2. /\ Removed(Held) \in FiniteRows /\ Removed(connection.rows) \in FiniteTables
        /\ Hidden(Held) \in FiniteRows /\ Hidden(connection.rows) \in FiniteTables
    BY <1>1, <2>1, RowsHeld, Changed
  <2>. HIDE DEF Removed, Hidden
  <2>. QED
    BY <1>1, <2>2, RowsHeld
<1>. HIDE DEF removes, hides, Removed, Hidden
<1>. QED
  BY <1>1, <1>2, WritesKeep

------------------------------------------------------------------------------
(* Every step. *)

\* Every action keeps the invariant, and others see it as a whole.
LEMMA NextKeeps == Inv /\ Next => Inv' /\ StepIsWhole
  BY ConnectKeeps, TransactionKeeps, EndKeeps, SaveNewKeeps, CreateManyKeeps, SaveKeeps,
     DeleteKeeps, RestoreKeeps, MergeAndSaveKeeps, RefreshKeeps, GetByKeeps, BulkUpdateKeeps,
     BulkDeleteKeeps
  DEF Next

\* A step that changes nothing does too.
LEMMA StutterKeeps == Inv /\ UNCHANGED vars => Inv' /\ StepIsWhole
  BY DEF vars, Inv, Typed, EndsFit, WhatIsReportedIsThere, StepIsWhole, Top

\* Whatever blocks a write runs in, and whichever of them an exception leaves, the rows
\* are those the writes that returned have reported (_persist, the ends of the blocks).
THEOREM ReportedIsThere == Spec => []WhatIsReportedIsThere
<1>1. Inv /\ [Next]_vars => Inv'
  BY NextKeeps, StutterKeeps
<1>2. Inv => WhatIsReportedIsThere
  BY DEF Inv
<1>. QED
  BY <1>1, <1>2, InitInv, PTL DEF Spec

\* Whoever else reads the database sees nothing of a transaction that is open, and a
\* write outside of one as soon as it has returned (_persist).
THEOREM OthersSeeThemWhole == Spec => OthersSeeTransactionsWhole
<1>1. Inv /\ [Next]_vars => Inv'
  BY NextKeeps, StutterKeeps
<1>2. Inv /\ [Next]_vars =>
        [/\ InTransaction /\ InTransaction' => Others(connection') = Others(connection)
         /\ writes' # writes /\ ~InTransaction => Others(connection') = reported']_vars
  BY NextKeeps DEF StepIsWhole
<1>. QED
  BY <1>1, <1>2, InitInv, PTL DEF Spec, OthersSeeTransactionsWhole

------------------------------------------------------------------------------
(* What builders make of a query, and what a bulk write of it touches.      *)

\* A clause of an ordering, and a query: a record of the select and of the switches
\* beside it.
Clauses == [column : {Key, Text, Foreign}, folded : BOOLEAN, descending : BOOLEAN, nulls : Placed]

Shaped(q) ==
    /\ q.order \in Seq(Clauses)
    /\ q.limit \in Limits \cup {None} /\ q.offset \in Limits \cup {None}
    /\ q = [where |-> q.where, having |-> q.having, joined |-> q.joined, order |-> q.order,
            limit |-> q.limit, offset |-> q.offset, raw |-> q.raw, filtered |-> q.filtered,
            deleted |-> q.deleted]

\* A name that is known is that of one field.
LEMMA KnownIsOffered ==
    ASSUME NEW asked, Known(asked) PROVE FieldNamed(asked) \in DOMAIN Offered
<1>1. FieldsNamed(asked) \subseteq DOMAIN Offered
  BY DEF FieldsNamed
<1>2. FieldsNamed(asked) # {}
  BY FS_EmptySet DEF Known
<1>. QED
  BY <1>1, <1>2 DEF FieldNamed

\* An ordering that is not refused appends clauses of columns that are offered.
LEMMA OrderedIs ==
    ASSUME NEW q, NEW sort \in Sorts,
           NEW s \in Ordered(q, sort.criteria, sort.ignore_case, sort.nulls)
    PROVE  \/ s \in WithSelect(q, q)
           \/ \E x \in Seq(Clauses) : \E y : s \in WithSelect(q, [q EXCEPT !.order = q.order \o x, !.joined = y])
<1>. DEFINE criteria == sort.criteria
            ignored == {FieldNamed(one) : one \in sort.ignore_case}
            clauses == [i \in DOMAIN criteria |-> Clause(criteria[i], ignored, sort.nulls)]
            joins == JoinsFor(criteria)
            joined == IF q.joined # "" \/ DOMAIN joins = {} THEN q.joined ELSE FirstJoin(joins).join
<1>1. criteria \in Seq([asked : STRING, descending : BOOLEAN, nulls : Placed])
  BY SortsAssumption
<1>2. CASE criteria = <<>>
  BY <1>2 DEF Ordered
<1>3. CASE criteria # <<>>
  <2>1. /\ sort.nulls \in Placed /\ \A one \in {c.asked : c \in ToSet(criteria)} : Known(one)
        /\ s \in WithSelect(q, [q EXCEPT !.order = q.order \o clauses, !.joined = joined])
    BY <1>3 DEF Ordered
  <2>2. \A i \in DOMAIN criteria : Clause(criteria[i], ignored, sort.nulls) \in Clauses
    <3>. SUFFICES ASSUME NEW i \in DOMAIN criteria
                  PROVE  Clause(criteria[i], ignored, sort.nulls) \in Clauses
      OBVIOUS
    <3>1. criteria[i] \in [asked : STRING, descending : BOOLEAN, nulls : Placed]
      <4>. HIDE DEF criteria
      <4>1. ASSUME NEW S, criteria \in Seq(S) PROVE criteria[i] \in S
        BY <4>1
      <4>. QED
        BY <4>1, <1>1
    <3>2. Known(criteria[i].asked)
      BY <2>1 DEF ToSet
    <3>3. FieldNamed(criteria[i].asked) \in DOMAIN Offered
      BY <3>2, KnownIsOffered
    <3>4. Offered[FieldNamed(criteria[i].asked)].column \in {Key, Text, Foreign}
      BY <3>3, OfferedAssumption
    <3>. QED
      BY <3>1, <3>4, <2>1 DEF Clause, Clauses
  <2>. HIDE DEF ignored
  <2>3. clauses \in Seq(Clauses)
    BY <2>2, <1>1
  <2>. QED
    BY <2>1, <2>3
<1>. QED
  BY <1>2, <1>3

\* A builder gives back a query that is one.
LEMMA BuiltIsShaped ==
    ASSUME NEW q, Shaped(q), NEW p \in Built(q)
    PROVE  Shaped(p)
<1>1. \A x : /\ Shaped([q EXCEPT !.where = x]) /\ Shaped([q EXCEPT !.having = x])
             /\ Shaped([q EXCEPT !.joined = x]) /\ Shaped([q EXCEPT !.raw = x])
             /\ Shaped([q EXCEPT !.filtered = x]) /\ Shaped([q EXCEPT !.deleted = x])
  BY DEF Shaped
<1>l. \A n \in Limits : Shaped([q EXCEPT !.limit = n]) /\ Shaped([q EXCEPT !.offset = n])
  BY DEF Shaped
<1>2. ASSUME NEW x \in Seq(Clauses), NEW y PROVE Shaped([q EXCEPT !.order = x, !.joined = y])
  <2>. DEFINE r == [q EXCEPT !.order = x]
  <2>1. Shaped(r)
    BY DEF Shaped
  <2>2. Shaped([r EXCEPT !.joined = y])
    <3>. HIDE DEF r
    <3>. QED
      BY <2>1 DEF Shaped
  <2>. QED
    BY <2>2
<1>3. \A select : Shaped(select) => \A s \in WithSelect(q, select) : Shaped(s)
  BY DEF WithSelect
<1>4. /\ \A s \in Unfiltered(q) : Shaped(s)
      /\ \A s \in WithDeleted(q) : Shaped(s)
      /\ \A s \in OnlyDeleted(q) : Shaped(s)
      /\ \A s \in FromStatement(q) : Shaped(s)
  BY <1>1 DEF Unfiltered, WithDeleted, OnlyDeleted, FromStatement
<1>5. /\ \A s \in Options(q) : Shaped(s)
      /\ \A s \in WithForUpdate(q) : Shaped(s)
  BY <1>3 DEF Options, WithForUpdate
<1>6. \A c : /\ \A s \in Where(q, c) : Shaped(s)
             /\ \A s \in GroupByAndHaving(q, c) : Shaped(s)
  BY <1>1, <1>3 DEF Where, GroupByAndHaving
<1>7. \A v : \A s \in FilterBy(q, v) : Shaped(s)
  BY <1>6 DEF FilterBy
<1>8. \A n \in Limits : /\ \A s \in Limit(q, n) : Shaped(s)
                        /\ \A s \in Offset(q, n) : Shaped(s)
  BY <1>l, <1>3 DEF Limit, Offset
<1>9. \A sort \in Sorts : \A s \in OrderBy(q, sort) : Shaped(s)
  <2>. SUFFICES ASSUME NEW sort \in Sorts, NEW s \in OrderBy(q, sort) PROVE Shaped(s)
    OBVIOUS
  <2>1. \/ s \in WithSelect(q, q)
        \/ \E x \in Seq(Clauses) : \E y : s \in WithSelect(q, [q EXCEPT !.order = q.order \o x, !.joined = y])
    BY OrderedIs DEF OrderBy
  <2>2. \A x \in Seq(Clauses) : q.order \o x \in Seq(Clauses)
    BY DEF Shaped
  <2>. QED
    BY <2>1, <2>2, <1>2, <1>3
<1>10. \A isouter : \A s \in Join(q, isouter) : Shaped(s)
  BY <1>1, <1>3 DEF Join
<1>11. \/ p \in UNION {Unfiltered(q), WithDeleted(q), OnlyDeleted(q), FromStatement(q),
                       Options(q), WithForUpdate(q)}
       \/ p \in UNION {Where(q, c) \cup GroupByAndHaving(q, c) : c \in Criteria}
       \/ p \in UNION {FilterBy(q, v) : v \in Value}
       \/ p \in UNION {Limit(q, n) \cup Offset(q, n) : n \in Limits}
       \/ p \in UNION {OrderBy(q, sort) : sort \in Sorts}
       \/ p \in Join(q, TRUE) \cup Join(q, FALSE)
  BY DEF Built
<1>. QED
  BY <1>4, <1>5, <1>6, <1>7, <1>8, <1>9, <1>10, <1>11

\* BuiltBy is what its definition says: such a function exists, as a shortest number of
\* calls for which there is none cannot be.
LEMMA BuiltByIs ==
    BuiltBy = [calls \in 0 .. MaxCalls |->
                 IF calls = 0 THEN {NewQuery}
                 ELSE BuiltBy[calls - 1] \cup UNION {Built(q) : q \in BuiltBy[calls - 1]}]
<1>. DEFINE After(qs) == qs \cup UNION {Built(q) : q \in qs}
            Is(f, n) == f = [calls \in 0 .. n |-> IF calls = 0 THEN {NewQuery}
                                                  ELSE After(f[calls - 1])]
            T == {n \in 0 .. MaxCalls : \A f : ~Is(f, n)}
<1>1. MaxCalls \in Nat
  BY LimitsAssumption
<1>2. \A n \in T : n \in 0 .. MaxCalls /\ \A f : ~Is(f, n)
  OBVIOUS
<1>3. \A n \in 0 .. MaxCalls : n \notin T => \E f : Is(f, n)
  OBVIOUS
<1>4. T \in SUBSET Nat
  BY <1>1
<1>. HIDE DEF T
<1>5. T = {}
  <2>1. SUFFICES ASSUME T # {} PROVE FALSE
    OBVIOUS
  <2>2. PICK n \in T : \A m \in T : n <= m
    BY <2>1, <1>4, Least
  <2>3. n \in Nat /\ n \in 0 .. MaxCalls /\ \A f : ~Is(f, n)
    BY <2>2, <1>2, <1>4
  <2>4. n # 0
    <3>. DEFINE f == [calls \in 0 .. 0 |-> {NewQuery}]
    <3>1. Is(f, 0)
      OBVIOUS
    <3>. QED
      BY <3>1, <2>3
  <2>5. n - 1 \in 0 .. MaxCalls /\ n - 1 \notin T
    <3>1. n - 1 \in 0 .. MaxCalls /\ ~(n <= n - 1)
      BY <2>3, <2>4, <1>1
    <3>. QED
      BY <3>1, <2>2
  <2>6. PICK f : Is(f, n - 1)
    BY <2>5, <1>3
  <2>. DEFINE g == [calls \in 0 .. n |-> IF calls = n THEN After(f[n - 1]) ELSE f[calls]]
  <2>. HIDE DEF After
  <2>7. \A calls \in 0 .. n - 1 :
            f[calls] = IF calls = 0 THEN {NewQuery} ELSE After(f[calls - 1])
    BY <2>6
  <2>8. \A calls \in 0 .. n :
            g[calls] = IF calls = 0 THEN {NewQuery} ELSE After(g[calls - 1])
    <3>. SUFFICES ASSUME NEW calls \in 0 .. n
                  PROVE  g[calls] = IF calls = 0 THEN {NewQuery} ELSE After(g[calls - 1])
      OBVIOUS
    <3>1. CASE calls = n
      <4>1. g[calls] = After(f[n - 1]) /\ g[calls - 1] = f[n - 1] /\ calls # 0
        BY <3>1, <2>3, <2>4
      <4>. QED
        BY <4>1
    <3>2. CASE calls # n
      <4>1. calls \in 0 .. n - 1 /\ g[calls] = f[calls]
        BY <3>2, <2>3
      <4>2. calls # 0 => g[calls - 1] = f[calls - 1]
        BY <4>1, <2>3
      <4>. QED
        BY <4>1, <4>2, <2>7
    <3>. QED
      BY <3>1, <3>2
  <2>9. Is(g, n)
    BY <2>8
  <2>. QED
    BY <2>9, <2>3
<1>6. \E f : Is(f, MaxCalls)
  <2>1. MaxCalls \in 0 .. MaxCalls
    BY <1>1
  <2>. QED
    BY <2>1, <1>3, <1>5
<1>7. Is(BuiltBy, MaxCalls)
  BY <1>6 DEF BuiltBy
<1>. QED
  BY <1>7

\* Every query callers build is one.
LEMMA QueriesAreShaped == \A q \in Queries : Shaped(q)
<1>. DEFINE T == {n \in 0 .. MaxCalls : ~\A q \in BuiltBy[n] : Shaped(q)}
<1>1. MaxCalls \in Nat
  BY LimitsAssumption
<1>2. T = {}
  <2>1. SUFFICES ASSUME T # {} PROVE FALSE
    OBVIOUS
  <2>2. PICK n \in T : \A m \in T : n <= m
    <3>1. T \in SUBSET Nat
      BY <1>1
    <3>. HIDE DEF T
    <3>. QED
      BY <2>1, <3>1, Least
  <2>3. n \in Nat /\ n \in 0 .. MaxCalls
    BY <2>2, <1>1
  <2>4. BuiltBy[n] = IF n = 0 THEN {NewQuery}
                     ELSE BuiltBy[n - 1] \cup UNION {Built(q) : q \in BuiltBy[n - 1]}
    BY <2>3, BuiltByIs
  <2>5. CASE n = 0
    <3>1. Shaped(NewQuery)
      BY DEF NewQuery, Shaped
    <3>. QED
      BY <3>1, <2>2, <2>4, <2>5
  <2>6. CASE n # 0
    <3>1. n - 1 \in 0 .. MaxCalls /\ ~(n <= n - 1)
      BY <2>3, <2>6, <1>1
    <3>2. \A q \in BuiltBy[n - 1] : Shaped(q)
      BY <3>1, <2>2
    <3>. QED
      BY <3>2, <2>2, <2>4, <2>6, BuiltIsShaped
  <2>. QED
    BY <2>5, <2>6
<1>3. MaxCalls \in 0 .. MaxCalls
  BY <1>1
<1>. QED
  BY <1>2, <1>3 DEF Queries

\* A sequence of a finite set, each member once, holds them all.
LEMMA SeqOfAll ==
    ASSUME NEW S, IsFiniteSet(S), NEW s \in SetToSeqs(S)
    PROVE  /\ s \in Seq(S) /\ Len(s) = Cardinality(S) /\ ToSet(s) = S
           /\ \A i, j \in 1 .. Len(s) : i # j => s[i] # s[j]
<1>. DEFINE n == Cardinality(S)
<1>1. n \in Nat /\ IsFiniteSet(1 .. n) /\ Cardinality(1 .. n) = n
  <2>1. n \in Nat
    BY FS_CardinalityType
  <2>2. IsFiniteSet(1 .. n) /\ Cardinality(1 .. n) = IF 1 > n THEN 0 ELSE n - 1 + 1
    BY <2>1, FS_Interval
  <2>. QED
    BY <2>1, <2>2
<1>2. s \in [1 .. n -> S] /\ \A i, j \in 1 .. n : i # j => s[i] # s[j]
  BY DEF SetToSeqs
<1>. HIDE DEF n
<1>3. s \in Injection(1 .. n, S)
  BY <1>2 DEF Injection, IsInjective
<1>4. s \in Surjection(1 .. n, S)
  BY <1>1, <1>3, FS_Injection DEF n
<1>5. s \in Seq(S) /\ Len(s) = n
  BY <1>1, <1>2
<1>6. DOMAIN s = 1 .. n
  BY <1>2
<1>7. ToSet(s) = S
  BY <1>2, <1>4, <1>6 DEF Surjection, ToSet
<1>. QED
  BY <1>2, <1>5, <1>7 DEF n

\* A bulk write that is not refused touches the rows the query reads: there is nothing
\* that orders or cuts them, joins or reads them otherwise.
LEMMA TouchesWhatItReads ==
    ASSUME NEW q, Shaped(q), q.having = {}, NEW table, IsFiniteSet(table)
    PROVE  WritesWhatItReads(q, table)
<1>. SUFFICES ASSUME ~BulkRefused(q), NEW s \in All(q, table)
              PROVE  ToSet(s) = Touched(q, table)
  BY DEF WritesWhatItReads
<1>1. ~q.raw /\ q.limit = None /\ q.offset = None /\ q.joined = ""
  BY DEF BulkRefused, RejectsStatement, Carries
<1>. DEFINE select == Filtered(q)
<1>2. PICK where : select = [q EXCEPT !.where = where]
  BY DEF Filtered
<1>3. /\ select.where = where /\ select.having = {} /\ select.joined = ""
      /\ select.limit = None /\ select.offset = None
  BY <1>1, <1>2 DEF Shaped
<1>4. PICK all \in Sortings(select.order, Selected(select, table)) : s = Cut(select, all)
  BY <1>1 DEF All, Answers
<1>. HIDE DEF select
<1>5. Selected(select, table) = Touched(q, table)
  BY <1>3 DEF Selected, Touched, BulkCriteria, Admits, select
<1>6. Touched(q, table) \in SUBSET table
  BY DEF Touched
<1>7. IsFiniteSet(Touched(q, table))
  BY <1>6, FS_Subset
<1>8. all \in Seq(Touched(q, table)) /\ ToSet(all) = Touched(q, table)
  BY <1>4, <1>5, <1>7, SeqOfAll DEF Sortings
<1>9. s = all
  <2>1. s = SubSeq(all, 1, Len(all))
    <3>1. Cut(select, all) = SubSeq(all, 0 + 1, Len(all))
      BY <1>3 DEF Cut
    <3>2. 0 + 1 = 1
      OBVIOUS
    <3>. QED
      BY <3>1, <3>2, <1>4
  <2>. QED
    BY <2>1, <1>8, SubSeqProperties, SeqEqual
<1>. QED
  BY <1>8, <1>9

\* A bulk write touches the rows its query reads, no more and no fewer, or is refused:
\* of every query without having(), on every table the writes make (_bulk_criteria).
THEOREM BulkTouchesWhatItReads == Spec => []BulkWritesWhatItReads
<1>1. Inv /\ [Next]_vars => Inv'
  BY NextKeeps, StutterKeeps
<1>2. Inv => BulkWritesWhatItReads
  <2>. SUFFICES ASSUME Inv PROVE BulkWritesWhatItReads
    OBVIOUS
  <2>1. connection.rows \in Tables /\ IsFiniteSet(connection.rows)
    BY DEF Inv, Typed, FiniteTables
  <2>2. \A q \in Queries : q.having = {} => WritesWhatItReads(q, connection.rows)
    BY <2>1, QueriesAreShaped, TouchesWhatItReads
  <2>. QED
    BY <2>1, <2>2 DEF BulkWritesWhatItReads, TableWrites
<1>. QED
  BY <1>1, <1>2, InitInv, PTL DEF Spec

-----------------------------------------------------------------------------
\* Pages: an ordering that names the key orders any two rows, so a table has one way to be
\* sorted by it at most, and the pages are slices of that one (first, paginate).

\* The Min of the community modules, of two.
LEMMA MinOfTwo ==
    ASSUME NEW a \in Int, NEW b \in Int
    PROVE  Min({a, b}) = IF a <= b THEN a ELSE b
<1>1. \E x \in {a, b} : \A y \in {a, b} : x <= y
  OBVIOUS
<1>2. Min({a, b}) \in {a, b} /\ \A y \in {a, b} : Min({a, b}) <= y
  BY <1>1 DEF Min
<1>. QED
  BY <1>2

\* What a clause compares is a number, and the key where it is of the key.
LEMMA CellIs ==
    ASSUME NEW clause \in Clauses, NEW r \in Row
    PROVE  Cell(clause, r) \in Nat /\ (clause.column = Key => Cell(clause, r) = r.id)
<1>1. clause.column = Key \/ clause.column = Text \/ clause.column = Foreign
  BY DEF Clauses
<1>2. r.id \in Nat /\ r.value \in Nat /\ Lower(r.value) \in Nat /\ TeamOf[r.id] \in Nat
  BY IdAssumption, CellAssumption DEF Row
<1>3. Key # Text /\ Key # Foreign /\ Text # Foreign
  BY DEF Key, Text, Foreign
<1>4. CASE clause.column = Key
  BY <1>2, <1>3, <1>4 DEF Cell
<1>5. CASE clause.column = Text
  <2>1. Cell(clause, r) = Lowered(clause, r.value)
    BY <1>3, <1>5 DEF Cell
  <2>. QED
    BY <2>1, <1>2, <1>3, <1>5 DEF Lowered
<1>6. CASE clause.column = Foreign
  <2>1. Cell(clause, r) = TeamOf[r.id]
    BY <1>3, <1>6 DEF Cell
  <2>. QED
    BY <2>1, <1>2, <1>3, <1>6
<1>. QED
  BY <1>1, <1>4, <1>5, <1>6

\* What a clause says of two rows, NULLs in their place.
LEMMA PrecedesIs ==
    ASSUME NEW clause, NEW r, NEW s
    PROVE  Precedes(clause, r, s) <=>
             IF Cell(clause, r) = 0 /\ Cell(clause, s) # 0
             THEN clause.nulls = "first" \/ (clause.nulls = "" /\ ~clause.descending)
             ELSE IF Cell(clause, r) # 0 /\ Cell(clause, s) = 0
             THEN clause.nulls = "last" \/ (clause.nulls = "" /\ clause.descending)
             ELSE IF clause.descending THEN Cell(clause, r) > Cell(clause, s)
             ELSE Cell(clause, r) < Cell(clause, s)
  BY DEF Precedes

\* A clause puts one of two rows it tells apart before the other.
LEMMA PrecedesIsTotal ==
    ASSUME NEW clause \in Clauses, NEW r \in Row, NEW s \in Row,
           Cell(clause, r) # Cell(clause, s)
    PROVE  Precedes(clause, r, s) \/ Precedes(clause, s, r)
<1>1. PICK a \in Nat, b \in Nat : a = Cell(clause, r) /\ b = Cell(clause, s)
  BY CellIs
<1>2. clause.descending \in BOOLEAN
      /\ (clause.nulls = "" \/ clause.nulls = "first" \/ clause.nulls = "last")
  BY DEF Clauses, Placed
<1>3. a < b \/ b < a
  BY <1>1
<1>4. /\ Precedes(clause, r, s) <=>
           IF a = 0 /\ b # 0 THEN clause.nulls = "first" \/ (clause.nulls = "" /\ ~clause.descending)
           ELSE IF a # 0 /\ b = 0 THEN clause.nulls = "last" \/ (clause.nulls = "" /\ clause.descending)
           ELSE IF clause.descending THEN a > b ELSE a < b
      /\ Precedes(clause, s, r) <=>
           IF b = 0 /\ a # 0 THEN clause.nulls = "first" \/ (clause.nulls = "" /\ ~clause.descending)
           ELSE IF b # 0 /\ a = 0 THEN clause.nulls = "last" \/ (clause.nulls = "" /\ clause.descending)
           ELSE IF clause.descending THEN b > a ELSE b < a
  BY <1>1, PrecedesIs
<1>. QED
  BY <1>2, <1>3, <1>4

\* An ordering with the key in it puts one of two rows before the other.
LEMMA BeforeIsTotal ==
    ASSUME NEW order \in Seq(Clauses), NEW k \in DOMAIN order, order[k].column = Key,
           NEW r \in Row, NEW s \in Row, r.id # s.id
    PROVE  Before(order, r, s) \/ Before(order, s, r)
<1>. DEFINE T == {i \in 1 .. Len(order) : Cell(order[i], r) # Cell(order[i], s)}
<1>1. DOMAIN order = 1 .. Len(order) /\ Len(order) \in Nat
      /\ \A i \in 1 .. Len(order) : order[i] \in Clauses
  OBVIOUS
<1>2. k \in T
  BY <1>1, CellIs
<1>3. PICK i \in T : \A j \in T : i <= j
  <2>1. T \in SUBSET Nat /\ T # {}
    BY <1>1, <1>2
  <2>. HIDE DEF T
  <2>. QED
    BY <2>1, Least
<1>4. \A j \in 1 .. i - 1 : Cell(order[j], r) = Cell(order[j], s)
  BY <1>1, <1>3
<1>5. Precedes(order[i], r, s) \/ Precedes(order[i], s, r)
  BY <1>1, <1>3, PrecedesIsTotal
<1>. QED
  BY <1>1, <1>3, <1>4, <1>5 DEF Before

\* There is one way at most to sort rows by such an ordering.
LEMMA SortingIsUnique ==
    ASSUME NEW order \in Seq(Clauses), NEW k \in DOMAIN order, order[k].column = Key,
           NEW rows \in FiniteTables,
           NEW s \in Sortings(order, rows), NEW t \in Sortings(order, rows)
    PROVE  s = t
<1>. DEFINE n == Cardinality(rows)
            T == {i \in 1 .. n : s[i] # t[i]}
<1>1. IsFiniteSet(rows) /\ rows \in Tables
  BY DEF FiniteTables
<1>2. /\ s \in SetToSeqs(rows) /\ t \in SetToSeqs(rows)
      /\ \A i, j \in DOMAIN s : i < j => ~Before(order, s[j], s[i])
      /\ \A i, j \in DOMAIN t : i < j => ~Before(order, t[j], t[i])
  BY DEF Sortings
<1>3. /\ s \in Seq(rows) /\ Len(s) = n /\ ToSet(s) = rows
      /\ t \in Seq(rows) /\ Len(t) = n /\ ToSet(t) = rows
      /\ n \in Nat
  BY <1>1, <1>2, SeqOfAll, FS_CardinalityType
<1>4. \A i, j \in 1 .. n : i # j => s[i] # s[j] /\ t[i] # t[j]
  BY <1>1, <1>2, <1>3, SeqOfAll
<1>. HIDE DEF n
<1>5. DOMAIN s = 1 .. n /\ DOMAIN t = 1 .. n
  BY <1>3
<1>6. \A r, u \in rows : r # u => Before(order, r, u) \/ Before(order, u, r)
  <2>1. \A r, u \in rows : r \in Row /\ u \in Row /\ (r # u => r.id # u.id)
    BY <1>1 DEF Tables
  <2>. QED
    BY <2>1, BeforeIsTotal
<1>7. T = {}
  <2>1. SUFFICES ASSUME T # {} PROVE FALSE
    OBVIOUS
  <2>2. PICK i \in T : \A j \in T : i <= j
    <3>1. T \in SUBSET Nat
      BY <1>3
    <3>. HIDE DEF T
    <3>. QED
      BY <2>1, <3>1, Least
  <2>3. i \in 1 .. n /\ s[i] # t[i] /\ s[i] \in rows /\ t[i] \in rows
    BY <2>2, <1>3
  <2>4. \A j \in 1 .. i - 1 : s[j] = t[j]
    BY <2>2, <2>3, <1>3
  <2>5. PICK j \in 1 .. n : t[j] = s[i]
    BY <2>3, <1>3, <1>5 DEF ToSet
  <2>6. PICK m \in 1 .. n : s[m] = t[i]
    BY <2>3, <1>3, <1>5 DEF ToSet
  <2>7. i < j
    BY <2>3, <2>4, <2>5, <1>3, <1>4
  <2>8. i < m
    BY <2>3, <2>4, <2>6, <1>3, <1>4
  <2>9. ~Before(order, s[i], t[i]) /\ ~Before(order, t[i], s[i])
    BY <2>3, <2>5, <2>6, <2>7, <2>8, <1>2, <1>5
  <2>. QED
    BY <2>3, <2>9, <1>6
<1>8. \A i \in 1 .. n : s[i] = t[i]
  BY <1>7
<1>. QED
  BY <1>3, <1>8, SeqEqual

\* A page is sorted by the clauses of its query and by the key.
LEMMA TiebrokenIs ==
    ASSUME NEW select, select.order \in Seq(Clauses), select.order # <<>>
    PROVE  \E order \in Seq(Clauses) :
             /\ \/ Tiebroken(select) = [select EXCEPT !.order = order]
                \/ Tiebroken(select) = select /\ order = select.order
             /\ \E k \in DOMAIN order : order[k].column = Key
             /\ \A r, s : Before(select.order, r, s) => Before(order, r, s)
<1>. DEFINE ordered == {ColumnIdentity(clause) : clause \in ToSet(select.order)}
            missing == [column |-> Key, folded |-> FALSE, nulls |-> "",
                        descending |-> Last(select.order).descending]
<1>1. CASE Key \in ordered
  <2>1. PICK k \in DOMAIN select.order : ColumnIdentity(select.order[k]) = Key
    BY <1>1 DEF ToSet
  <2>2. select.order[k].column = Key
    BY <2>1 DEF ColumnIdentity, Key
  <2>3. Tiebroken(select) = select
    BY <1>1 DEF Tiebroken
  <2>. QED
    BY <2>2, <2>3
<1>2. CASE Key \notin ordered
  <2>. DEFINE order == Append(select.order, missing)
              n == Len(select.order)
  <2>1. n \in Nat /\ n # 0 /\ Last(select.order) \in Clauses
    BY DEF Last
  <2>2. missing \in Clauses
    BY <2>1 DEF Clauses, Placed
  <2>3. Tiebroken(select) = [select EXCEPT !.order = order]
    BY <1>2 DEF Tiebroken
  <2>4. missing.column = Key
    OBVIOUS
  <2>. HIDE DEF missing
  <2>5. order \in Seq(Clauses) /\ n + 1 \in DOMAIN order /\ order[n + 1] = missing
        /\ DOMAIN select.order = 1 .. n /\ DOMAIN order = 1 .. n + 1
        /\ \A i \in 1 .. n : order[i] = select.order[i]
    BY <2>1, <2>2
  <2>. HIDE DEF order, n
  <2>6. ASSUME NEW r, NEW s, Before(select.order, r, s) PROVE Before(order, r, s)
    <3>1. PICK i \in 1 .. n :
             /\ Precedes(select.order[i], r, s)
             /\ \A j \in 1 .. i - 1 : Cell(select.order[j], r) = Cell(select.order[j], s)
      BY <2>5, <2>6 DEF Before
    <3>2. i \in DOMAIN order /\ \A j \in 1 .. i - 1 : j \in 1 .. n
      BY <3>1, <2>1, <2>5
    <3>. QED
      BY <3>1, <3>2, <2>5 DEF Before
  <2>7. \E k \in DOMAIN order : order[k].column = Key
    BY <2>4, <2>5
  <2>8. \A r, s : Before(select.order, r, s) => Before(order, r, s)
    BY <2>6
  <2>9. order \in Seq(Clauses)
    BY <2>5
  <2>. QED
    BY <2>3, <2>7, <2>8, <2>9, Zenon
<1>. QED
  BY <1>1, <1>2

\* What is cut out of rows begins after the offset and is of the limit, or shorter.
IsCut(c, R, s, o, l) ==
    /\ c \in Seq(R)
    /\ Len(c) = IF Len(s) <= o THEN 0 ELSE IF Len(s) <= o + l THEN Len(s) - o ELSE l
    /\ \A i \in 1 .. Len(c) : c[i] = s[o + i]

\* The database cuts so.
LEMMA CutIs ==
    ASSUME NEW R, NEW s \in Seq(R), NEW o \in Nat, NEW l \in Nat,
           NEW select, select.offset = o, select.limit = l, NEW c, c = Cut(select, s)
    PROVE  IsCut(c, R, s, o, l)
<1>1. o # None /\ l # None /\ Len(s) \in Nat
  BY DEF None
<1>2. PICK to \in Nat : to = IF Len(s) <= o + l THEN Len(s) ELSE o + l
  BY <1>1
<1>3. Min({Len(s), o + l}) = to
  BY <1>1, <1>2, MinOfTwo
<1>4. Cut(select, s) = SubSeq(s, o + 1, to)
  BY <1>1, <1>3 DEF Cut
<1>5. \A i \in o + 1 .. to : s[i] \in R
  BY <1>1, <1>2
<1>6. /\ SubSeq(s, o + 1, to) \in Seq(R)
      /\ Len(SubSeq(s, o + 1, to)) = IF o + 1 <= to THEN to - (o + 1) + 1 ELSE 0
      /\ \A i \in 1 .. to - (o + 1) + 1 : SubSeq(s, o + 1, to)[i] = s[o + 1 + i - 1]
  <2>1. o + 1 \in Int /\ to \in Int
    BY <1>2
  <2>. QED
    BY <2>1, <1>5, SubSeqProperties
<1>a. c = SubSeq(s, o + 1, to)
  BY <1>4
<1>7. c \in Seq(R) /\ Len(c) = IF Len(s) <= o THEN 0 ELSE IF Len(s) <= o + l THEN Len(s) - o ELSE l
  BY <1>1, <1>2, <1>6, <1>a
<1>8. ASSUME NEW i \in 1 .. Len(c) PROVE c[i] = s[o + i]
  <2>1. i \in 1 .. to - (o + 1) + 1 /\ o + 1 + i - 1 = o + i
    BY <1>1, <1>2, <1>6, <1>a
  <2>. QED
    BY <2>1, <1>6, <1>a
<1>. QED
  BY <1>7, <1>8 DEF IsCut

\* A page at an offset of rows in their order.
PageHas(page, s, o, limit) ==
    /\ Len(page.items) = IF Len(s) <= o THEN 0 ELSE IF Len(s) <= o + limit THEN Len(s) - o ELSE limit
    /\ \A i \in 1 .. Len(page.items) : page.items[i] = s[o + i]
    /\ page.has_next <=> o + limit < Len(s)

\* The select of a read is that of its query beyond the two filters.
LEMMA FilteredIs ==
    ASSUME NEW q, Shaped(q)
    PROVE  /\ Shaped(Filtered(q)) /\ Filtered(q).order = q.order
           /\ Filtered(q).limit = q.limit /\ Filtered(q).offset = q.offset
           /\ Filtered(q).joined = q.joined /\ Filtered(q).having = q.having
<1>1. PICK where : Filtered(q) = [q EXCEPT !.where = where]
  BY DEF Filtered
<1>. QED
  BY <1>1 DEF Shaped

\* The rows of a page are cut out of one way to sort those of the query.
LEMMA PageRowsAre ==
    ASSUME NEW q, Shaped(q), NEW o, NEW l, NEW table,
           NEW rows \in PageRows(q, l, o, table),
           NEW order, \/ Tiebroken(Filtered(q)) = [Filtered(q) EXCEPT !.order = order]
                      \/ Tiebroken(Filtered(q)) = Filtered(q) /\ order = Filtered(q).order
    PROVE  \E s \in Sortings(order, Selected(Filtered(q), table)) : \E select :
              select.offset = o /\ select.limit = l /\ rows = Cut(select, s)
<1>. DEFINE f == Filtered(q)
            t == Tiebroken(f)
            select == [t EXCEPT !.limit = l, !.offset = o]
<1>1. Shaped(f)
  BY FilteredIs
<1>. HIDE DEF f
<1>2. /\ t = [where |-> f.where, having |-> f.having, joined |-> f.joined, order |-> order,
              limit |-> f.limit, offset |-> f.offset, raw |-> f.raw, filtered |-> f.filtered,
              deleted |-> f.deleted]
  BY <1>1 DEF Shaped, f
<1>3. PICK s \in Sortings(select.order, Selected(select, table)) : rows = Cut(select, s)
  BY DEF PageRows, Answers, f
<1>4. /\ select.offset = o /\ select.limit = l /\ select.order = order
      /\ select.where = f.where /\ select.having = f.having /\ select.joined = f.joined
  BY <1>2
<1>. HIDE DEF select
<1>5. Selected(select, table) = Selected(f, table)
  BY <1>4 DEF Selected
<1>. QED
  BY <1>3, <1>4, <1>5 DEF f

\* How many rows a query has, whatever their order.
LEMMA CountIs ==
    ASSUME NEW q, Shaped(q), q.limit = None, q.offset = None, NEW table, IsFiniteSet(table),
           NEW counted \in Counts(q, table)
    PROVE  counted = Cardinality(Selected(Filtered(q), table))
<1>. DEFINE f == Filtered(q)
            select == [f EXCEPT !.order = <<>>]
            rows == Selected(f, table)
<1>1. Shaped(f) /\ f.limit = None /\ f.offset = None
  BY FilteredIs
<1>2. rows \in SUBSET table
  BY DEF Selected
<1>3. IsFiniteSet(rows)
  BY <1>2, FS_Subset
<1>4. PICK c \in Answers(select, table) : counted = Len(c)
  BY DEF Counts
<1>. HIDE DEF f
<1>5. /\ select.limit = None /\ select.offset = None /\ select.where = f.where
      /\ select.having = f.having /\ select.joined = f.joined
  BY <1>1 DEF Shaped
<1>. HIDE DEF select
<1>6. Selected(select, table) = rows
  BY <1>5 DEF Selected
<1>7. PICK s \in Sortings(select.order, rows) : c = Cut(select, s)
  BY <1>4, <1>6 DEF Answers
<1>. HIDE DEF rows
<1>8. s \in Seq(rows) /\ Len(s) = Cardinality(rows)
  BY <1>3, <1>7, SeqOfAll DEF Sortings
<1>9. c = SubSeq(s, 1, Len(s))
  <2>1. Cut(select, s) = SubSeq(s, 0 + 1, Len(s))
    BY <1>5 DEF Cut
  <2>2. 0 + 1 = 1
    OBVIOUS
  <2>. QED
    BY <2>1, <2>2, <1>7
<1>10. Len(c) = Len(s)
  BY <1>8, <1>9
<1>. QED
  BY <1>4, <1>8, <1>10 DEF rows, f

\* A page, counted or not, is of one way to sort the rows of its query.
LEMMA PageIs ==
    ASSUME NEW q, Shaped(q), q.limit = None, q.offset = None,
           NEW o \in Nat, NEW limit \in Nat \ {0}, NEW table, IsFiniteSet(table),
           NEW order, \/ Tiebroken(Filtered(q)) = [Filtered(q) EXCEPT !.order = order]
                      \/ Tiebroken(Filtered(q)) = Filtered(q) /\ order = Filtered(q).order,
           NEW total \in BOOLEAN, NEW page \in Page(q, limit, o, total, table)
    PROVE  \E s \in Sortings(order, Selected(Filtered(q), table)) : PageHas(page, s, o, limit)
<1>. DEFINE rows == Selected(Filtered(q), table)
<1>1. rows \in SUBSET table
  BY DEF Selected
<1>2. IsFiniteSet(rows)
  BY <1>1, FS_Subset
<1>3. \A s \in Sortings(order, rows) : s \in Seq(rows) /\ Len(s) = Cardinality(rows) /\ Len(s) \in Nat
  <2>. HIDE DEF rows
  <2>. QED
    BY <1>2, SeqOfAll, FS_CardinalityType DEF Sortings
<1>4. CASE total
  <2>1. PICK counted \in Counts(q, table), c \in PageRows(q, limit, o, table) :
           LET items == IF counted <= o THEN <<>> ELSE c
           IN page = [items |-> items, has_next |-> o + Len(items) < counted]
    BY <1>4 DEF Page, CountedPage
  <2>2. counted = Cardinality(rows)
    BY CountIs
  <2>a. PICK s \in Sortings(order, rows) : \E select :
           select.offset = o /\ select.limit = limit /\ c = Cut(select, s)
    BY PageRowsAre
  <2>3. PICK select : select.offset = o /\ select.limit = limit /\ c = Cut(select, s)
    BY <2>a
  <2>. HIDE DEF rows
  <2>4. s \in Seq(rows) /\ Len(s) = counted /\ counted \in Nat
    BY <2>2, <1>3
  <2>5. /\ c \in Seq(rows)
        /\ Len(c) = IF counted <= o THEN 0 ELSE IF counted <= o + limit THEN counted - o ELSE limit
        /\ \A i \in 1 .. Len(c) : c[i] = s[o + i]
    <3>1. limit \in Nat
      OBVIOUS
    <3>2. /\ c \in Seq(rows)
          /\ Len(c) = IF Len(s) <= o THEN 0 ELSE IF Len(s) <= o + limit THEN Len(s) - o ELSE limit
          /\ \A i \in 1 .. Len(c) : c[i] = s[o + i]
      BY <2>3, <2>4, <3>1, CutIs DEF IsCut
    <3>. QED
      BY <3>2, <2>4
  <2>6. CASE counted <= o
    <3>1. page.items = <<>> /\ (page.has_next <=> o + 0 < counted)
      BY <2>1, <2>6
    <3>. QED
      BY <2>4, <2>6, <3>1 DEF PageHas, rows
  <2>7. CASE ~(counted <= o)
    <3>1. page.items = c /\ (page.has_next <=> o + Len(c) < counted)
      BY <2>1, <2>7
    <3>2. page.has_next <=> o + limit < counted
      BY <3>1, <2>4, <2>5, <2>7
    <3>. QED
      BY <2>4, <2>5, <2>7, <3>1, <3>2 DEF PageHas, rows
  <2>. QED
    BY <2>6, <2>7
<1>5. CASE ~total
  <2>1. PICK c \in PageRows(q, limit + 1, o, table) :
           page = [items |-> SubSeq(c, 1, Min({limit, Len(c)})), has_next |-> Len(c) > limit]
    BY <1>5 DEF Page, UncountedPage
  <2>a. PICK s \in Sortings(order, rows) : \E select :
           select.offset = o /\ select.limit = limit + 1 /\ c = Cut(select, s)
    BY PageRowsAre
  <2>2. PICK select : select.offset = o /\ select.limit = limit + 1 /\ c = Cut(select, s)
    BY <2>a
  <2>. HIDE DEF rows
  <2>3. s \in Seq(rows) /\ Len(s) \in Nat /\ limit + 1 \in Nat
    BY <2>2, <1>3
  <2>4. /\ c \in Seq(rows) /\ Len(c) \in Nat
        /\ Len(c) = IF Len(s) <= o THEN 0
                    ELSE IF Len(s) <= o + (limit + 1) THEN Len(s) - o ELSE limit + 1
        /\ \A i \in 1 .. Len(c) : c[i] = s[o + i]
    <3>1. /\ c \in Seq(rows)
          /\ Len(c) = IF Len(s) <= o THEN 0
                      ELSE IF Len(s) <= o + (limit + 1) THEN Len(s) - o ELSE limit + 1
          /\ \A i \in 1 .. Len(c) : c[i] = s[o + i]
      <4>a. PICK l \in Nat : l = limit + 1
        BY <2>3
      <4>1. l \in Nat /\ select.limit = l
        BY <4>a, <2>2
      <4>2. /\ c \in Seq(rows)
            /\ Len(c) = IF Len(s) <= o THEN 0 ELSE IF Len(s) <= o + l THEN Len(s) - o ELSE l
            /\ \A i \in 1 .. Len(c) : c[i] = s[o + i]
        <5>1. c = Cut(select, s) /\ select.offset = o /\ s \in Seq(rows)
          BY <2>2, <2>3
        <5>2. IsCut(c, rows, s, o, l)
          BY <4>1, <5>1, CutIs
        <5>. QED
          BY <5>2 DEF IsCut
      <4>. QED
        BY <4>2, <4>a
    <3>. QED
      BY <3>1
  <2>. DEFINE cut == [offset |-> 0, limit |-> limit]
              items == Cut(cut, c)
  <2>5. page.items = items /\ (page.has_next <=> Len(c) > limit)
    <3>1. items = SubSeq(c, 0 + 1, Min({Len(c), 0 + limit}))
      <4>1. cut.offset = 0 /\ cut.limit = limit /\ 0 # None /\ limit # None
        BY DEF None
      <4>. HIDE DEF cut
      <4>. QED
        BY <4>1 DEF Cut
    <3>2. 0 + 1 = 1 /\ 0 + limit = limit
      OBVIOUS
    <3>3. {Len(c), limit} = {limit, Len(c)}
      OBVIOUS
    <3>. QED
      BY <2>1, <3>1, <3>2, <3>3
  <2>6. /\ Len(items) = IF Len(c) <= 0 THEN 0 ELSE IF Len(c) <= 0 + limit THEN Len(c) - 0 ELSE limit
        /\ \A i \in 1 .. Len(items) : items[i] = c[0 + i]
    <3>1. cut.offset = 0 /\ cut.limit = limit /\ 0 \in Nat /\ limit \in Nat
      OBVIOUS
    <3>2. items = Cut(cut, c)
      OBVIOUS
    <3>. HIDE DEF cut, items
    <3>. QED
      BY <3>1, <3>2, <2>4, CutIs DEF IsCut
  <2>. HIDE DEF items, cut
  <2>7. Len(items) = IF Len(s) <= o THEN 0 ELSE IF Len(s) <= o + limit THEN Len(s) - o ELSE limit
    BY <2>3, <2>4, <2>6
  <2>8. ASSUME NEW i \in 1 .. Len(items) PROVE items[i] = s[o + i]
    <3>1. i \in 1 .. Len(c) /\ 0 + i = i
      BY <2>4, <2>6
    <3>. QED
      BY <3>1, <2>4, <2>6
  <2>9. page.has_next <=> o + limit < Len(s)
    BY <2>3, <2>4, <2>5
  <2>. QED
    BY <2>5, <2>7, <2>8, <2>9 DEF PageHas, rows
<1>. QED
  BY <1>4, <1>5

\* A page later is a whole limit later.
LEMMA PageLater ==
    ASSUME NEW m \in Nat, NEW n \in Nat, NEW limit \in Nat, m < n
    PROVE  m * limit + limit <= n * limit
<1>1. PICK d \in Nat : n = m + 1 + d
  <2>1. n - m - 1 \in Nat /\ n = m + 1 + (n - m - 1)
    OBVIOUS
  <2>. QED
    BY <2>1
<1>2. n * limit = m * limit + limit + d * limit
  BY <1>1
<1>3. d * limit \in Nat /\ m * limit \in Nat
  OBVIOUS
<1>. QED
  BY <1>2, <1>3

\* Each place among the rows is one place of one page.
LEMMA PlaceIs ==
    ASSUME NEW limit \in Nat \ {0}, NEW p \in Nat \ {0}
    PROVE  \E n \in Nat, i \in 1 .. limit : p = n * limit + i
<1>. DEFINE T == {n \in Nat : p <= n * limit + limit}
<1>1. p \in T
  <2>1. p * limit \in Nat /\ p <= p * limit
    <3>1. PICK d \in Nat : limit = 1 + d
      <4>1. limit - 1 \in Nat /\ limit = 1 + (limit - 1)
        OBVIOUS
      <4>. QED
        BY <4>1
    <3>2. p * limit = p + p * d
      BY <3>1
    <3>3. p * d \in Nat
      BY <3>1
    <3>. QED
      BY <3>2, <3>3
  <2>. QED
    BY <2>1
<1>2. PICK n \in T : \A m \in T : n <= m
  <2>1. T \in SUBSET Nat /\ T # {}
    BY <1>1
  <2>. HIDE DEF T
  <2>. QED
    BY <2>1, Least
<1>3. n \in Nat /\ n * limit \in Nat /\ p <= n * limit + limit
  BY <1>2
<1>4. n * limit < p
  <2>1. CASE n = 0
    BY <2>1
  <2>2. CASE n # 0
    <3>1. n - 1 \in Nat /\ ~(n <= n - 1)
      BY <2>2, <1>3
    <3>2. n - 1 \notin T
      BY <3>1, <1>2
    <3>3. ~(p <= (n - 1) * limit + limit)
      BY <3>1, <3>2
    <3>4. (n - 1) * limit + limit = n * limit
      BY <1>3
    <3>. QED
      BY <3>3, <3>4, <1>3
  <2>. QED
    BY <2>1, <2>2
<1>5. p - n * limit \in 1 .. limit /\ p = n * limit + (p - n * limit)
  BY <1>3, <1>4
<1>. QED
  BY <1>3, <1>5

\* And no other.
IsPlace(p, n, i, limit) == p = n * limit + i

LEMMA PlaceIsOne ==
    ASSUME NEW limit \in Nat \ {0}, NEW n \in Nat, NEW m \in Nat, NEW p,
           NEW i \in 1 .. limit, NEW j \in 1 .. limit,
           IsPlace(p, n, i, limit), IsPlace(p, m, j, limit)
    PROVE  n = m /\ i = j
<1>0. n * limit + i = m * limit + j
  BY DEF IsPlace
<1>1. n * limit \in Nat /\ m * limit \in Nat
  OBVIOUS
<1>2. ~(n < m)
  <2>1. n < m => n * limit + limit <= m * limit
    BY PageLater
  <2>. QED
    BY <1>0, <2>1, <1>1
<1>3. ~(m < n)
  <2>1. m < n => m * limit + limit <= n * limit
    BY PageLater
  <2>. QED
    BY <1>0, <2>1, <1>1
<1>4. n = m
  BY <1>2, <1>3
<1>. QED
  BY <1>0, <1>1, <1>4

\* The pages a reader who follows them reads, and the places of the rows on them.
PagesRead(pages) == {n \in DOMAIN pages : \A m \in 0 .. n - 1 : pages[m].has_next}

Places(pages, limit) ==
    {p \in {<<n, i>> : n \in PagesRead(pages), i \in 1 .. limit} : p[2] <= Len(pages[p[1]].items)}

LEMMA ShowsOnceIs ==
    ASSUME NEW pages, NEW rows, NEW limit,
           {pages[p[1]].items[p[2]] : p \in Places(pages, limit)} = rows,
           Cardinality(Places(pages, limit)) = Cardinality(rows),
           \A n \in PagesRead(pages) : pages[n].has_next => pages[n].items # <<>>
    PROVE  ShowsOnce(pages, rows, limit)
BY DEF ShowsOnce, Places, PagesRead

\* Pages of one way to sort rows, each followed while it says that another follows, show
\* every row once.
LEMMA PagesShowAll ==
    ASSUME NEW rows, IsFiniteSet(rows), NEW s \in SetToSeqs(rows),
           NEW limit \in Nat \ {0}, NEW last \in Nat, Cardinality(rows) <= last * limit + limit,
           NEW pages, DOMAIN pages = 0 .. last,
           \A n \in 0 .. last : PageHas(pages[n], s, n * limit, limit)
    PROVE  ShowsOnce(pages, rows, limit)
<1>. DEFINE N == Cardinality(rows)
            read == PagesRead(pages)
            at == Places(pages, limit)
<1>1. /\ s \in Seq(rows) /\ Len(s) = N /\ N \in Nat /\ ToSet(s) = rows
      /\ \A i, j \in 1 .. N : i # j => s[i] # s[j]
  BY SeqOfAll, FS_CardinalityType
<1>a. N <= last * limit + limit
  OBVIOUS
<1>. HIDE DEF N
<1>2. \A n \in 0 .. last :
        /\ n \in Nat /\ n * limit \in Nat
        /\ Len(pages[n].items) = IF N <= n * limit THEN 0
                                 ELSE IF N <= n * limit + limit THEN N - n * limit ELSE limit
        /\ \A i \in 1 .. Len(pages[n].items) : pages[n].items[i] = s[n * limit + i]
        /\ pages[n].has_next <=> n * limit + limit < N
  BY <1>1 DEF PageHas
<1>3. \A n \in 0 .. last : n \in read <=> n = 0 \/ n * limit < N
  <2>. SUFFICES ASSUME NEW n \in 0 .. last PROVE n \in read <=> n = 0 \/ n * limit < N
    OBVIOUS
  <2>1. n \in read <=> \A m \in 0 .. n - 1 : pages[m].has_next
    BY DEF PagesRead
  <2>2. ASSUME \A m \in 0 .. n - 1 : pages[m].has_next, n # 0 PROVE n * limit < N
    <3>1. n - 1 \in 0 .. n - 1 /\ n - 1 \in 0 .. last
      BY <2>2
    <3>2. (n - 1) * limit + limit < N
      BY <3>1, <2>2, <1>2
    <3>3. (n - 1) * limit + limit = n * limit
      OBVIOUS
    <3>. QED
      BY <3>2, <3>3
  <2>3. ASSUME n * limit < N, NEW m \in 0 .. n - 1 PROVE pages[m].has_next
    <3>1. m \in Nat /\ m < n /\ m \in 0 .. last
      OBVIOUS
    <3>2. m * limit + limit <= n * limit
      BY <3>1, PageLater
    <3>3. m * limit + limit < N
      <4>1. PICK a \in Nat, b \in Nat : a = m * limit /\ b = n * limit
        BY <3>1, <1>2
      <4>2. a + limit <= b /\ b < N
        BY <4>1, <3>2, <2>3
      <4>3. a + limit < N
        BY <4>2, <1>1
      <4>. QED
        BY <4>1, <4>3
    <3>. QED
      BY <3>1, <3>3, <1>2
  <2>4. n = 0 => \A m \in 0 .. n - 1 : pages[m].has_next
    OBVIOUS
  <2>. QED
    BY <2>1, <2>2, <2>3, <2>4
<1>4. read \subseteq 0 .. last
  BY DEF PagesRead
<1>. HIDE DEF read
<1>5. \A p \in at : /\ p = <<p[1], p[2]>> /\ p[1] \in 0 .. last /\ p[2] \in 1 .. limit
                    /\ p[2] \in 1 .. Len(pages[p[1]].items)
                    /\ p[1] * limit + p[2] \in 1 .. N
  <2>. SUFFICES ASSUME NEW p \in at
                PROVE /\ p = <<p[1], p[2]>> /\ p[1] \in 0 .. last /\ p[2] \in 1 .. limit
                      /\ p[2] \in 1 .. Len(pages[p[1]].items)
                      /\ p[1] * limit + p[2] \in 1 .. N
    OBVIOUS
  <2>1. p = <<p[1], p[2]>> /\ p[1] \in 0 .. last /\ p[2] \in 1 .. limit
        /\ p[2] <= Len(pages[p[1]].items)
    BY <1>4 DEF Places, read
  <2>2. PICK n \in 0 .. last : n = p[1]
    BY <2>1
  <2>3. PICK o \in Nat : o = n * limit
    BY <1>2
  <2>4. p[2] <= IF N <= o THEN 0 ELSE IF N <= o + limit THEN N - o ELSE limit
    BY <2>1, <2>2, <2>3, <1>2
  <2>5. PICK i \in 1 .. limit : i = p[2]
    BY <2>1
  <2>6. o + i \in 1 .. N
    <3>1. i <= IF N <= o THEN 0 ELSE IF N <= o + limit THEN N - o ELSE limit
      BY <2>4, <2>5
    <3>. QED
      BY <3>1, <1>1
  <2>. QED
    BY <2>1, <2>2, <2>3, <2>5, <2>6
<1>6. \A q \in 1 .. N : \E p \in at : q = p[1] * limit + p[2]
  <2>. SUFFICES ASSUME NEW q \in 1 .. N PROVE \E p \in at : q = p[1] * limit + p[2]
    OBVIOUS
  <2>1. PICK n \in Nat, i \in 1 .. limit : q = n * limit + i
    <3>1. q \in Nat \ {0}
      BY <1>1
    <3>. QED
      BY <3>1, PlaceIs
  <2>2. PICK o \in Nat : o = n * limit
    BY <2>1
  <2>3. o < N /\ o < last * limit + limit /\ last * limit \in Nat
    <3>1. o + i <= N
      BY <2>1, <2>2, <1>1
    <3>2. PICK z \in Nat : z = last * limit
      OBVIOUS
    <3>3. o < N /\ o < z + limit
      BY <3>1, <3>2, <1>1, <1>a
    <3>. QED
      BY <3>2, <3>3
  <2>4. n \in 0 .. last
    <3>1. last < n => last * limit + limit <= n * limit
      BY PageLater
    <3>. QED
      BY <3>1, <2>2, <2>3
  <2>5. n \in read
    BY <2>2, <2>3, <2>4, <1>3
  <2>6. i <= Len(pages[n].items)
    <3>1. Len(pages[n].items) = IF N <= o THEN 0 ELSE IF N <= o + limit THEN N - o ELSE limit
      BY <2>2, <2>4, <1>2
    <3>. QED
      BY <3>1, <2>1, <2>2, <2>3, <1>1
  <2>7. <<n, i>> \in at
    BY <2>1, <2>5, <2>6 DEF Places, read
  <2>. HIDE DEF at
  <2>. QED
    BY <2>1, <2>7
<1>. HIDE DEF at
<1>. DEFINE f == [p \in at |-> p[1] * limit + p[2]]
<1>7. f \in Bijection(at, 1 .. N)
  <2>1. \A p, q \in at : f[p] = f[q] => p = q
    <3>. SUFFICES ASSUME NEW p \in at, NEW q \in at, p[1] * limit + p[2] = q[1] * limit + q[2]
                  PROVE  p = q
      OBVIOUS
    <3>1. p[1] \in Nat /\ q[1] \in Nat /\ p[2] \in 1 .. limit /\ q[2] \in 1 .. limit
      BY <1>2, <1>5
    <3>2. p[1] = q[1] /\ p[2] = q[2]
      <4>1. PICK n \in Nat, m \in Nat, i \in 1 .. limit, j \in 1 .. limit :
               n = p[1] /\ m = q[1] /\ i = p[2] /\ j = q[2]
        BY <3>1
      <4>2. n * limit + i = m * limit + j
        BY <4>1
      <4>3. IsPlace(n * limit + i, n, i, limit) /\ IsPlace(n * limit + i, m, j, limit)
        BY <4>2 DEF IsPlace
      <4>4. n = m /\ i = j
        BY <4>3, PlaceIsOne
      <4>. QED
        BY <4>1, <4>4
    <3>. QED
      BY <3>2, <1>5
  <2>2. f \in [at -> 1 .. N]
    BY <1>5
  <2>3. \A q \in 1 .. N : \E p \in at : f[p] = q
    BY <1>6
  <2>. HIDE DEF f
  <2>. QED
    BY <2>1, <2>2, <2>3 DEF Bijection, Injection, Surjection, IsInjective
<1>8. Cardinality(at) = N
  <2>1. ExistsBijection(1 .. N, at)
    BY <1>7, Fun_ExistsBijSymmetric DEF ExistsBijection
  <2>2. IsFiniteSet(1 .. N) /\ Cardinality(1 .. N) = N
    <3>1. IsFiniteSet(1 .. N) /\ Cardinality(1 .. N) = IF 1 > N THEN 0 ELSE N - 1 + 1
      BY <1>1, FS_Interval
    <3>. QED
      BY <3>1, <1>1
  <2>. QED
    BY <2>1, <2>2, FS_Bijection
<1>9. {pages[p[1]].items[p[2]] : p \in at} = rows
  <2>1. \A p \in at : pages[p[1]].items[p[2]] = s[p[1] * limit + p[2]]
    BY <1>2, <1>5
  <2>2. \A q \in 1 .. N : s[q] \in rows
    BY <1>1
  <2>3. \A r \in rows : \E q \in 1 .. N : s[q] = r
    BY <1>1 DEF ToSet
  <2>4. \A r \in rows : \E p \in at : pages[p[1]].items[p[2]] = r
    BY <2>1, <2>3, <1>6
  <2>5. \A p \in at : pages[p[1]].items[p[2]] \in rows
    BY <2>1, <2>2, <1>5
  <2>. QED
    BY <2>4, <2>5
<1>10. \A n \in read : pages[n].has_next => pages[n].items # <<>>
  <2>. SUFFICES ASSUME NEW n \in read, pages[n].has_next PROVE pages[n].items # <<>>
    OBVIOUS
  <2>1. PICK o \in Nat : o = n * limit
    BY <1>2, <1>4
  <2>2. o + limit < N /\ Len(pages[n].items) = IF N <= o THEN 0 ELSE IF N <= o + limit THEN N - o ELSE limit
    BY <2>1, <1>2, <1>4
  <2>3. Len(pages[n].items) = limit
    BY <2>1, <2>2, <1>1
  <2>. QED
    BY <2>3
<1>11. /\ {pages[p[1]].items[p[2]] : p \in at} = rows
       /\ Cardinality(at) = Cardinality(rows)
       /\ \A n \in read : pages[n].has_next => pages[n].items # <<>>
  BY <1>8, <1>9, <1>10 DEF N
<1>. QED
  BY <1>11, ShowsOnceIs DEF at, read

\* Nothing is cut where nothing was asked to be.
LEMMA Uncut ==
    ASSUME NEW R, NEW s \in Seq(R), NEW select, select.limit = None, select.offset = None
    PROVE  Cut(select, s) = s
<1>1. Cut(select, s) = SubSeq(s, 0 + 1, Len(s))
  BY DEF Cut
<1>2. 0 + 1 = 1
  OBVIOUS
<1>3. Cut(select, s) = SubSeq(s, 1, Len(s))
  BY <1>1, <1>2
<1>. QED
  BY <1>3, SubSeqProperties, SeqEqual

\* The pages of an ordered query are of one way to sort its rows: the key is in the ordering.
LEMMA PagesAreWhole ==
    ASSUME NEW q \in Paged, NEW limit \in Limits, NEW total \in BOOLEAN,
           NEW table \in FiniteTables, NEW pages \in PagesOf(q, limit, total, table)
    PROVE  ShowsOnce(pages, RowsOf(q, table), limit)
<1>. DEFINE f == Filtered(q)
            rows == Selected(f, table)
            last == Cardinality(table) \div limit
<1>1. /\ Shaped(q) /\ ~q.raw /\ q.order \in Seq(Clauses) /\ q.order # <<>>
      /\ q.limit = None /\ q.offset = None
  BY QueriesAreShaped DEF Paged, PageRefused, RejectsStatement, Shaped
<1>2. Shaped(f) /\ f.order = q.order /\ f.limit = None /\ f.offset = None
  BY <1>1, FilteredIs
<1>3. limit \in Nat \ {0}
  BY LimitsAssumption
<1>4. IsFiniteSet(table) /\ Cardinality(table) \in Nat
  BY FS_CardinalityType DEF FiniteTables
<1>5. rows \in SUBSET table /\ rows \in FiniteTables /\ IsFiniteSet(rows)
      /\ Cardinality(rows) <= Cardinality(table) /\ Cardinality(rows) \in Nat
  <2>1. rows \in SUBSET table
    BY DEF Selected
  <2>. HIDE DEF rows
  <2>2. IsFiniteSet(rows) /\ Cardinality(rows) <= Cardinality(table)
    BY <2>1, <1>4, FS_Subset
  <2>. QED
    BY <2>1, <2>2, SomeRows, FS_CardinalityType
<1>6. last \in Nat /\ Cardinality(rows) <= last * limit + limit
  <2>1. PICK c \in Nat, d \in Nat : c = Cardinality(table) /\ d = Cardinality(rows) /\ d <= c
    BY <1>4, <1>5
  <2>2. c \div limit \in Nat /\ c <= (c \div limit) * limit + limit
    BY <1>3
  <2>. QED
    BY <2>1, <2>2, <1>3
<1>7. PICK order \in Seq(Clauses) :
        /\ \/ Tiebroken(f) = [f EXCEPT !.order = order]
           \/ Tiebroken(f) = f /\ order = f.order
        /\ \E k \in DOMAIN order : order[k].column = Key
        /\ \A r, s : Before(q.order, r, s) => Before(order, r, s)
  BY <1>1, <1>2, TiebrokenIs
<1>8. PICK k \in DOMAIN order : order[k].column = Key
  BY <1>7
<1>9. DOMAIN pages = 0 .. last /\ \A n \in 0 .. last : pages[n] \in Page(q, limit, n * limit, total, table)
  BY DEF PagesOf
<1>10. \A n \in 0 .. last : \E s \in Sortings(order, rows) : PageHas(pages[n], s, n * limit, limit)
  <2>. SUFFICES ASSUME NEW n \in 0 .. last
                PROVE  \E s \in Sortings(order, rows) : PageHas(pages[n], s, n * limit, limit)
    OBVIOUS
  <2>1. n * limit \in Nat
    BY <1>3, <1>6
  <2>. QED
    BY <2>1, <1>1, <1>3, <1>4, <1>7, <1>9, PageIs
<1>. HIDE DEF f, rows, last
<1>11. PICK s \in Sortings(order, rows) : PageHas(pages[0], s, 0 * limit, limit)
  <2>1. 0 \in 0 .. last
    BY <1>6
  <2>. QED
    BY <2>1, <1>10
<1>12. \A n \in 0 .. last : PageHas(pages[n], s, n * limit, limit)
  BY <1>5, <1>8, <1>10, <1>11, SortingIsUnique
<1>13. s \in SetToSeqs(rows) /\ s \in Sortings(q.order, rows)
  BY <1>7, <1>11 DEF Sortings
<1>14. ShowsOnce(pages, rows, limit)
  BY <1>3, <1>5, <1>6, <1>9, <1>12, <1>13, PagesShowAll
<1>15. RowsOf(q, table) = rows
  <2>1. All(q, table) = {Cut(f, t) : t \in Sortings(q.order, rows)}
    BY <1>1, <1>2 DEF All, Answers, f, rows
  <2>2. \A t \in Sortings(q.order, rows) : ToSet(Cut(f, t)) = rows
    <3>. SUFFICES ASSUME NEW t \in Sortings(q.order, rows) PROVE ToSet(Cut(f, t)) = rows
      OBVIOUS
    <3>1. t \in Seq(rows) /\ ToSet(t) = rows
      BY <1>5, SeqOfAll DEF Sortings
    <3>. QED
      BY <3>1, <1>2, Uncut
  <2>3. \E t \in Sortings(q.order, rows) : TRUE
    BY <1>13
  <2>. QED
    BY <2>1, <2>2, <2>3 DEF RowsOf
<1>. QED
  BY <1>14, <1>15

\* Pages followed while they say that another follows show every row of their query once,
\* in every table the writes make, with and without the total (Query.paginate).
THEOREM PagesAreShown == Spec => []PagesShowEveryRowOnce
<1>1. Inv /\ [Next]_vars => Inv'
  BY NextKeeps, StutterKeeps
<1>2. Inv => PagesShowEveryRowOnce
  <2>. SUFFICES ASSUME Inv PROVE PagesShowEveryRowOnce
    OBVIOUS
  <2>1. connection.rows \in FiniteTables /\ connection.rows \in Tables
    BY DEF Inv, Typed, FiniteTables
  <2>2. \A q \in Paged, limit \in Limits, total \in BOOLEAN :
          \A pages \in PagesOf(q, limit, total, connection.rows) :
            ShowsOnce(pages, RowsOf(q, connection.rows), limit)
    BY <2>1, PagesAreWhole
  <2>. QED
    BY <2>1, <2>2 DEF PagesShowEveryRowOnce, TablePages
<1>. QED
  BY <1>1, <1>2, InitInv, PTL DEF Spec

-----------------------------------------------------------------------------
\* Reads: every ordering sorts the rows of a table in one way at least, so each read of a
\* query has an answer, and they agree.

\* What a clause says of two numbers, of which 0 is NULL.
Sooner(first, down, x, y) ==
    \/ x = 0 /\ y # 0 /\ first
    \/ x # 0 /\ y = 0 /\ ~first
    \/ x # 0 /\ y # 0 /\ down /\ x > y
    \/ x # 0 /\ y # 0 /\ ~down /\ x < y

LEMMA SoonerIsStrict ==
    ASSUME NEW first \in BOOLEAN, NEW down \in BOOLEAN, NEW a \in Nat, NEW b \in Nat, NEW c \in Nat
    PROVE  /\ ~Sooner(first, down, a, a)
           /\ Sooner(first, down, a, b) /\ Sooner(first, down, b, c) => Sooner(first, down, a, c)
BY DEF Sooner

LEMMA PrecedesIsSooner ==
    ASSUME NEW clause \in Clauses
    PROVE  \E first \in BOOLEAN, down \in BOOLEAN : \A r, s \in Row :
              Precedes(clause, r, s) <=> Sooner(first, down, Cell(clause, r), Cell(clause, s))
<1>1. clause.descending \in BOOLEAN
      /\ (clause.nulls = "" \/ clause.nulls = "first" \/ clause.nulls = "last")
  BY DEF Clauses, Placed
<1>. DEFINE first == clause.nulls = "first" \/ (clause.nulls = "" /\ ~clause.descending)
            down == clause.descending
<1>2. first \in BOOLEAN /\ down \in BOOLEAN
  BY <1>1
<1>3. ~first <=> clause.nulls = "last" \/ (clause.nulls = "" /\ clause.descending)
  BY <1>1
<1>4. ASSUME NEW r \in Row, NEW s \in Row
      PROVE  Precedes(clause, r, s) <=> Sooner(first, down, Cell(clause, r), Cell(clause, s))
  <2>1. Cell(clause, r) \in Nat /\ Cell(clause, s) \in Nat
    BY CellIs
  <2>2. Precedes(clause, r, s) <=>
           IF Cell(clause, r) = 0 /\ Cell(clause, s) # 0 THEN first
           ELSE IF Cell(clause, r) # 0 /\ Cell(clause, s) = 0 THEN ~first
           ELSE IF down THEN Cell(clause, r) > Cell(clause, s)
           ELSE Cell(clause, r) < Cell(clause, s)
    BY <1>3, PrecedesIs
  <2>. HIDE DEF first, down
  <2>. QED
    BY <2>1, <2>2, <1>2 DEF Sooner
<1>. HIDE DEF first, down
<1>. QED
  BY <1>2, <1>4

\* A clause tells two rows apart that it puts one before the other, puts the rows after
\* the second of two after the first, and sees no more of a row than its cell.
LEMMA PrecedesIsStrict ==
    ASSUME NEW clause \in Clauses, NEW r \in Row, NEW s \in Row, NEW t \in Row
    PROVE  /\ ~Precedes(clause, r, r)
           /\ Precedes(clause, r, s) /\ Precedes(clause, s, t) => Precedes(clause, r, t)
           /\ Cell(clause, r) = Cell(clause, s) =>
                /\ Precedes(clause, r, t) <=> Precedes(clause, s, t)
                /\ Precedes(clause, t, r) <=> Precedes(clause, t, s)
<1>1. PICK first \in BOOLEAN, down \in BOOLEAN : \A x, y \in Row :
         Precedes(clause, x, y) <=> Sooner(first, down, Cell(clause, x), Cell(clause, y))
  BY PrecedesIsSooner
<1>2. Cell(clause, r) \in Nat /\ Cell(clause, s) \in Nat /\ Cell(clause, t) \in Nat
  BY CellIs
<1>. QED
  BY <1>1, <1>2, SoonerIsStrict

\* An ordering puts rows before others without a circle.
LEMMA BeforeIsStrict ==
    ASSUME NEW order \in Seq(Clauses), NEW r \in Row, NEW s \in Row, NEW t \in Row
    PROVE  /\ ~Before(order, r, r)
           /\ Before(order, r, s) /\ Before(order, s, t) => Before(order, r, t)
<1>1. DOMAIN order = 1 .. Len(order) /\ Len(order) \in Nat
      /\ \A i \in 1 .. Len(order) : order[i] \in Clauses
  OBVIOUS
<1>2. ~Before(order, r, r)
  BY <1>1, PrecedesIsStrict DEF Before
<1>3. ASSUME Before(order, r, s), Before(order, s, t) PROVE Before(order, r, t)
  <2>1. PICK i \in 1 .. Len(order) :
           /\ Precedes(order[i], r, s)
           /\ \A m \in 1 .. i - 1 : Cell(order[m], r) = Cell(order[m], s)
    BY <1>1, <1>3 DEF Before
  <2>2. PICK j \in 1 .. Len(order) :
           /\ Precedes(order[j], s, t)
           /\ \A m \in 1 .. j - 1 : Cell(order[m], s) = Cell(order[m], t)
    BY <1>1, <1>3 DEF Before
  <2>3. CASE i < j
    <3>1. Precedes(order[i], r, t)
      <4>1. Cell(order[i], s) = Cell(order[i], t)
        BY <2>2, <2>3, <1>1
      <4>. QED
        BY <4>1, <2>1, <1>1, PrecedesIsStrict
    <3>2. \A m \in 1 .. i - 1 : Cell(order[m], r) = Cell(order[m], t)
      BY <2>1, <2>2, <2>3
    <3>. QED
      BY <3>1, <3>2, <1>1 DEF Before
  <2>4. CASE j < i
    <3>1. Precedes(order[j], r, t)
      <4>1. Cell(order[j], r) = Cell(order[j], s)
        BY <2>1, <2>4, <1>1
      <4>. QED
        BY <4>1, <2>2, <1>1, PrecedesIsStrict
    <3>2. \A m \in 1 .. j - 1 : Cell(order[m], r) = Cell(order[m], t)
      BY <2>1, <2>2, <2>4
    <3>. QED
      BY <3>1, <3>2, <1>1 DEF Before
  <2>5. CASE i = j
    <3>1. Precedes(order[i], r, t)
      BY <2>1, <2>2, <2>5, <1>1, PrecedesIsStrict
    <3>2. \A m \in 1 .. i - 1 : Cell(order[m], r) = Cell(order[m], t)
      BY <2>1, <2>2, <2>5
    <3>. QED
      BY <3>1, <3>2, <1>1 DEF Before
  <2>. QED
    BY <2>3, <2>4, <2>5
<1>. QED
  BY <1>2, <1>3

\* A row has its place in rows already sorted: before the first that is to come after it.
LEMMA SortedWithOneMore ==
    ASSUME NEW order \in Seq(Clauses), NEW rows \in FiniteRows, NEW s \in Sortings(order, rows),
           NEW x \in Row, x \notin rows
    PROVE  \E t : t \in Sortings(order, rows \cup {x})
<1>. DEFINE n == Cardinality(rows)
            P == {i \in 1 .. n + 1 : i = n + 1 \/ Before(order, x, s[i])}
<1>0. IsFiniteSet(rows) /\ rows \subseteq Row
  BY DEF FiniteRows
<1>1. /\ n \in Nat /\ s \in Seq(rows) /\ Len(s) = n /\ ToSet(s) = rows
      /\ \A i, j \in 1 .. n : i # j => s[i] # s[j]
  BY <1>0, SeqOfAll, FS_CardinalityType DEF Sortings
<1>2. Cardinality(rows \cup {x}) = n + 1
  BY <1>0, FS_AddElement
<1>. HIDE DEF n
<1>3. \A i, j \in 1 .. n : i < j => ~Before(order, s[j], s[i])
  BY <1>1 DEF Sortings
<1>4. PICK p \in P : \A i \in P : p <= i
  <2>1. P \in SUBSET Nat /\ n + 1 \in P
    BY <1>1
  <2>. HIDE DEF P
  <2>. QED
    BY <2>1, Least
<1>5. p \in 1 .. n + 1 /\ \A i \in 1 .. p - 1 : i \in 1 .. n /\ ~Before(order, x, s[i])
  BY <1>1, <1>4
<1>6. \A i \in p .. n : ~Before(order, s[i], x)
  <2>. SUFFICES ASSUME NEW i \in p .. n, Before(order, s[i], x) PROVE FALSE
    OBVIOUS
  <2>1. p \in 1 .. n /\ i \in 1 .. n /\ Before(order, x, s[p])
    BY <1>1, <1>4
  <2>2. s[i] \in Row /\ s[p] \in Row
    BY <2>1, <1>0, <1>1
  <2>3. Before(order, s[i], s[p])
    BY <2>1, <2>2, BeforeIsStrict
  <2>. QED
    BY <2>1, <2>2, <2>3, <1>3, BeforeIsStrict
<1>. HIDE DEF P
<1>. DEFINE t == [i \in 1 .. n + 1 |-> IF i < p THEN s[i] ELSE IF i = p THEN x ELSE s[i - 1]]
<1>7. /\ DOMAIN t = 1 .. n + 1
      /\ \A i \in 1 .. n + 1 : t[i] = IF i < p THEN s[i] ELSE IF i = p THEN x ELSE s[i - 1]
  OBVIOUS
<1>8. t \in [1 .. n + 1 -> rows \cup {x}]
  <2>1. \A i \in 1 .. n : s[i] \in rows
    BY <1>1
  <2>2. \A i \in 1 .. n + 1 : (i < p => i \in 1 .. n) /\ (~(i < p) /\ i # p => i - 1 \in 1 .. n)
    BY <1>1, <1>5
  <2>. QED
    BY <2>1, <2>2
<1>. HIDE DEF t
<1>9. \A i, j \in 1 .. n + 1 : i # j => t[i] # t[j]
  <2>1. \A i \in 1 .. n : s[i] # x
    BY <1>1
  <2>2. \A i \in 1 .. n + 1 : (i < p => i \in 1 .. n) /\ (~(i < p) /\ i # p => i - 1 \in 1 .. n)
    BY <1>1, <1>5
  <2>. QED
    BY <2>1, <2>2, <1>1, <1>5, <1>7
<1>10. \A i, j \in 1 .. n + 1 : i < j => ~Before(order, t[j], t[i])
  <2>. SUFFICES ASSUME NEW i \in 1 .. n + 1, NEW j \in 1 .. n + 1, i < j
                PROVE  ~Before(order, t[j], t[i])
    OBVIOUS
  <2>1. CASE j < p
    <3>1. t[i] = s[i] /\ t[j] = s[j] /\ i \in 1 .. n /\ j \in 1 .. n
      BY <2>1, <1>1, <1>5, <1>7
    <3>. QED
      BY <3>1, <1>3
  <2>2. CASE j = p
    <3>1. t[i] = s[i] /\ t[j] = x /\ i \in 1 .. p - 1
      BY <2>2, <1>1, <1>5, <1>7
    <3>. QED
      BY <3>1, <1>5
  <2>3. CASE p < j /\ i < p
    <3>1. t[i] = s[i] /\ t[j] = s[j - 1] /\ i \in 1 .. n /\ j - 1 \in 1 .. n
      BY <2>3, <1>1, <1>5, <1>7
    <3>2. i < j - 1
      BY <2>3, <1>1, <1>5
    <3>. QED
      BY <3>1, <3>2, <1>3
  <2>4. CASE p < j /\ i = p
    <3>1. t[i] = x /\ t[j] = s[j - 1] /\ j - 1 \in p .. n
      BY <2>4, <1>1, <1>5, <1>7
    <3>. QED
      BY <3>1, <1>6
  <2>5. CASE p < j /\ p < i
    <3>1. i - 1 \in 1 .. n /\ j - 1 \in 1 .. n /\ i - 1 < j - 1
      BY <2>5, <1>1, <1>5
    <3>2. t[i] = s[i - 1] /\ t[j] = s[j - 1]
      BY <2>5, <1>5, <1>7
    <3>. QED
      BY <3>1, <3>2, <1>3
  <2>. QED
    BY <2>1, <2>2, <2>3, <2>4, <2>5, <1>1, <1>5
<1>11. t \in SetToSeqs(rows \cup {x})
  BY <1>2, <1>8, <1>9 DEF SetToSeqs, IsInjective
<1>. QED
  BY <1>7, <1>10, <1>11 DEF Sortings

\* Rows can be sorted by any ordering.
LEMMA SortingExists ==
    ASSUME NEW order \in Seq(Clauses), NEW rows \in FiniteRows
    PROVE  \E s : s \in Sortings(order, rows)
<1>. DEFINE Sorted(R) == \E s : s \in Sortings(order, R)
            T == {n \in Nat : \E R \in FiniteRows : Cardinality(R) = n /\ ~Sorted(R)}
<1>1. ASSUME T # {} PROVE FALSE
  <2>1. PICK n \in T : \A m \in T : n <= m
    <3>1. T \in SUBSET Nat
      OBVIOUS
    <3>. HIDE DEF T
    <3>. QED
      BY <3>1, <1>1, Least
  <2>2. PICK R \in FiniteRows : Cardinality(R) = n /\ ~Sorted(R)
    BY <2>1
  <2>3. IsFiniteSet(R) /\ R \subseteq Row /\ n \in Nat
    BY <2>1, <2>2 DEF FiniteRows
  <2>4. CASE R = {}
    <3>1. Cardinality(R) = 0
      BY <2>4, FS_EmptySet
    <3>. DEFINE e == [i \in 1 .. 0 |-> 0]
    <3>2. e \in SetToSeqs(R) /\ DOMAIN e = {}
      BY <2>4, <3>1 DEF SetToSeqs, IsInjective
    <3>. HIDE DEF e
    <3>3. e \in Sortings(order, R)
      BY <3>2 DEF Sortings
    <3>. QED
      BY <3>3, <2>2
  <2>5. CASE R # {}
    <3>1. PICK x : x \in R
      BY <2>5
    <3>. DEFINE Q == R \ {x}
    <3>2. IsFiniteSet(Q) /\ Cardinality(Q) = n - 1 /\ Cardinality(Q) \in Nat
      BY <2>2, <2>3, <3>1, FS_RemoveElement, FS_CardinalityType
    <3>3. Q \in FiniteRows /\ x \notin Q /\ x \in Row /\ Q \cup {x} = R
      BY <2>3, <3>1, <3>2 DEF FiniteRows
    <3>. HIDE DEF Q
    <3>4. n - 1 \notin T
      BY <3>2, <2>1, <2>3
    <3>5. Sorted(Q)
      BY <3>2, <3>3, <3>4
    <3>6. Sorted(Q \cup {x})
      BY <3>3, <3>5, SortedWithOneMore
    <3>. QED
      BY <3>3, <3>6, <2>2
  <2>. QED
    BY <2>4, <2>5
<1>2. IsFiniteSet(rows) /\ Cardinality(rows) \in Nat
  BY FS_CardinalityType DEF FiniteRows
<1>3. Cardinality(rows) \notin T
  BY <1>1
<1>. QED
  BY <1>2, <1>3

\* How many of n rows a select leaves after its offset and under its limit.
From(select) == IF select.offset = None THEN 0 ELSE select.offset
Leaves(select, n) ==
    IF n <= From(select) THEN 0
    ELSE IF select.limit = None \/ n <= From(select) + select.limit THEN n - From(select)
    ELSE select.limit

WellCut(select) ==
    /\ select.limit = None \/ select.limit \in Nat \ {0}
    /\ select.offset = None \/ select.offset \in Nat
    /\ select.order \in Seq(Clauses)

\* What is cut out of sorted rows.
LEMMA CutLeaves ==
    ASSUME NEW select, WellCut(select), NEW R, NEW s \in Seq(R)
    PROVE  /\ Cut(select, s) \in Seq(R) /\ Len(Cut(select, s)) = Leaves(select, Len(s))
           /\ From(select) \in Nat
           /\ \A i \in 1 .. Len(Cut(select, s)) : Cut(select, s)[i] = s[From(select) + i]
<1>. DEFINE o == From(select)
            c == Cut(select, s)
            n == Len(s)
<1>1. o \in Nat /\ n \in Nat /\ (select.limit # None => select.limit \in Nat)
  BY DEF WellCut, From
<1>2. PICK to \in Nat : to = IF select.limit = None \/ n <= o + select.limit THEN n
                             ELSE o + select.limit
  BY <1>1
<1>3. c = SubSeq(s, o + 1, to)
  <2>1. CASE select.limit = None
    BY <2>1, <1>2 DEF Cut, From
  <2>2. CASE select.limit # None
    <3>1. Min({n, o + select.limit}) = to
      BY <2>2, <1>1, <1>2, MinOfTwo
    <3>2. c = SubSeq(s, o + 1, Min({n, o + select.limit}))
      BY <2>2 DEF Cut, From
    <3>. QED
      BY <3>1, <3>2
  <2>. QED
    BY <2>1, <2>2
<1>4. to <= n
  BY <1>1, <1>2
<1>. HIDE DEF o, c
<1>5. \A i \in o + 1 .. to : s[i] \in R
  BY <1>1, <1>2, <1>4
<1>6. /\ SubSeq(s, o + 1, to) \in Seq(R)
      /\ Len(SubSeq(s, o + 1, to)) = IF o + 1 <= to THEN to - (o + 1) + 1 ELSE 0
      /\ \A i \in 1 .. to - (o + 1) + 1 : SubSeq(s, o + 1, to)[i] = s[o + 1 + i - 1]
  <2>1. o + 1 \in Int /\ to \in Int
    BY <1>1, <1>2
  <2>. QED
    BY <2>1, <1>5, SubSeqProperties
<1>7. Len(c) = IF n <= o THEN 0
               ELSE IF select.limit = None \/ n <= o + select.limit THEN n - o ELSE select.limit
  BY <1>1, <1>2, <1>3, <1>6
<1>8. ASSUME NEW i \in 1 .. Len(c) PROVE c[i] = s[o + i]
  <2>1. i \in 1 .. to - (o + 1) + 1 /\ o + 1 + i - 1 = o + i
    BY <1>1, <1>2, <1>3, <1>6
  <2>. QED
    BY <2>1, <1>3, <1>6
<1>. QED
  BY <1>1, <1>3, <1>6, <1>7, <1>8 DEF Leaves, o, c

\* The rows a select is of, as many as it leaves of those it selects; there is an answer.
LEMMA AnswersLeave ==
    ASSUME NEW select, WellCut(select), NEW table \in FiniteTables
    PROVE  /\ Selected(select, table) \in FiniteRows
           /\ Cardinality(Selected(select, table)) \in Nat
           /\ \A s \in Sortings(select.order, Selected(select, table)) :
                /\ s \in Seq(Selected(select, table))
                /\ Len(s) = Cardinality(Selected(select, table))
                /\ ToSet(s) = Selected(select, table)
                /\ \A i, j \in 1 .. Len(s) : i # j => s[i] # s[j]
           /\ \E a : a \in Answers(select, table)
           /\ \A a \in Answers(select, table) :
                a \in Seq(table) /\ Len(a) = Leaves(select, Cardinality(Selected(select, table)))
<1>. DEFINE rows == Selected(select, table)
<1>1. rows \in SUBSET table /\ IsFiniteSet(table) /\ table \in SUBSET Row
  BY DEF Selected, FiniteTables, Tables
<1>2. IsFiniteSet(rows) /\ rows \in FiniteRows /\ Cardinality(rows) \in Nat
  <2>. HIDE DEF rows
  <2>. QED
    BY <1>1, FS_Subset, FS_CardinalityType DEF FiniteRows
<1>3. PICK s : s \in Sortings(select.order, rows)
  <2>. HIDE DEF rows
  <2>. QED
    BY <1>2, SortingExists DEF WellCut
<1>4. Cut(select, s) \in Answers(select, table)
  BY <1>3 DEF Answers
<1>5. \A t \in Sortings(select.order, rows) :
        /\ t \in Seq(rows) /\ Len(t) = Cardinality(rows) /\ ToSet(t) = rows
        /\ \A i, j \in 1 .. Len(t) : i # j => t[i] # t[j]
  <2>. HIDE DEF rows
  <2>. QED
    BY <1>2, SeqOfAll DEF Sortings
<1>6. ASSUME NEW a \in Answers(select, table)
      PROVE  a \in Seq(table) /\ Len(a) = Leaves(select, Cardinality(rows))
  <2>1. PICK t \in Sortings(select.order, rows) : a = Cut(select, t)
    BY DEF Answers
  <2>. HIDE DEF rows
  <2>2. t \in Seq(rows) /\ Len(t) = Cardinality(rows)
    BY <1>5
  <2>3. a \in Seq(rows) /\ Len(a) = Leaves(select, Cardinality(rows))
    BY <2>1, <2>2, CutLeaves
  <2>4. a \in Seq(table)
    BY <2>3, <1>1
  <2>. QED
    BY <2>3, <2>4
<1>. QED
  BY <1>2, <1>4, <1>5, <1>6

\* The select of a query is bounded, and so are those made of it.
LEMMA SelectsAreBounded ==
    ASSUME NEW q, Shaped(q)
    PROVE  /\ WellCut(Filtered(q)) /\ WellCut([Filtered(q) EXCEPT !.order = <<>>])
           /\ Filtered(q).limit = q.limit /\ Filtered(q).offset = q.offset
           /\ Filtered(q).order = q.order
<1>1. Shaped(Filtered(q))
  BY FilteredIs
<1>2. <<>> \in Seq(Clauses)
  OBVIOUS
<1>. QED
  BY <1>1, <1>2, FilteredIs, LimitsAssumption DEF Shaped, WellCut

\* How many rows is one number, the length of every answer; and there is an answer.
LEMMA CountsAre ==
    ASSUME NEW q, Shaped(q), ~q.raw, NEW table \in FiniteTables
    PROVE  \E n \in Nat : /\ Counts(q, table) = {n}
                          /\ {Len(s) : s \in All(q, table)} = {n}
                          /\ \A s \in All(q, table) : s \in Seq(table) /\ Len(s) = n
                          /\ n = Leaves(Filtered(q), Cardinality(Selected(Filtered(q), table)))
<1>. DEFINE f == Filtered(q)
            g == [f EXCEPT !.order = <<>>]
            n == Leaves(f, Cardinality(Selected(f, table)))
<1>1. WellCut(f) /\ WellCut(g)
  BY SelectsAreBounded
<1>2. All(q, table) = Answers(f, table) /\ Counts(q, table) = {Len(s) : s \in Answers(g, table)}
  BY DEF All, Counts, RejectsStatement
<1>3. Shaped(f)
  BY FilteredIs
<1>. HIDE DEF f
<1>4. g.where = f.where /\ g.having = f.having /\ g.joined = f.joined
      /\ g.limit = f.limit /\ g.offset = f.offset
  BY <1>3 DEF Shaped
<1>. HIDE DEF g
<1>5. Selected(g, table) = Selected(f, table)
  BY <1>4 DEF Selected
<1>6. Leaves(g, Cardinality(Selected(g, table))) = n
  BY <1>4, <1>5 DEF Leaves, From
<1>. HIDE DEF n
<1>7. /\ \E a : a \in Answers(f, table)
      /\ \A a \in Answers(f, table) : a \in Seq(table) /\ Len(a) = n
  BY <1>1, AnswersLeave DEF n
<1>8. /\ \E a : a \in Answers(g, table)
      /\ \A a \in Answers(g, table) : a \in Seq(table) /\ Len(a) = n
  BY <1>1, <1>6, AnswersLeave
<1>9. n \in Nat
  BY <1>7
<1>10. {Len(s) : s \in Answers(g, table)} = {n} /\ {Len(s) : s \in Answers(f, table)} = {n}
  BY <1>7, <1>8
<1>. QED
  BY <1>2, <1>7, <1>9, <1>10 DEF n, f

\* The first of what is read.
FirstOf(s) == SubSeq(s, 1, Min({1, Len(s)}))

LEMMA HeadIs ==
    ASSUME NEW R, NEW s \in Seq(R)
    PROVE  FirstOf(s) = IF Len(s) = 0 THEN <<>> ELSE <<s[1]>>
<1>1. Min({1, Len(s)}) = IF Len(s) = 0 THEN 0 ELSE 1
  BY MinOfTwo
<1>2. CASE Len(s) = 0
  <2>1. FirstOf(s) = SubSeq(s, 1, 0)
    BY <1>1, <1>2 DEF FirstOf
  <2>. QED
    BY <2>1, <1>2
<1>3. CASE Len(s) # 0
  <2>1. FirstOf(s) = SubSeq(s, 1, 1)
    BY <1>1, <1>3 DEF FirstOf
  <2>. DEFINE h == SubSeq(s, 1, 1)
              t == <<s[1]>>
  <2>2. h \in Seq(R) /\ Len(h) = 1 /\ h[1] = s[1]
    BY <1>3
  <2>3. t \in Seq(R) /\ Len(t) = 1 /\ t[1] = s[1]
    BY <1>3
  <2>. HIDE DEF h, t
  <2>4. h = t
    BY <2>2, <2>3, SeqEqual
  <2>. QED
    BY <2>1, <2>4, <1>3 DEF h, t
<1>. QED
  BY <1>2, <1>3

\* A limit of one leaves the first of what there is, or nothing where there is nothing.
LEMMA OneOfThem ==
    ASSUME NEW f, WellCut(f), NEW g, WellCut(g), g.limit = 1, g.offset = f.offset,
           NEW R, NEW s \in Seq(R)
    PROVE  /\ FirstOf(Cut(g, s)) = FirstOf(Cut(f, s))
           /\ Leaves(g, Len(s)) > 0 <=> Leaves(f, Len(s)) > 0
<1>. DEFINE a == Cut(g, s)
            b == Cut(f, s)
<1>1. From(g) = From(f) /\ From(f) \in Nat /\ Len(s) \in Nat
  BY DEF From, WellCut
<1>2. Leaves(g, Len(s)) = IF Len(s) <= From(f) THEN 0 ELSE 1
  BY <1>1 DEF Leaves, None
<1>3. IF Len(s) <= From(f) THEN Leaves(f, Len(s)) = 0 ELSE Leaves(f, Len(s)) \in Nat \ {0}
  BY <1>1 DEF Leaves, WellCut
<1>4. /\ a \in Seq(R) /\ Len(a) = Leaves(g, Len(s))
      /\ \A i \in 1 .. Len(a) : a[i] = s[From(f) + i]
      /\ b \in Seq(R) /\ Len(b) = Leaves(f, Len(s))
      /\ \A i \in 1 .. Len(b) : b[i] = s[From(f) + i]
  BY <1>1, CutLeaves
<1>. HIDE DEF a, b
<1>5. FirstOf(a) = FirstOf(b)
  <2>1. CASE Len(s) <= From(f)
    BY <2>1, <1>2, <1>3, <1>4, HeadIs
  <2>2. CASE ~(Len(s) <= From(f))
    <3>1. 1 \in 1 .. Len(a) /\ 1 \in 1 .. Len(b) /\ Len(a) # 0 /\ Len(b) # 0
      BY <2>2, <1>2, <1>3, <1>4
    <3>2. a[1] = b[1]
      BY <3>1, <1>4
    <3>3. FirstOf(a) = <<a[1]>> /\ FirstOf(b) = <<b[1]>>
      BY <3>1, <1>4, HeadIs
    <3>. QED
      BY <3>2, <3>3
  <2>. QED
    BY <2>1, <2>2
<1>. QED
  BY <1>2, <1>3, <1>5 DEF a, b

\* What first() reads is the first of what all() does.
LEMMA FirstIs ==
    ASSUME NEW q, Shaped(q), NEW table \in FiniteTables
    PROVE  First(q, table) = {FirstOf(s) : s \in All(q, table)}
<1>1. CASE q.raw
  BY <1>1 DEF First, FirstOf
<1>2. CASE ~q.raw
  <2>. DEFINE l == [q EXCEPT !.limit = 1]
              f == Filtered(q)
              g == Filtered(l)
              rows == Selected(f, table)
  <2>1. First(q, table) = {FirstOf(s) : s \in All(l, table)}
    BY <1>2 DEF First, FirstOf
  <2>2. All(l, table) = Answers(g, table) /\ All(q, table) = Answers(f, table)
    <3>1. l.raw = q.raw
      BY DEF Shaped
    <3>. QED
      BY <3>1, <1>2 DEF All
  <2>3. g = [f EXCEPT !.limit = 1]
    <3>1. /\ l.where = q.where /\ l.filtered = q.filtered /\ l.deleted = q.deleted
          /\ l.having = q.having /\ l.joined = q.joined /\ l.order = q.order
          /\ l.offset = q.offset /\ l.raw = q.raw /\ l.limit = 1
      BY DEF Shaped
    <3>2. PICK where :
            where = (q.where \cup (IF q.filtered THEN {AdmittedRows} ELSE {})
                             \cup (CASE q.deleted = "hidden" -> {Unmarked}
                                     [] q.deleted = "only" -> {Marked}
                                     [] q.deleted = "included" -> {}))
      OBVIOUS
    <3>3. f = [q EXCEPT !.where = where] /\ g = [l EXCEPT !.where = where]
      BY <3>1, <3>2 DEF Filtered
    <3>. HIDE DEF f, g
    <3>. QED
      BY <3>3 DEF Shaped
  <2>4. WellCut(f) /\ Shaped(f)
    BY SelectsAreBounded, FilteredIs
  <2>. HIDE DEF f, g
  <2>5. /\ g.limit = 1 /\ g.offset = f.offset /\ g.order = f.order
        /\ g.where = f.where /\ g.having = f.having /\ g.joined = f.joined
    BY <2>3, <2>4 DEF Shaped
  <2>6. WellCut(g)
    BY <2>4, <2>5 DEF WellCut
  <2>7. Selected(g, table) = rows
    BY <2>5 DEF Selected
  <2>8. \A s \in Sortings(f.order, rows) : s \in Seq(rows)
    BY <2>4, AnswersLeave
  <2>. HIDE DEF rows
  <2>9. \A s \in Sortings(f.order, rows) : FirstOf(Cut(g, s)) = FirstOf(Cut(f, s))
    BY <2>4, <2>5, <2>6, <2>8, OneOfThem
  <2>10. Answers(g, table) = {Cut(g, s) : s \in Sortings(f.order, rows)}
         /\ Answers(f, table) = {Cut(f, s) : s \in Sortings(f.order, rows)}
    BY <2>5, <2>7 DEF Answers, rows
  <2>11. {FirstOf(a) : a \in Answers(g, table)} = {FirstOf(a) : a \in Answers(f, table)}
    BY <2>9, <2>10
  <2>. QED
    BY <2>1, <2>2, <2>11
<1>. QED
  BY <1>1, <1>2

\* There is a row where there are rows to count.
LEMMA ExistsIs ==
    ASSUME NEW q, Shaped(q), ~q.raw, NEW table \in FiniteTables
    PROVE  Exists(q, table) = {n > 0 : n \in Counts(q, table)}
<1>. DEFINE f == Filtered(q)
            g == [f EXCEPT !.order = <<>>, !.limit = 1]
            h == [f EXCEPT !.order = <<>>]
            rows == Selected(f, table)
<1>1. WellCut(f) /\ WellCut(h) /\ Shaped(f)
  BY SelectsAreBounded, FilteredIs
<1>2. Exists(q, table) = {s # <<>> : s \in Answers(g, table)}
  BY DEF Exists, RejectsStatement
<1>. HIDE DEF f
<1>3. /\ g.limit = 1 /\ g.offset = f.offset /\ g.order = <<>>
      /\ g.where = f.where /\ g.having = f.having /\ g.joined = f.joined
  <2>1. g = [h EXCEPT !.limit = 1]
    OBVIOUS
  <2>2. h = [where |-> f.where, having |-> f.having, joined |-> f.joined, order |-> <<>>,
             limit |-> f.limit, offset |-> f.offset, raw |-> f.raw, filtered |-> f.filtered,
             deleted |-> f.deleted]
    BY <1>1 DEF Shaped
  <2>. QED
    BY <2>1, <2>2
<1>. HIDE DEF g, h
<1>4. WellCut(g)
  BY <1>1, <1>3 DEF WellCut
<1>5. Selected(g, table) = rows
  BY <1>3 DEF Selected
<1>6. PICK s \in Sortings(f.order, rows) : s \in Seq(rows) /\ Len(s) = Cardinality(rows)
  <2>1. \E s : s \in Sortings(f.order, rows)
    <3>. HIDE DEF rows
    <3>1. rows \in FiniteRows
      BY <1>1, AnswersLeave DEF rows
    <3>. QED
      BY <3>1, <1>1, SortingExists DEF WellCut
  <2>. QED
    BY <2>1, <1>1, AnswersLeave
<1>. HIDE DEF rows
<1>7. Leaves(g, Len(s)) > 0 <=> Leaves(f, Len(s)) > 0
  BY <1>1, <1>3, <1>4, <1>6, OneOfThem
<1>8. PICK n \in Nat : Counts(q, table) = {n} /\ n = Leaves(f, Len(s))
  BY <1>6, CountsAre DEF f, rows
<1>9. /\ \E a : a \in Answers(g, table)
      /\ \A a \in Answers(g, table) : a \in Seq(table) /\ Len(a) = Leaves(g, Len(s))
  BY <1>4, <1>5, <1>6, AnswersLeave
<1>10. \A a \in Answers(g, table) : a # <<>> <=> n > 0
  BY <1>7, <1>8, <1>9
<1>11. {a # <<>> : a \in Answers(g, table)} = {n > 0}
  BY <1>9, <1>10
<1>. QED
  BY <1>2, <1>8, <1>11

\* one() finds a row where there is one to count.
LEMMA OneIs ==
    ASSUME NEW q, Shaped(q), ~q.raw, NEW table \in FiniteTables
    PROVE  One(q, table) # {} <=> Counts(q, table) = {1}
<1>1. PICK n \in Nat : /\ Counts(q, table) = {n}
                       /\ {Len(s) : s \in All(q, table)} = {n}
  BY CountsAre
<1>2. One(q, table) # {} <=> n = 1
  BY <1>1 DEF One
<1>. QED
  BY <1>1, <1>2

\* in_bulk() holds the rows of an answer, each under its key.
LEMMA InBulkIs ==
    ASSUME NEW q, Shaped(q), ~q.raw, NEW table \in FiniteTables, NEW k \in InBulk(q, table, "id")
    PROVE  \E s \in All(q, table) : {k[id] : id \in DOMAIN k} = ToSet(s)
<1>0. PICK o \in Options(q) :
         k \in {Keyed(s, "id") : s \in {a \in All(o, table) : ~DuplicateKey(a, "id")}}
  BY DEF InBulk
<1>1. PICK s \in All(o, table) : k = Keyed(s, "id")
  BY <1>0
<1>2. o = q
  BY <1>0 DEF Options, WithSelect
<1>3. s \in Seq(table)
  BY <1>1, <1>2, CountsAre
<1>4. ToSet(s) \subseteq table
  BY <1>3 DEF ToSet
<1>. DEFINE rows == ToSet(s)
<1>5. \A a, b \in rows : a["id"] = b["id"] => a = b
  BY <1>4 DEF FiniteTables, Tables
<1>6. k = [i \in {r["id"] : r \in rows} |-> CHOOSE r \in rows : r["id"] = i]
  BY <1>1 DEF Keyed
<1>. HIDE DEF rows
<1>7. \A r \in rows : k[r["id"]] = r
  <2>. SUFFICES ASSUME NEW r \in rows PROVE k[r["id"]] = r
    OBVIOUS
  <2>1. k[r["id"]] = CHOOSE a \in rows : a["id"] = r["id"]
    BY <1>6
  <2>2. \A a \in rows : a["id"] = r["id"] => a = r
    BY <1>5
  <2>. QED
    BY <2>1, <2>2
<1>8. DOMAIN k = {r["id"] : r \in rows}
  BY <1>6
<1>9. {k[id] : id \in DOMAIN k} = rows
  BY <1>7, <1>8
<1>. QED
  BY <1>1, <1>2, <1>9 DEF rows

\* What a query reads that nothing cuts is what it selects.
LEMMA RowsOfUncut ==
    ASSUME NEW q, Shaped(q), ~q.raw, q.limit = None, q.offset = None, NEW table \in FiniteTables
    PROVE  RowsOf(q, table) = Selected(Filtered(q), table)
<1>. DEFINE f == Filtered(q)
            rows == Selected(f, table)
<1>1. WellCut(f) /\ f.limit = None /\ f.offset = None
  BY SelectsAreBounded
<1>2. All(q, table) = Answers(f, table)
  BY DEF All
<1>. HIDE DEF f
<1>3. \A s \in Sortings(f.order, rows) : s \in Seq(rows) /\ ToSet(s) = rows
  BY <1>1, AnswersLeave
<1>4. \E s : s \in Sortings(f.order, rows)
  <2>1. rows \in FiniteRows
    BY <1>1, AnswersLeave
  <2>. HIDE DEF rows
  <2>. QED
    BY <2>1, <1>1, SortingExists DEF WellCut
<1>5. Answers(f, table) = {Cut(f, s) : s \in Sortings(f.order, rows)}
  BY DEF Answers
<1>. HIDE DEF rows
<1>6. \A s \in Sortings(f.order, rows) : Cut(f, s) = s
  BY <1>1, <1>3, Uncut
<1>. QED
  BY <1>2, <1>3, <1>4, <1>5, <1>6 DEF RowsOf, rows, f

\* get() reads the row with the key, of those the query reads.
LEMMA GetIs ==
    ASSUME NEW q, Shaped(q), ~LookupRefused(q), q.having = {}, NEW table \in FiniteTables, NEW id \in Id
    PROVE  Get(q, id, table) = {r \in RowsOf(q, table) : r.id = id}
<1>. DEFINE f == Filtered(q)
            g == [f EXCEPT !.where = @ \cup {WithKey(id)}]
<1>1. ~q.raw /\ q.where = {} /\ q.limit = None /\ q.offset = None /\ q.joined = ""
  BY DEF LookupRefused, RejectsStatement, Carries
<1>2. RowsOf(q, table) = Selected(f, table)
  BY <1>1, RowsOfUncut
<1>3. Shaped(f) /\ f.joined = "" /\ f.having = {}
  BY <1>1, FilteredIs
<1>4. table \subseteq Row
  BY DEF FiniteTables, Tables
<1>5. CASE LooksUpByKey(q)
  <2>1. Get(q, id, table) = table \cap WithKey(id)
    BY <1>5 DEF Get
  <2>2. f.where = {}
    <3>1. q.filtered = FALSE /\ q.deleted = "included"
      BY <1>5 DEF LooksUpByKey, Shaped
    <3>2. (CASE q.deleted = "hidden" -> {Unmarked}
             [] q.deleted = "only" -> {Marked}
             [] q.deleted = "included" -> {}) = {}
      BY <3>1
    <3>3. f = [q EXCEPT !.where = q.where \cup {} \cup {}]
      BY <1>5, <3>2 DEF Filtered, LooksUpByKey
    <3>. HIDE DEF f
    <3>. QED
      BY <3>3, <1>1 DEF Shaped
  <2>. HIDE DEF f
  <2>3. Selected(f, table) = table
    BY <2>2, <1>3 DEF Selected, Admits
  <2>. QED
    BY <2>1, <2>3, <1>2, <1>4 DEF WithKey
<1>6. CASE ~LooksUpByKey(q)
  <2>1. Get(q, id, table) = Selected(g, table)
    BY <1>6 DEF Get
  <2>. HIDE DEF f
  <2>2. g.where = f.where \cup {WithKey(id)} /\ g.having = f.having /\ g.joined = f.joined
    BY <1>3 DEF Shaped
  <2>. HIDE DEF g
  <2>3. \A r \in table : Admits(g.where \cup g.having, r) <=> Admits(f.where \cup f.having, r) /\ r.id = id
    BY <2>2, <1>4 DEF Admits, WithKey
  <2>4. Selected(g, table) = {r \in Selected(f, table) : r.id = id}
    BY <2>2, <2>3 DEF Selected
  <2>. QED
    BY <2>1, <2>4, <1>2
<1>. QED
  BY <1>5, <1>6

\* Sequences of one.
LEMMA OneLong ==
    ASSUME NEW a
    PROVE  /\ <<a>> \in Seq({a}) /\ Len(<<a>>) = 1 /\ DOMAIN <<a>> = {1}
           /\ <<a>>[1] = a /\ <<a>> # <<>>
OBVIOUS

LEMMA IsOneLong ==
    ASSUME NEW a, NEW n, n = 1, NEW s, s = [i \in {n} |-> a]
    PROVE  s = <<a>>
<1>1. s = [i \in 1 .. 1 |-> a]
  OBVIOUS
<1>. QED
  BY <1>1

LEMMA NothingBefore ==
    ASSUME NEW a, NEW s, s = <<a>>
    PROVE  <<>> \o s = s
OBVIOUS

\* The key, by its name: one clause, and nothing to join.
LEMMA OrderedByKey ==
    ASSUME NEW q, Shaped(q), q.order = <<>>, NEW down \in BOOLEAN,
           NEW l \in Ordered(q, <<Directed("id", down)>>, {}, "")
    PROVE  /\ ~q.raw
           /\ l = [q EXCEPT !.order =
                     <<[column |-> Key, folded |-> FALSE, descending |-> down, nulls |-> ""]>>]
<1>. DEFINE one == Directed("id", down)
            criteria == <<one>>
            none == {FieldNamed(x) : x \in {}}
            clause == [column |-> Key, folded |-> FALSE, descending |-> down, nulls |-> ""]
            clauses == [i \in DOMAIN criteria |-> Clause(criteria[i], none, "")]
            joins == JoinsFor(criteria)
<1>1. FieldNamed("id") = "id"
  <2>1. FieldsNamed("id") = {"id"}
    BY OfferedAssumption DEF FieldsNamed
  <2>. QED
    BY <2>1 DEF FieldNamed
<1>2. one.asked = "id" /\ one.descending = down /\ one.nulls = ""
  BY DEF Directed
<1>3. Clause(one, none, "") = clause
  <2>1. Offered["id"].column = Key /\ Key # Text
    BY OfferedAssumption DEF Key, Text
  <2>. HIDE DEF one, none
  <2>. QED
    BY <1>1, <1>2, <2>1 DEF Clause
<1>. HIDE DEF one, none, clause
<1>4. DOMAIN criteria = {1} /\ criteria[1] = one /\ criteria # <<>>
  BY OneLong
<1>5. l \in Ordered(q, criteria, {}, "")
  BY DEF one
<1>. HIDE DEF criteria
<1>7. DOMAIN joins = {}
  <2>1. DOMAIN joins = {i \in DOMAIN criteria : Offered[FieldNamed(criteria[i].asked)].join # ""}
    BY DEF JoinsFor
  <2>2. Offered[FieldNamed(criteria[1].asked)].join = ""
    BY <1>1, <1>2, <1>4, OfferedAssumption
  <2>. QED
    BY <2>1, <2>2, <1>4
<1>8. clauses = [i \in {1} |-> clause]
  BY <1>3, <1>4
<1>9. clauses = <<clause>>
  <2>. HIDE DEF clauses
  <2>. QED
    BY <1>8, IsOneLong
<1>. HIDE DEF joins
<1>10. l \in WithSelect(q, [q EXCEPT !.order = q.order \o clauses, !.joined = q.joined])
  BY <1>4, <1>5, <1>7 DEF Ordered, joins, none
<1>. HIDE DEF clauses
<1>11. ~q.raw /\ l = [q EXCEPT !.order = q.order \o clauses, !.joined = q.joined]
  BY <1>10 DEF WithSelect, RejectsStatement
<1>12. q.order \o clauses = clauses
  BY <1>9, NothingBefore
<1>13. [q EXCEPT !.order = clauses, !.joined = q.joined] = [q EXCEPT !.order = clauses]
  BY DEF Shaped
<1>. QED
  BY <1>9, <1>11, <1>12, <1>13 DEF clause

\* The extreme of what a query reads: no row of it comes before by the key.
LEMMA FirstByKey ==
    ASSUME NEW q, Shaped(q), ~q.raw, q.limit = None, q.offset = None, NEW table \in FiniteTables,
           NEW clause \in Clauses, clause.column = Key,
           NEW l, l = [q EXCEPT !.order = <<clause>>], NEW s \in First(l, table),
           NEW r \in RowsOf(q, table)
    PROVE  s[1] \in Row /\ r \in Row /\ ~Precedes(clause, r, s[1])
<1>. DEFINE f == Filtered(q)
            g == Filtered(l)
            rows == Selected(f, table)
<1>1. /\ Shaped(l) /\ l.order = <<clause>> /\ ~l.raw /\ l.limit = None /\ l.offset = None
      /\ l.where = q.where /\ l.filtered = q.filtered /\ l.deleted = q.deleted
      /\ l.having = q.having /\ l.joined = q.joined
  <2>1. <<clause>> \in Seq(Clauses)
    OBVIOUS
  <2>. DEFINE order == <<clause>>
  <2>. HIDE DEF order
  <2>2. l = [where |-> q.where, having |-> q.having, joined |-> q.joined, order |-> order,
             limit |-> q.limit, offset |-> q.offset, raw |-> q.raw, filtered |-> q.filtered,
             deleted |-> q.deleted]
    BY DEF Shaped, order
  <2>3. order \in Seq(Clauses)
    BY <2>1 DEF order
  <2>4. Shaped(l) /\ l.order = order /\ ~l.raw /\ l.limit = None /\ l.offset = None
        /\ l.where = q.where /\ l.filtered = q.filtered /\ l.deleted = q.deleted
        /\ l.having = q.having /\ l.joined = q.joined
    BY <2>2, <2>3 DEF Shaped
  <2>. QED
    BY <2>4 DEF order
<1>2. g.where = f.where /\ g.having = f.having /\ g.joined = f.joined /\ g.order = <<clause>>
      /\ Shaped(g) /\ Shaped(f) /\ g.limit = None /\ g.offset = None /\ WellCut(g)
  <2>1. PICK where :
          where = (q.where \cup (IF q.filtered THEN {AdmittedRows} ELSE {})
                           \cup (CASE q.deleted = "hidden" -> {Unmarked}
                                   [] q.deleted = "only" -> {Marked}
                                   [] q.deleted = "included" -> {}))
    OBVIOUS
  <2>2. f = [q EXCEPT !.where = where] /\ g = [l EXCEPT !.where = where]
    BY <1>1, <2>1 DEF Filtered
  <2>3. /\ Shaped(f) /\ Shaped(g) /\ WellCut(g) /\ g.having = l.having /\ g.joined = l.joined
        /\ f.having = q.having /\ f.joined = q.joined
        /\ g.order = l.order /\ g.limit = l.limit /\ g.offset = l.offset
    BY <1>1, FilteredIs, SelectsAreBounded
  <2>. HIDE DEF f, g
  <2>4. f.where = where /\ g.where = where
    BY <1>1, <2>2 DEF Shaped
  <2>. QED
    BY <1>1, <2>3, <2>4
<1>3. RowsOf(q, table) = rows
  BY RowsOfUncut
<1>4. PICK a \in All(l, table) : s = FirstOf(a)
  BY <1>1, FirstIs
<1>5. a \in Answers(g, table)
  BY <1>1 DEF All
<1>. HIDE DEF f, g
<1>6. Selected(g, table) = rows
  BY <1>2 DEF Selected
<1>7. PICK t \in Sortings(<<clause>>, rows) : a = Cut(g, t)
  BY <1>2, <1>5, <1>6 DEF Answers
<1>8. t \in Seq(rows) /\ ToSet(t) = rows
  BY <1>2, <1>6, <1>7, AnswersLeave
<1>9. rows \subseteq Row
  BY DEF Selected, FiniteTables, Tables
<1>10. r \in rows
  BY <1>3
<1>. HIDE DEF rows
<1>11. a = t
  BY <1>2, <1>7, <1>8, Uncut
<1>12. PICK i \in 1 .. Len(t) : t[i] = r
  BY <1>8, <1>10 DEF ToSet
<1>13. Len(t) # 0 /\ 1 \in 1 .. Len(t)
  BY <1>8, <1>12
<1>14. s = <<t[1]>>
  BY <1>4, <1>8, <1>11, <1>13, HeadIs
<1>15. s[1] = t[1] /\ t[1] \in Row /\ r \in Row
  BY <1>8, <1>9, <1>10, <1>13, <1>14
<1>16. ~Precedes(clause, r, t[1])
  <2>1. CASE i = 1
    BY <2>1, <1>12, <1>15, PrecedesIsStrict
  <2>2. CASE i # 1
    <3>1. ~Before(<<clause>>, t[i], t[1])
      <4>1. 1 < i /\ DOMAIN t = 1 .. Len(t)
        BY <2>2, <1>8, <1>12
      <4>. QED
        BY <4>1, <1>7, <1>12, <1>13 DEF Sortings
    <3>2. DOMAIN <<clause>> = 1 .. 1 /\ <<clause>>[1] = clause
      OBVIOUS
    <3>. DEFINE order == <<clause>>
    <3>3. ~Before(order, t[i], t[1]) /\ 1 \in DOMAIN order /\ order[1] = clause
      BY <3>1, <3>2
    <3>. HIDE DEF order
    <3>4. ~Precedes(order[1], t[i], t[1])
      BY <3>3 DEF Before
    <3>. QED
      BY <3>3, <3>4, <1>12
  <2>. QED
    BY <2>1, <2>2
<1>. QED
  BY <1>15, <1>16

\* latest() and earliest() read the extremes of a query by its key.
LEMMA ExtremesAre ==
    ASSUME NEW q, Shaped(q), q.order = <<>>, q.limit = None, q.offset = None, ~q.raw,
           NEW table \in FiniteTables, NEW r \in RowsOf(q, table)
    PROVE  /\ \A s \in Latest(q, "id", table) : r.id <= s[1].id
           /\ \A s \in Earliest(q, "id", table) : r.id >= s[1].id
<1>. DEFINE By(down) == [column |-> Key, folded |-> FALSE, descending |-> down, nulls |-> ""]
<1>1. \A down \in BOOLEAN :
        By(down) \in Clauses /\ By(down).column = Key /\ By(down).descending = down
  BY DEF Clauses, Placed
<1>2. ASSUME NEW down \in BOOLEAN, NEW s,
             s \in UNION {First(l, table) : l \in Ordered(q, <<Directed("id", down)>>, {}, "")}
      PROVE  s[1] \in Row /\ r \in Row /\ ~Precedes(By(down), r, s[1])
  <2>1. PICK l \in Ordered(q, <<Directed("id", down)>>, {}, "") : s \in First(l, table)
    BY <1>2
  <2>2. l = [q EXCEPT !.order = <<By(down)>>]
    BY <2>1, OrderedByKey
  <2>3. By(down) \in Clauses /\ By(down).column = Key
    BY <1>1
  <2>. HIDE DEF By
  <2>. QED
    BY <2>1, <2>2, <2>3, FirstByKey
<1>3. ASSUME NEW down \in BOOLEAN, NEW t \in Row, r \in Row, ~Precedes(By(down), r, t)
      PROVE  IF down THEN r.id <= t.id ELSE r.id >= t.id
  <2>. DEFINE c == By(down)
  <2>1. c \in Clauses /\ c.column = Key /\ c.descending = down
    BY <1>1
  <2>. HIDE DEF By, c
  <2>2. Cell(c, r) = r.id /\ Cell(c, t) = t.id
    BY <1>3, <2>1, CellIs
  <2>3. r.id \in Nat \ {0} /\ t.id \in Nat \ {0}
    BY <1>3, IdAssumption DEF Row
  <2>4. Precedes(c, r, t) <=> IF c.descending THEN r.id > t.id ELSE r.id < t.id
    BY <2>2, <2>3, PrecedesIs
  <2>5. ~Precedes(c, r, t)
    BY <1>3 DEF c
  <2>. QED
    BY <2>1, <2>3, <2>4, <2>5
<1>. HIDE DEF By
<1>4. \A s \in Latest(q, "id", table) : r.id <= s[1].id
  BY <1>2, <1>3 DEF Latest
<1>5. \A s \in Earliest(q, "id", table) : r.id >= s[1].id
  BY <1>2, <1>3 DEF Earliest
<1>. QED
  BY <1>4, <1>5

\* The reads of a query agree.
LEMMA ReadsOfOne ==
    ASSUME NEW q, Shaped(q), NEW table \in FiniteTables
    PROVE  ReadsOf(q, table)
<1>1. {<<>>} \cup First(q, table) = {<<>>} \cup {SubSeq(s, 1, Min({1, Len(s)})) : s \in All(q, table)}
  BY FirstIs DEF FirstOf
<1>2. ASSUME ~q.raw
      PROVE  /\ Counts(q, table) = {Len(s) : s \in All(q, table)}
             /\ Columns(q, table) = {[i \in DOMAIN s |-> s[i].value] : s \in All(q, table)}
             /\ Exists(q, table) = {n > 0 : n \in Counts(q, table)}
             /\ \A k \in InBulk(q, table, "id") :
                  \E s \in All(q, table) : {k[id] : id \in DOMAIN k} = ToSet(s)
             /\ One(q, table) # {} <=> Counts(q, table) = {1}
  <2>1. Counts(q, table) = {Len(s) : s \in All(q, table)}
    BY <1>2, CountsAre
  <2>2. Columns(q, table) = {[i \in DOMAIN s |-> s[i].value] : s \in All(q, table)}
    BY <1>2 DEF Columns, RejectsStatement, All
  <2>3. Exists(q, table) = {n > 0 : n \in Counts(q, table)}
    BY <1>2, ExistsIs
  <2>4. \A k \in InBulk(q, table, "id") :
           \E s \in All(q, table) : {k[id] : id \in DOMAIN k} = ToSet(s)
    BY <1>2, InBulkIs
  <2>5. One(q, table) # {} <=> Counts(q, table) = {1}
    BY <1>2, OneIs
  <2>. QED
    BY <2>1, <2>2, <2>3, <2>4, <2>5
<1>3. ASSUME ~LookupRefused(q), q.having = {}, NEW id \in Id
      PROVE  Get(q, id, table) = {r \in RowsOf(q, table) : r.id = id}
  BY <1>3, GetIs
<1>4. ASSUME ~q.raw, q.order = <<>>, q.offset = None, q.limit = None
      PROVE  /\ \A s \in Latest(q, "id", table), r \in RowsOf(q, table) : r.id <= s[1].id
             /\ \A s \in Earliest(q, "id", table), r \in RowsOf(q, table) : r.id >= s[1].id
  BY <1>4, ExtremesAre
<1>. QED
  BY <1>1, <1>2, <1>3, <1>4 DEF ReadsOf

\* Whatever reads a query reads the same rows of it: in every table the writes make, all()
\* and its first and only row, counts, lookups by key and extremes agree (Query).
THEOREM ReadsAreOfTheSameRows == Spec => []ReadsAgree
<1>1. Inv /\ [Next]_vars => Inv'
  BY NextKeeps, StutterKeeps
<1>2. Inv => ReadsAgree
  <2>. SUFFICES ASSUME Inv PROVE ReadsAgree
    OBVIOUS
  <2>1. connection.rows \in FiniteTables /\ connection.rows \in Tables
    BY DEF Inv, Typed, FiniteTables
  <2>2. \A q \in Queries : ReadsOf(q, connection.rows)
    BY <2>1, QueriesAreShaped, ReadsOfOne
  <2>. QED
    BY <2>1, <2>2 DEF ReadsAgree, TableReads
<1>. QED
  BY <1>1, <1>2, InitInv, PTL DEF Spec
==============================================================================
