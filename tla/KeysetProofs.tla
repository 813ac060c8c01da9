----------------------------- MODULE KeysetProofs -----------------------------
(***************************************************************************)
(* Proofs about Keyset, for every table, ordering, limit and number of      *)
(* changes: a walk that ends has shown every row that stayed, and none      *)
(* twice, and the way back shows the page before.  The argument has three   *)
(* parts: the order of a query that ends in the key is total on a table,    *)
(* and a seek from a row with no NULL finds what comes after it; a walk has *)
(* shown what its cursor has behind it; and a page is the first rows the    *)
(* other way too, from the row its cursor is at.                            *)
(***************************************************************************)
EXTENDS Keyset, FiniteSetTheorems, WellFoundedInduction, TLAPS

------------------------------------------------------------------------------
(* The order. *)

\* A nonempty set of naturals has a least element.
LEMMA LeastNatural ==
    ASSUME NEW T, T \subseteq Nat, T # {}
    PROVE  \E m \in T : \A n \in T : m <= n
<1>1. PICK m \in T : \A n \in T : ~(<<n, m>> \in OpToRel(<, Nat))
  BY WFMin, NatLessThanWellFounded
<1>2. \A n \in T : ~(n < m)
  BY <1>1, Zenon DEF OpToRel
<1>. QED
  BY <1>2

\* What a row or a cursor has at a place of the ordering is a number or NULL.
LEMMA RowValues ==
    ASSUME NEW o \in Seq(Clause), NEW r \in Row, NEW i \in DOMAIN o
    PROVE  /\ r[o[i].attribute] \in Int \cup {Null}
           /\ o[i].descending \in BOOLEAN
           /\ \A j \in 1 .. (i - 1) : j \in DOMAIN o
<1>1. o[i] \in Clause /\ \A j \in 1 .. (i - 1) : j \in DOMAIN o
  OBVIOUS
<1>. QED
  BY <1>1, RowAssumption DEF Clause

\* A seek from a row with no NULL finds only rows the database puts after it.
LEMMA SeekIsBefore ==
    ASSUME NEW o \in Seq(Clause), NEW m \in Row, NEW r \in Row,
           NotNull(o, m), Seek(o, Values(o, m), r)
    PROVE  Before(o, m, r)
<1>1. PICK i \in DOMAIN o :
        /\ \A j \in 1 .. (i - 1) : r[o[j].attribute] = Values(o, m)[j]
        /\ Compares(o[i], r[o[i].attribute], Values(o, m)[i])
  BY DEF Seek
<1>2. \A j \in 1 .. (i - 1) : m[o[j].attribute] = r[o[j].attribute]
  BY <1>1, RowValues DEF Values
<1>3. Sorts(o[i], m[o[i].attribute], r[o[i].attribute])
  BY <1>1, RowValues DEF Values, Compares, Sorts, Lower
<1>. QED
  BY <1>2, <1>3 DEF Before

\* And it finds all of them that have no NULL.
LEMMA BeforeIsSeek ==
    ASSUME NEW o \in Seq(Clause), NEW m \in Row, NEW r \in Row,
           NotNull(o, m), NotNull(o, r), Before(o, m, r)
    PROVE  Seek(o, Values(o, m), r)
<1>1. PICK i \in DOMAIN o :
        /\ \A j \in 1 .. (i - 1) : m[o[j].attribute] = r[o[j].attribute]
        /\ Sorts(o[i], m[o[i].attribute], r[o[i].attribute])
  BY DEF Before
<1>2. \A j \in 1 .. (i - 1) : r[o[j].attribute] = Values(o, m)[j]
  BY <1>1, RowValues DEF Values
<1>3. m[o[i].attribute] \in Int /\ r[o[i].attribute] \in Int
  BY RowValues DEF NotNull
<1>4. Compares(o[i], r[o[i].attribute], Values(o, m)[i])
  BY <1>1, <1>3, RowAssumption, RowValues DEF Values, Compares, Sorts, Lower
<1>. QED
  BY <1>2, <1>4 DEF Seek

\* Of two rows at most one comes before the other.
LEMMA BeforeIsAsymmetric ==
    ASSUME NEW o \in Seq(Clause), NEW r \in Row, NEW s \in Row,
           Before(o, r, s), Before(o, s, r)
    PROVE  FALSE
<1>1. PICK i \in DOMAIN o :
        /\ \A j \in 1 .. (i - 1) : r[o[j].attribute] = s[o[j].attribute]
        /\ Sorts(o[i], r[o[i].attribute], s[o[i].attribute])
  BY DEF Before
<1>2. PICK k \in DOMAIN o :
        /\ \A j \in 1 .. (k - 1) : s[o[j].attribute] = r[o[j].attribute]
        /\ Sorts(o[k], s[o[k].attribute], r[o[k].attribute])
  BY DEF Before
<1>3. \A x \in Int \cup {Null} : \A c : ~Sorts(c, x, x)
  BY DEF Sorts, Lower
<1>4. CASE i < k
  <2>1. r[o[i].attribute] = s[o[i].attribute]
    BY <1>2, <1>4
  <2>. QED
    BY <1>1, <1>3, <2>1, RowValues
<1>5. CASE k < i
  <2>1. r[o[k].attribute] = s[o[k].attribute]
    BY <1>1, <1>5
  <2>. QED
    BY <1>2, <1>3, <2>1, RowValues
<1>6. CASE i = k
  BY <1>1, <1>2, <1>6, RowValues, RowAssumption DEF Sorts, Lower
<1>. QED
  BY <1>4, <1>5, <1>6

\* Rows that differ in the key are ordered, however much else they share.
LEMMA BeforeIsTotal ==
    ASSUME NEW o \in Seq(Clause), IsOrdering(o), NEW r \in Row, NEW s \in Row,
           ~SameKey(r, s)
    PROVE  Before(o, r, s) \/ Before(o, s, r)
<1>. DEFINE differ == {i \in DOMAIN o : r[o[i].attribute] # s[o[i].attribute]}
<1>1. differ # {} /\ differ \subseteq Nat
  BY DEF IsOrdering, SameKey
<1>2. PICK i \in differ : \A n \in differ : i <= n
  BY <1>1, LeastNatural
<1>3. \A j \in 1 .. (i - 1) : r[o[j].attribute] = s[o[j].attribute]
  BY <1>2
<1>4. \/ Sorts(o[i], r[o[i].attribute], s[o[i].attribute])
      \/ Sorts(o[i], s[o[i].attribute], r[o[i].attribute])
  BY <1>2, RowValues, RowAssumption DEF Sorts, Lower
<1>. QED
  BY <1>2, <1>3, <1>4 DEF Before

\* What a seek finds after a row that another found, the other finds too.
LEMMA SeekIsTransitive ==
    ASSUME NEW o \in Seq(Clause), NEW v \in [DOMAIN o -> Int],
           NEW m \in Row, NEW r \in Row,
           NotNull(o, m), Seek(o, v, m), Seek(o, Values(o, m), r)
    PROVE  Seek(o, v, r)
<1>1. PICK i \in DOMAIN o :
        /\ \A j \in 1 .. (i - 1) : m[o[j].attribute] = v[j]
        /\ Compares(o[i], m[o[i].attribute], v[i])
  BY DEF Seek
<1>2. PICK k \in DOMAIN o :
        /\ \A j \in 1 .. (k - 1) : r[o[j].attribute] = m[o[j].attribute]
        /\ Compares(o[k], r[o[k].attribute], m[o[k].attribute])
  BY RowValues DEF Seek, Values
<1>3. \A j \in DOMAIN o : m[o[j].attribute] \in Int /\ v[j] \in Int
  BY RowValues DEF NotNull
<1>4. CASE i < k
  <2>1. r[o[i].attribute] = m[o[i].attribute]
    BY <1>2, <1>4
  <2>2. \A j \in 1 .. (i - 1) : r[o[j].attribute] = v[j]
    BY <1>1, <1>2, <1>4
  <2>. QED
    BY <1>1, <2>1, <2>2 DEF Seek
<1>5. CASE k < i
  <2>1. Compares(o[k], r[o[k].attribute], v[k])
    BY <1>1, <1>2, <1>5
  <2>2. \A j \in 1 .. (k - 1) : r[o[j].attribute] = v[j]
    BY <1>1, <1>2, <1>5
  <2>. QED
    BY <1>2, <2>1, <2>2 DEF Seek
<1>6. CASE i = k
  <2>1. Compares(o[i], r[o[i].attribute], v[i])
    BY <1>1, <1>2, <1>3, <1>6, RowValues, RowAssumption DEF Compares
  <2>. QED
    BY <1>1, <1>2, <1>6, <2>1 DEF Seek
<1>. QED
  BY <1>4, <1>5, <1>6

------------------------------------------------------------------------------
(* The walk. *)

\* A cursor holds a number for every place of its ordering.
CursorOK(c, backwards) ==
    \/ c = NoCursor
    \/ /\ c.ordering \in Orderings
       /\ c.values \in [DOMAIN c.ordering -> Int]
       /\ c.backwards = backwards

\* The cursor the walk goes on from.
Onward == IF walk.start.backwards THEN previous ELSE next

Typed ==
    /\ table \subseteq Row /\ IsFiniteSet(table) /\ IsTable(table)
    /\ ordering \in Orderings /\ limit \in Limits
    /\ CursorOK(next, FALSE) /\ CursorOK(previous, TRUE)
    /\ CursorOK(at, FALSE) \/ CursorOK(at, TRUE)

WalkTyped ==
    /\ DOMAIN walk = {"ordering", "start", "shown", "stayed"}
    /\ walk.ordering \in Orderings
    /\ CursorOK(walk.start, FALSE) \/ CursorOK(walk.start, TRUE)
    /\ walk.start # NoCursor => walk.start.ordering = walk.ordering
    /\ Onward # NoCursor => Onward.ordering = walk.ordering
    /\ walk.shown \subseteq Row /\ walk.stayed \subseteq table

\* What a walk has behind it, it has shown, and nothing else.
WalkInv ==
    /\ \A r \in walk.stayed :
            (NotNull(walk.ordering, r) /\ InFront(walk.start, r))
                => r \in walk.shown \/ (Onward # NoCursor /\ InFront(Onward, r))
    /\ Onward # NoCursor => \A r \in walk.shown : ~InFront(Onward, r)

Inv == Typed /\ WalkTyped /\ WalkInv

\* An ordering is one backwards too, of the same columns.
LEMMA WalkedOrdering ==
    ASSUME NEW o \in Orderings, NEW c
    PROVE  /\ o \in Seq(Clause) /\ IsOrdering(o)
           /\ Walked(o, c) \in Seq(Clause) /\ IsOrdering(Walked(o, c))
           /\ DOMAIN Walked(o, c) = DOMAIN o
           /\ \A r : NotNull(Walked(o, c), r) <=> NotNull(o, r)
           /\ \A r : Values(Walked(o, c), r) = Values(o, r)
<1>1. IsOrdering(o) /\ o \in Seq(Clause)
  BY RequestsAssumption DEF Orderings, IsOrdering
<1>2. \A i \in DOMAIN o : [o[i] EXCEPT !.descending = ~@] \in Clause
                          /\ [o[i] EXCEPT !.descending = ~@].attribute = o[i].attribute
  <2>1. \A k \in Clause, b \in BOOLEAN :
            [k EXCEPT !.descending = b] \in Clause
            /\ [k EXCEPT !.descending = b].attribute = k.attribute
    BY DEF Clause
  <2>2. \A i \in DOMAIN o : o[i] \in Clause /\ (~o[i].descending) \in BOOLEAN
    BY <1>1
  <2>. QED
    BY <2>1, <2>2
<1>3. /\ DOMAIN Flipped(o) = DOMAIN o
      /\ \A i \in DOMAIN o : Flipped(o)[i].attribute = o[i].attribute
  BY <1>2 DEF Flipped
<1>4. Flipped(o) \in Seq(Clause)
  <2>1. DOMAIN o = 1 .. Len(o) /\ Len(o) \in Nat
    BY <1>1
  <2>2. Flipped(o) \in [1 .. Len(o) -> Clause]
    BY <1>2, <2>1 DEF Flipped
  <2>. QED
    BY <2>1, <2>2
<1>5. IsOrdering(Flipped(o))
  BY <1>1, <1>3, <1>4 DEF IsOrdering
<1>6. \A r : NotNull(Flipped(o), r) <=> NotNull(o, r)
  BY <1>3 DEF NotNull
<1>7. \A r : Values(Flipped(o), r) = Values(o, r)
  BY <1>3 DEF Values
<1>. QED
  BY <1>1, <1>3, <1>4, <1>5, <1>6, <1>7 DEF Walked

\* The first n of a finite set: they are in it, nothing outside comes before one
\* of them, and when they are fewer than n they are all.
LEMMA FirstRows ==
    ASSUME NEW all, IsFiniteSet(all), NEW rows \in SUBSET all, NEW n \in Nat, NEW o,
           IsFirst(rows, n, all, o)
    PROVE  /\ IsFiniteSet(rows) /\ Cardinality(rows) \in Nat
           /\ Cardinality(rows) < n => rows = all
           /\ Cardinality(all) <= n => rows = all
           /\ \A r \in rows, s \in all \ rows : ~Before(o, s, r)
<1>1. /\ IsFiniteSet(rows)
      /\ Cardinality(all) = Cardinality(rows) => all = rows
  BY FS_Subset
<1>2. Cardinality(rows) \in Nat /\ Cardinality(all) \in Nat
  BY <1>1, FS_CardinalityType
<1>. QED
  BY <1>1, <1>2 DEF IsFirst

\* What a page leaves: it is all there was ahead, and the walk ends, or its
\* farthest row has the cursor, and all it left out comes after that row.
LEMMA PageLeaves ==
    ASSUME Inv, NEW c, CursorOK(c, FALSE) \/ CursorOK(c, TRUE), Page(c)
    PROVE  LET onward == IF c.backwards THEN previous' ELSE next'
           IN /\ items' \in SUBSET Ahead(c)
              /\ CursorOK(next', FALSE) /\ CursorOK(previous', TRUE)
              /\ \/ onward = NoCursor /\ items' = Ahead(c)
                 \/ \E far \in items' :
                        /\ onward = CursorAt(far, c.backwards)
                        /\ NotNull(ordering, far)
                        /\ \A r \in items' \ {far} : Before(Walked(ordering, c), r, far)
                        /\ \A r \in Ahead(c) \ items' : ~Before(Walked(ordering, c), r, far)
<1>. DEFINE w == Walked(ordering, c)
            onward == IF c.backwards THEN previous' ELSE next'
<1>1. PICK rows \in SUBSET Ahead(c) :
        /\ IsFirst(rows, limit + 1, Ahead(c), w)
        /\ items' \in SUBSET rows
        /\ IsFirst(items', limit, rows, w)
        /\ \/ items' = {} /\ next' = NoCursor /\ previous' = NoCursor
           \/ \E near, far \in items' :
                /\ \A r \in items' \ {near} : Before(w, near, r)
                /\ \A r \in items' \ {far} : Before(w, r, far)
                /\ CursorPage(c, near, far, Cardinality(rows) > limit)
  BY DEF Page
<1>2. limit \in Nat \ {0}
  BY BoundsAssumption DEF Inv, Typed
<1>3. IsFiniteSet(Ahead(c))
  <2>1. Ahead(c) \in SUBSET table
    BY DEF Ahead
  <2>. QED
    BY <2>1, FS_Subset DEF Inv, Typed
<1>4. /\ IsFiniteSet(rows) /\ Cardinality(rows) \in Nat
      /\ Cardinality(rows) < limit + 1 => rows = Ahead(c)
      /\ \A r \in rows, s \in Ahead(c) \ rows : ~Before(w, s, r)
  BY <1>1, <1>2, <1>3, FirstRows
<1>5. /\ IsFiniteSet(items') /\ Cardinality(items') < limit => items' = rows
      /\ Cardinality(rows) <= limit => items' = rows
      /\ \A r \in items', s \in rows \ items' : ~Before(w, s, r)
  BY <1>1, <1>2, <1>4, FirstRows
<1>6. \A r \in items', s \in Ahead(c) \ items' : ~Before(w, s, r)
  BY <1>1, <1>4, <1>5
<1>7. Cardinality(rows) <= limit => items' = Ahead(c)
  BY <1>2, <1>4, <1>5
<1>8. CASE items' = {} /\ next' = NoCursor /\ previous' = NoCursor
  <2>1. Cardinality(items') = 0
    BY <1>8, FS_EmptySet
  <2>2. items' = Ahead(c)
    BY <1>2, <1>4, <1>5, <1>7, <2>1, <1>8, FS_EmptySet
  <2>. QED
    BY <1>8, <2>2 DEF CursorOK
<1>9. ASSUME NEW near \in items', NEW far \in items',
             \A r \in items' \ {far} : Before(w, r, far),
             CursorPage(c, near, far, Cardinality(rows) > limit)
      PROVE  /\ CursorOK(next', FALSE) /\ CursorOK(previous', TRUE)
             /\ \/ onward = NoCursor /\ items' = Ahead(c)
                \/ onward = CursorAt(far, c.backwards) /\ NotNull(ordering, far)
  <2>1. near \in Row /\ far \in Row /\ ordering \in Orderings
    BY <1>1 DEF Ahead, Inv, Typed
  <2>2. ordering # <<>>
    <3>1. ordering \in Seq(Clause) /\ IsOrdering(ordering)
      BY <2>1, WalkedOrdering
    <3>2. 1 \in DOMAIN CursorKey
      BY RowAssumption
    <3>. QED
      BY <3>1, <3>2 DEF IsOrdering
  <2>3. \A r \in Row : \A b : CursorAt(r, b) # NoCursor
    BY <2>2 DEF CursorAt, NoCursor
  <2>4. ASSUME NEW r \in Row, NEW b, NotNull(ordering, r)
        PROVE  CursorOK(CursorAt(r, b), b)
    <3>1. ordering \in Seq(Clause)
      BY <2>1, WalkedOrdering
    <3>2. \A i \in DOMAIN ordering : r[ordering[i].attribute] \in Int
      BY <2>4, <3>1, RowValues DEF NotNull
    <3>. QED
      BY <2>1, <3>2 DEF CursorOK, CursorAt, Values
  <2>5. \A r \in Row : \A b : MayPoint(CursorAt(r, b), r)
                           => CursorOK(CursorAt(r, b), b) /\ NotNull(ordering, r)
    BY <2>3, <2>4 DEF MayPoint
  <2>a. CursorOK(NoCursor, TRUE) /\ CursorOK(NoCursor, FALSE)
    BY DEF CursorOK
  <2>b. ~(Cardinality(rows) > limit) => items' = Ahead(c)
    BY <1>2, <1>4, <1>7
  <2>6. CASE c.backwards = TRUE
    <3>1. /\ next' = CursorAt(near, FALSE) /\ MayPoint(next', near)
          /\ previous' = (IF Cardinality(rows) > limit THEN CursorAt(far, TRUE) ELSE NoCursor)
          /\ MayPoint(previous', far)
      BY <1>9, <2>6 DEF CursorPage
    <3>2. CursorOK(next', FALSE)
      BY <2>1, <2>5, <3>1
    <3>3. CASE Cardinality(rows) > limit
      BY <2>1, <2>5, <2>6, <3>1, <3>2, <3>3
    <3>4. CASE ~(Cardinality(rows) > limit)
      BY <2>a, <2>b, <2>6, <3>1, <3>2, <3>4
    <3>. QED
      BY <3>3, <3>4
  <2>7. CASE c.backwards = FALSE
    <3>1. /\ next' = (IF Cardinality(rows) > limit THEN CursorAt(far, FALSE) ELSE NoCursor)
          /\ MayPoint(next', far)
          /\ previous' = (IF c # NoCursor THEN CursorAt(near, TRUE) ELSE NoCursor)
          /\ MayPoint(previous', near)
      BY <1>9, <2>7 DEF CursorPage
    <3>2. CursorOK(previous', TRUE)
      BY <2>1, <2>5, <2>a, <3>1
    <3>3. CASE Cardinality(rows) > limit
      BY <2>1, <2>5, <2>7, <3>1, <3>2, <3>3
    <3>4. CASE ~(Cardinality(rows) > limit)
      BY <2>a, <2>b, <2>7, <3>1, <3>2, <3>4
    <3>. QED
      BY <3>3, <3>4
  <2>8. c.backwards = TRUE \/ c.backwards = FALSE
    BY DEF CursorOK, NoCursor
  <2>. QED
    BY <2>6, <2>7, <2>8
<1>. QED
  BY <1>1, <1>6, <1>8, <1>9

\* What a page does to a walk: a row the cursor has in front of it is on the page
\* or in front of the cursor that goes on; no row of the page is in front of that
\* one; and it has nothing in front of it that its page's cursor had not.
LEMMA PageGoesOn ==
    ASSUME Inv, NEW c, CursorOK(c, FALSE) \/ CursorOK(c, TRUE), Page(c)
    PROVE  LET onward == IF c.backwards THEN previous' ELSE next'
           IN /\ onward # NoCursor => onward.ordering = ordering
              /\ items' \subseteq table /\ \A r \in items' : InFront(c, r)
              /\ \A r \in table : (NotNull(ordering, r) /\ InFront(c, r))
                    => r \in items' \/ (onward # NoCursor /\ InFront(onward, r))
              /\ onward # NoCursor =>
                    /\ \A r \in items' : ~InFront(onward, r)
                    /\ \A r \in Row : InFront(onward, r) => InFront(c, r)
<1>. DEFINE w == Walked(ordering, c)
            onward == IF c.backwards THEN previous' ELSE next'
<1>1. /\ table \subseteq Row /\ IsTable(table) /\ ordering \in Orderings
      /\ c = NoCursor \/ c.ordering = ordering
  BY DEF Inv, Typed, Page
<1>2. /\ w \in Seq(Clause) /\ IsOrdering(w) /\ DOMAIN w = DOMAIN ordering
      /\ \A r : NotNull(w, r) <=> NotNull(ordering, r)
      /\ \A r : Values(w, r) = Values(ordering, r)
  BY <1>1, WalkedOrdering
<1>3. \A r : InFront(c, r) <=> (c = NoCursor \/ Seek(w, c.values, r))
  BY <1>1 DEF InFront
<1>4. Ahead(c) = {r \in table : InFront(c, r)}
  BY <1>3 DEF Ahead
<1>5. items' \in SUBSET Ahead(c)
  BY PageLeaves
<1>6. CASE onward = NoCursor /\ items' = Ahead(c)
  BY <1>4, <1>6
<1>7. ASSUME NEW far \in items', onward = CursorAt(far, c.backwards),
             NotNull(ordering, far),
             \A r \in items' \ {far} : Before(w, r, far),
             \A r \in Ahead(c) \ items' : ~Before(w, r, far)
      PROVE  /\ onward.ordering = ordering
             /\ \A r \in table : (NotNull(ordering, r) /\ InFront(c, r))
                    => r \in items' \/ (onward # NoCursor /\ InFront(onward, r))
             /\ onward # NoCursor =>
                    /\ \A r \in items' : ~InFront(onward, r)
                    /\ \A r \in Row : InFront(onward, r) => InFront(c, r)
  <2>1. /\ onward.ordering = ordering /\ onward.values = Values(w, far)
        /\ onward.backwards = c.backwards
    BY <1>2, <1>7 DEF CursorAt
  <2>2. far \in table /\ far \in Row /\ NotNull(w, far) /\ InFront(c, far)
    BY <1>1, <1>2, <1>4, <1>5, <1>7
  <2>3. onward # NoCursor
    <3>1. 1 \in DOMAIN CursorKey
      BY RowAssumption
    <3>2. DOMAIN ordering # {}
      BY <1>2, <3>1 DEF IsOrdering
    <3>. QED
      BY <2>1, <3>2 DEF NoCursor
  <2>4. \A r : InFront(onward, r) <=> Seek(w, Values(w, far), r)
    BY <2>1, <2>3 DEF InFront, Walked
  <2>5. ASSUME NEW r \in table, NotNull(ordering, r), InFront(c, r), r \notin items'
        PROVE  InFront(onward, r)
    <3>1. r \in Row /\ ~Before(w, r, far) /\ ~SameKey(r, far)
      BY <1>1, <1>4, <1>7, <2>2, <2>5 DEF IsTable
    <3>2. Before(w, far, r)
      BY <1>2, <2>2, <3>1, BeforeIsTotal
    <3>3. Seek(w, Values(w, far), r)
      BY <1>2, <2>2, <2>5, <3>1, <3>2, BeforeIsSeek
    <3>. QED
      BY <2>4, <3>3
  <2>6. ASSUME NEW r \in items', InFront(onward, r)
        PROVE  FALSE
    <3>1. r \in Row
      BY <1>1, <1>4, <1>5
    <3>2. Before(w, far, r)
      BY <1>2, <2>2, <2>4, <2>6, <3>1, SeekIsBefore
    <3>3. Before(w, r, far)
      BY <1>7, <3>2
    <3>. QED
      BY <1>2, <2>2, <3>1, <3>2, <3>3, BeforeIsAsymmetric
  <2>7. ASSUME NEW r \in Row, InFront(onward, r), c # NoCursor
        PROVE  InFront(c, r)
    <3>1. c.values \in [DOMAIN w -> Int]
      BY <1>1, <1>2, <2>7 DEF CursorOK
    <3>2. Seek(w, c.values, far)
      BY <1>3, <2>2, <2>7
    <3>3. Seek(w, c.values, r)
      BY <1>2, <2>2, <2>4, <2>7, <3>1, <3>2, SeekIsTransitive
    <3>. QED
      BY <1>3, <3>3
  <2>8. c = NoCursor => \A r \in Row : InFront(c, r)
    BY <1>3
  <2>. QED
    BY <2>1, <2>3, <2>5, <2>6, <2>7, <2>8
<1>8. \/ onward = NoCursor /\ items' = Ahead(c)
      \/ \E far \in items' :
            /\ onward = CursorAt(far, c.backwards)
            /\ NotNull(ordering, far)
            /\ \A r \in items' \ {far} : Before(w, r, far)
            /\ \A r \in Ahead(c) \ items' : ~Before(w, r, far)
  BY PageLeaves
<1>9. items' \subseteq table /\ \A r \in items' : InFront(c, r)
  BY <1>4, <1>5
<1>. QED
  BY <1>6, <1>7, <1>8, <1>9

LEMMA PageInv ==
    ASSUME Inv, NEW c \in {NoCursor, at, next, previous}, Page(c)
    PROVE  Inv'
<1>. DEFINE onward == IF c.backwards THEN previous' ELSE next'
<1>1. CursorOK(c, FALSE) \/ CursorOK(c, TRUE)
  BY DEF Inv, Typed, CursorOK
<1>2. /\ UNCHANGED <<table, ordering, limit>> /\ at' = c
      /\ Walks(c, items') /\ (c = NoCursor \/ c.ordering = ordering)
  BY DEF Page
<1>3. CursorOK(next', FALSE) /\ CursorOK(previous', TRUE)
  BY <1>1, PageLeaves
<1>4. Typed'
  BY <1>1, <1>2, <1>3 DEF Inv, Typed, CursorOK
<1>5. /\ onward # NoCursor => onward.ordering = ordering
      /\ items' \subseteq table /\ \A r \in items' : InFront(c, r)
      /\ \A r \in table : (NotNull(ordering, r) /\ InFront(c, r))
            => r \in items' \/ (onward # NoCursor /\ InFront(onward, r))
      /\ onward # NoCursor =>
            /\ \A r \in items' : ~InFront(onward, r)
            /\ \A r \in Row : InFront(onward, r) => InFront(c, r)
  BY <1>1, PageGoesOn
<1>6. CASE ~Continues(c)
  <2>1. walk' = [ordering |-> ordering, start |-> c, shown |-> items', stayed |-> table]
    BY <1>6 DEF Page, Walks
  <2>2. Onward' = onward
    BY <2>1 DEF Onward
  <2>3. WalkTyped'
    BY <1>1, <1>2, <1>5, <2>1, <2>2 DEF WalkTyped, Inv, Typed, CursorOK
  <2>4. WalkInv'
    BY <1>2, <1>5, <2>1, <2>2 DEF WalkInv, InFront
  <2>. QED
    BY <1>4, <2>3, <2>4 DEF Inv
<1>7. CASE Continues(c)
  <2>1. c = Onward /\ c # NoCursor /\ c.ordering = ordering
    BY <1>2, <1>7 DEF Continues, Onward
  <2>2. walk' = [walk EXCEPT !.shown = @ \cup items']
    BY <1>7 DEF Page, Walks
  <2>3. /\ DOMAIN walk' = DOMAIN walk
        /\ walk'.ordering = ordering /\ walk.ordering = ordering
        /\ walk'.start = walk.start /\ walk'.stayed = walk.stayed
        /\ walk'.shown = walk.shown \cup items'
    BY <2>1, <2>2 DEF Inv, WalkTyped
  <2>4. c.backwards = IF walk.start.backwards THEN TRUE ELSE FALSE
    BY <2>1 DEF Onward, Inv, Typed, CursorOK
  <2>5. Onward' = onward
    BY <2>3, <2>4 DEF Onward
  <2>6. WalkTyped'
    BY <1>2, <1>5, <2>3, <2>5 DEF WalkTyped, Inv, Typed, CursorOK
  <2>7. ASSUME NEW r \in walk.stayed, NotNull(ordering, r), InFront(walk.start, r)
        PROVE  r \in walk'.shown \/ (onward # NoCursor /\ InFront(onward, r))
    <3>1. r \in table
      BY DEF Inv, WalkTyped
    <3>2. r \in walk.shown \/ InFront(c, r)
      BY <2>1, <2>3, <2>7 DEF Inv, WalkInv
    <3>. QED
      BY <1>5, <2>3, <2>7, <3>1, <3>2
  <2>8. ASSUME onward # NoCursor, NEW r \in walk'.shown
        PROVE  ~InFront(onward, r)
    <3>1. CASE r \in items'
      BY <1>5, <2>8, <3>1
    <3>2. CASE r \in walk.shown
      <4>1. r \in Row /\ ~InFront(c, r)
        BY <2>1, <3>2 DEF Inv, WalkInv, WalkTyped
      <4>. QED
        BY <1>5, <2>8, <4>1
    <3>. QED
      BY <2>3, <2>8, <3>1, <3>2
  <2>9. WalkInv'
    BY <2>3, <2>5, <2>7, <2>8 DEF WalkInv, InFront
  <2>. QED
    BY <1>4, <2>6, <2>9 DEF Inv
<1>. QED
  BY <1>6, <1>7

\* A change takes a row that is no longer what it was out of those that stayed.
LEMMA ChangesInv ==
    ASSUME Inv, NEW rows, NEW gone, Changes(rows, gone),
           rows \subseteq Row, IsFiniteSet(rows), IsTable(rows), table \ gone \subseteq rows
    PROVE  Inv'
<1>1. /\ table' = rows /\ UNCHANGED <<ordering, limit, items, at, next, previous>>
      /\ walk' = [walk EXCEPT !.stayed = @ \ gone]
  BY DEF Changes, client
<1>2. Typed'
  BY <1>1 DEF Inv, Typed, CursorOK
<1>3. /\ DOMAIN walk' = DOMAIN walk /\ walk'.ordering = walk.ordering
      /\ walk'.start = walk.start /\ walk'.shown = walk.shown
      /\ walk'.stayed = walk.stayed \ gone
  BY <1>1 DEF Inv, WalkTyped
<1>4. Onward' = Onward
  BY <1>1, <1>3 DEF Onward
<1>5. WalkTyped'
  BY <1>1, <1>3, <1>4 DEF Inv, WalkTyped, CursorOK
<1>6. WalkInv'
  BY <1>3, <1>4 DEF Inv, WalkInv, InFront
<1>. QED
  BY <1>2, <1>5, <1>6 DEF Inv

LEMMA InitInv == Init => Inv
<1>. SUFFICES ASSUME Init PROVE Inv
  OBVIOUS
<1>1. Typed
  BY BoundsAssumption DEF Init, Typed, CursorOK
<1>2. WalkTyped /\ WalkInv
  BY DEF Init, WalkTyped, WalkInv, Onward, CursorOK, NoCursor
<1>. QED
  BY <1>1, <1>2 DEF Inv

LEMMA NextInv == Inv /\ [Next]_vars => Inv'
<1>. SUFFICES ASSUME Inv, [Next]_vars PROVE Inv'
  OBVIOUS
<1>. USE RowAssumption
<1>1. ASSUME NEW c \in {NoCursor, at, next, previous}, Page(c) PROVE Inv'
  BY <1>1, PageInv
<1>2. CASE Reorder
  BY <1>2 DEF Reorder, Inv, Typed, WalkTyped, WalkInv, Onward, CursorOK, InFront
<1>3. ASSUME NEW r \in Row, Insert(r) PROVE Inv'
  <2>1. Changes(table \cup {r}, {}) /\ IsTable(table \cup {r})
    BY <1>3 DEF Insert, Inv, Typed, IsTable, SameKey
  <2>2. IsFiniteSet(table \cup {r})
    BY FS_AddElement DEF Inv, Typed
  <2>. QED
    BY <2>1, <2>2, ChangesInv DEF Inv, Typed
<1>4. ASSUME NEW r \in table, Delete(r) PROVE Inv'
  <2>1. Changes(table \ {r}, {r}) /\ IsTable(table \ {r})
    BY <1>4 DEF Delete, Inv, Typed, IsTable
  <2>2. IsFiniteSet(table \ {r})
    BY FS_RemoveElement DEF Inv, Typed
  <2>. QED
    BY <2>1, <2>2, ChangesInv DEF Inv, Typed
<1>5. ASSUME NEW r \in table, NEW s \in Row, Update(r, s) PROVE Inv'
  <2>1. Changes((table \ {r}) \cup {s}, {r}) /\ IsTable((table \ {r}) \cup {s})
    BY <1>5 DEF Update, Inv, Typed, IsTable, SameKey
  <2>2. IsFiniteSet((table \ {r}) \cup {s})
    BY FS_AddElement, FS_RemoveElement DEF Inv, Typed
  <2>. QED
    BY <2>1, <2>2, ChangesInv DEF Inv, Typed
<1>6. CASE UNCHANGED vars
  BY <1>6 DEF vars, client, Inv, Typed, WalkTyped, WalkInv, Onward, CursorOK, InFront
<1>. QED
  BY <1>1, <1>2, <1>3, <1>4, <1>5, <1>6 DEF Next

\* A walk that has ended has shown every row that stayed as it was and that was
\* in front of its first cursor (_keyset_ordering, _seek, _cursor_page).
THEOREM WalksAreComplete == Spec => []EveryRowIsShown
<1>1. Inv => EveryRowIsShown
  BY DEF Inv, WalkInv, EveryRowIsShown, WalkEnded, Onward
<1>. QED
  BY <1>1, InitInv, NextInv, PTL DEF Spec

\* No page of a walk shows again what an earlier page of it has shown.
THEOREM WalksDoNotRepeat == Spec => ShownOnce
<1>1. ASSUME Inv, NEW c \in {next, previous}, Page(c), Continues(c)
      PROVE  items' \cap walk.shown = {}
  <2>1. CursorOK(c, FALSE) \/ CursorOK(c, TRUE)
    BY <1>1 DEF Inv, Typed
  <2>2. \A r \in items' : InFront(c, r)
    BY <1>1, <2>1, PageGoesOn
  <2>3. c = Onward /\ c # NoCursor
    BY <1>1 DEF Continues, Onward
  <2>4. \A r \in walk.shown : ~InFront(c, r)
    BY <1>1, <2>3 DEF Inv, WalkInv
  <2>. QED
    BY <2>2, <2>4
<1>2. Inv /\ [Next]_vars =>
        [\A c \in {next, previous} :
            (Page(c) /\ Continues(c)) => items' \cap walk.shown = {}]_vars
  BY <1>1
<1>. QED
  BY <1>2, InitInv, NextInv, PTL DEF Spec, ShownOnce

------------------------------------------------------------------------------
(* There and back. *)

\* An ordering as it is walked: backwards every direction is flipped.
Way(o, backwards) == IF backwards THEN Flipped(o) ELSE o

\* No row of the table is NULL in an ordering: there is a cursor at each.
NotNullTable(o) == \A r \in table : NotNull(o, r)

\* The rows of the table that are not past row e.
UpTo(o, backwards, e) == {r \in table : ~Before(Way(o, backwards), e, r)}

\* Backwards what came before comes after.
LEMMA BeforeFlipped ==
    ASSUME NEW o \in Seq(Clause), NEW r \in Row, NEW s \in Row
    PROVE  Before(Flipped(o), r, s) <=> Before(o, s, r)
<1>1. /\ DOMAIN Flipped(o) = DOMAIN o
      /\ \A i \in DOMAIN o : /\ Flipped(o)[i].attribute = o[i].attribute
                             /\ Flipped(o)[i].descending = ~o[i].descending
                             /\ o[i].descending \in BOOLEAN
  <2>1. \A k \in Clause, b \in BOOLEAN :
            /\ [k EXCEPT !.descending = b].attribute = k.attribute
            /\ [k EXCEPT !.descending = b].descending = b
    BY DEF Clause
  <2>2. \A k \in Clause : k.descending \in BOOLEAN /\ (~k.descending) \in BOOLEAN
    BY DEF Clause
  <2>3. \A i \in DOMAIN o : o[i] \in Clause
    OBVIOUS
  <2>4. /\ DOMAIN Flipped(o) = DOMAIN o
        /\ \A i \in DOMAIN o :
               Flipped(o)[i] = [o[i] EXCEPT !.descending = ~o[i].descending]
    BY DEF Flipped
  <2>5. ASSUME NEW i \in DOMAIN o
        PROVE  /\ Flipped(o)[i].attribute = o[i].attribute
               /\ Flipped(o)[i].descending = ~o[i].descending
               /\ o[i].descending \in BOOLEAN
    <3>1. /\ o[i] \in Clause
          /\ Flipped(o)[i] = [o[i] EXCEPT !.descending = ~o[i].descending]
      BY <2>3, <2>4, <2>5
    <3>2. o[i].descending \in BOOLEAN /\ (~o[i].descending) \in BOOLEAN
      BY <2>2, <3>1
    <3>3. /\ Flipped(o)[i].attribute = o[i].attribute
          /\ Flipped(o)[i].descending = ~o[i].descending
      BY <2>1, <3>1, <3>2
    <3>. QED
      BY <3>2, <3>3
  <2>. QED
    BY <2>4, <2>5
<1>2. \A i \in DOMAIN o : \A x, y : Sorts(Flipped(o)[i], x, y) <=> Sorts(o[i], y, x)
  BY <1>1 DEF Sorts
<1>3. \A i \in DOMAIN o : \A j \in 1 .. (i - 1) : j \in DOMAIN o
  OBVIOUS
<1>4. ASSUME Before(Flipped(o), r, s) PROVE Before(o, s, r)
  <2>1. PICK i \in DOMAIN o :
          /\ \A j \in 1 .. (i - 1) : r[Flipped(o)[j].attribute] = s[Flipped(o)[j].attribute]
          /\ Sorts(Flipped(o)[i], r[Flipped(o)[i].attribute], s[Flipped(o)[i].attribute])
    BY <1>1, <1>4 DEF Before
  <2>2. \A j \in 1 .. (i - 1) : s[o[j].attribute] = r[o[j].attribute]
    BY <1>1, <1>3, <2>1
  <2>3. Sorts(o[i], s[o[i].attribute], r[o[i].attribute])
    BY <1>1, <1>2, <2>1
  <2>. QED
    BY <2>2, <2>3 DEF Before
<1>5. ASSUME Before(o, s, r) PROVE Before(Flipped(o), r, s)
  <2>1. PICK i \in DOMAIN o :
          /\ \A j \in 1 .. (i - 1) : s[o[j].attribute] = r[o[j].attribute]
          /\ Sorts(o[i], s[o[i].attribute], r[o[i].attribute])
    BY <1>5 DEF Before
  <2>2. \A j \in 1 .. (i - 1) : r[Flipped(o)[j].attribute] = s[Flipped(o)[j].attribute]
    BY <1>1, <1>3, <2>1
  <2>3. Sorts(Flipped(o)[i], r[Flipped(o)[i].attribute], s[Flipped(o)[i].attribute])
    BY <1>1, <1>2, <2>1
  <2>. QED
    BY <1>1, <2>2, <2>3 DEF Before
<1>. QED
  BY <1>4, <1>5

\* A way and the way back, on the rows of the table.
LEMMA WaysOf ==
    ASSUME Inv, NEW o \in Orderings, NEW b \in BOOLEAN
    PROVE  /\ Way(o, b) \in Seq(Clause) /\ IsOrdering(Way(o, b))
           /\ DOMAIN Way(o, b) = DOMAIN o
           /\ \A r : NotNull(Way(o, b), r) <=> NotNull(o, r)
           /\ \A r : Values(Way(o, b), r) = Values(o, r)
           /\ table \subseteq Row
           /\ \A r, s \in table :
                /\ Before(Way(o, ~b), r, s) <=> Before(Way(o, b), s, r)
                /\ r = s \/ Before(Way(o, b), r, s) \/ Before(Way(o, b), s, r)
                /\ ~(Before(Way(o, b), r, s) /\ Before(Way(o, b), s, r))
<1>. DEFINE c == [NoCursor EXCEPT !.backwards = b]
<1>1. Walked(o, c) = Way(o, b)
  BY DEF Walked, Way, NoCursor
<1>2. /\ o \in Seq(Clause) /\ Way(o, b) \in Seq(Clause) /\ IsOrdering(Way(o, b))
      /\ DOMAIN Way(o, b) = DOMAIN o
      /\ \A r : NotNull(Way(o, b), r) <=> NotNull(o, r)
      /\ \A r : Values(Way(o, b), r) = Values(o, r)
  BY <1>1, WalkedOrdering
<1>3. table \subseteq Row /\ IsTable(table)
  BY DEF Inv, Typed
<1>4. ASSUME NEW r \in table, NEW s \in table
      PROVE  /\ Before(Way(o, ~b), r, s) <=> Before(Way(o, b), s, r)
             /\ r = s \/ Before(Way(o, b), r, s) \/ Before(Way(o, b), s, r)
             /\ ~(Before(Way(o, b), r, s) /\ Before(Way(o, b), s, r))
  <2>0. r \in Row /\ s \in Row
    BY <1>3
  <2>1. /\ Before(Flipped(o), r, s) <=> Before(o, s, r)
        /\ Before(Flipped(o), s, r) <=> Before(o, r, s)
    BY <1>2, <2>0, BeforeFlipped
  <2>2. Before(Way(o, ~b), r, s) <=> Before(Way(o, b), s, r)
    BY <2>1 DEF Way
  <2>3. r = s \/ ~SameKey(r, s)
    BY <1>3 DEF IsTable
  <2>4. r = s \/ Before(Way(o, b), r, s) \/ Before(Way(o, b), s, r)
    BY <1>2, <2>0, <2>3, BeforeIsTotal
  <2>5. ~(Before(Way(o, b), r, s) /\ Before(Way(o, b), s, r))
    BY <1>2, <2>0, BeforeIsAsymmetric
  <2>. QED
    BY <2>2, <2>4, <2>5
<1>. QED
  BY <1>2, <1>3, <1>4

\* The first rows of a set are what they are: the order is total.
LEMMA FirstIsUnique ==
    ASSUME NEW all, IsFiniteSet(all), NEW n \in Nat, NEW o,
           \A r, s \in all : r = s \/ Before(o, r, s) \/ Before(o, s, r),
           NEW R \in SUBSET all, NEW S \in SUBSET all,
           IsFirst(R, n, all, o), IsFirst(S, n, all, o)
    PROVE  R = S
<1>1. Cardinality(R) = Cardinality(S)
  BY DEF IsFirst
<1>2. IsFiniteSet(R) /\ IsFiniteSet(S)
  BY FS_Subset
<1>3. R \subseteq S \/ S \subseteq R
  <2>. SUFFICES ASSUME NEW r \in R \ S, NEW s \in S \ R PROVE FALSE
    OBVIOUS
  <2>1. ~Before(o, s, r) /\ ~Before(o, r, s)
    BY DEF IsFirst
  <2>. QED
    BY <2>1
<1>4. CASE R \subseteq S
  BY <1>1, <1>2, <1>4, FS_Subset
<1>5. CASE S \subseteq R
  BY <1>1, <1>2, <1>5, FS_Subset
<1>. QED
  BY <1>3, <1>4, <1>5

\* The cursor to go on with from a page that c got, and the one back.
Forth(c) == IF c.backwards THEN previous ELSE next
Back(c) == IF c.backwards THEN next ELSE previous

\* What a page shows: the first rows ahead.  The cursor in front of it is at its far
\* row, where others follow, and then it is a full one; the cursor behind it is at its
\* near row.
LEMMA PageShows ==
    ASSUME Inv, NEW c, CursorOK(c, FALSE) \/ CursorOK(c, TRUE), Page(c)
    PROVE  LET w == Walked(ordering, c)
           IN /\ items' \in SUBSET Ahead(c) /\ IsFirst(items', limit, Ahead(c), w)
              /\ \/ next' = NoCursor /\ previous' = NoCursor
                 \/ \E near, far \in items' :
                        /\ \A r \in items' \ {near} : Before(w, near, r)
                        /\ \A r \in items' \ {far} : Before(w, r, far)
                        /\ Forth(c)' \in {NoCursor, CursorAt(far, c.backwards)}
                        /\ Forth(c)' # NoCursor => Cardinality(items') = limit
                        /\ Back(c)' \in {NoCursor, CursorAt(near, ~c.backwards)}
                        /\ c = NoCursor => Back(c)' = NoCursor
<1>. DEFINE w == Walked(ordering, c)
<1>1. PICK rows \in SUBSET Ahead(c) :
        /\ IsFirst(rows, limit + 1, Ahead(c), w)
        /\ items' \in SUBSET rows
        /\ IsFirst(items', limit, rows, w)
        /\ \/ items' = {} /\ next' = NoCursor /\ previous' = NoCursor
           \/ \E near, far \in items' :
                /\ \A r \in items' \ {near} : Before(w, near, r)
                /\ \A r \in items' \ {far} : Before(w, r, far)
                /\ CursorPage(c, near, far, Cardinality(rows) > limit)
  BY DEF Page
<1>2. limit \in Nat \ {0}
  BY BoundsAssumption DEF Inv, Typed
<1>3. IsFiniteSet(Ahead(c)) /\ Cardinality(Ahead(c)) \in Nat
  <2>1. Ahead(c) \in SUBSET table
    BY DEF Ahead
  <2>. QED
    BY <2>1, FS_Subset, FS_CardinalityType DEF Inv, Typed
<1>4. /\ IsFiniteSet(rows) /\ Cardinality(rows) \in Nat
      /\ \A r \in rows, s \in Ahead(c) \ rows : ~Before(w, s, r)
  BY <1>1, <1>2, <1>3, FirstRows
<1>5. \A r \in items', s \in rows \ items' : ~Before(w, s, r)
  BY <1>1 DEF IsFirst
<1>6. \A r \in items', s \in Ahead(c) \ items' : ~Before(w, s, r)
  BY <1>1, <1>4, <1>5
<1>7. Cardinality(items') = IF Cardinality(Ahead(c)) < limit THEN Cardinality(Ahead(c)) ELSE limit
  BY <1>1, <1>2, <1>3, <1>4 DEF IsFirst
<1>8. IsFirst(items', limit, Ahead(c), w)
  BY <1>6, <1>7 DEF IsFirst
<1>9. Cardinality(rows) > limit => Cardinality(items') = limit
  BY <1>1, <1>2, <1>4 DEF IsFirst
<1>10. ASSUME NEW near \in items', NEW far \in items',
              CursorPage(c, near, far, Cardinality(rows) > limit)
       PROVE  /\ Forth(c)' \in {NoCursor, CursorAt(far, c.backwards)}
              /\ Forth(c)' # NoCursor => Cardinality(items') = limit
              /\ Back(c)' \in {NoCursor, CursorAt(near, ~c.backwards)}
              /\ c = NoCursor => Back(c)' = NoCursor
  <2>1. CASE c.backwards = TRUE
    <3>1. c # NoCursor
      BY <2>1 DEF NoCursor
    <3>2. /\ next' = CursorAt(near, FALSE)
          /\ previous' = (IF Cardinality(rows) > limit THEN CursorAt(far, TRUE) ELSE NoCursor)
      BY <1>10, <2>1 DEF CursorPage
    <3>3. Forth(c)' = previous' /\ Back(c)' = next' /\ ~c.backwards = FALSE
      BY <2>1 DEF Forth, Back
    <3>. QED
      BY <1>9, <2>1, <3>1, <3>2, <3>3
  <2>2. CASE c.backwards = FALSE
    <3>1. /\ next' = (IF Cardinality(rows) > limit THEN CursorAt(far, FALSE) ELSE NoCursor)
          /\ previous' = (IF c # NoCursor THEN CursorAt(near, TRUE) ELSE NoCursor)
      BY <1>10, <2>2 DEF CursorPage
    <3>2. Forth(c)' = next' /\ Back(c)' = previous' /\ ~c.backwards = TRUE
      BY <2>2 DEF Forth, Back
    <3>. QED
      BY <1>9, <2>2, <3>1, <3>2
  <2>3. c.backwards = TRUE \/ c.backwards = FALSE
    BY DEF CursorOK, NoCursor
  <2>. QED
    BY <2>1, <2>2, <2>3
<1>. QED
  BY <1>1, <1>8, <1>10

\* A cursor of a page is at a row of it, and the page is the first rows the other way,
\* from that row.
EdgeOf(rows, c) ==
    \E e \in rows :
        /\ e \in table /\ c.values = Values(c.ordering, e)
        /\ rows \subseteq UpTo(c.ordering, c.backwards, e)
        /\ IsFirst(rows, limit, UpTo(c.ordering, c.backwards, e), Way(c.ordering, ~c.backwards))

\* The rows in front of cursor a are those that cursor c, the other way, is not past.
Faces(a, c) ==
    \E e \in table :
        /\ c.values = Values(c.ordering, e)
        /\ {r \in table : Seek(Way(c.ordering, a.backwards), a.values, r)}
              = UpTo(c.ordering, c.backwards, e)

\* While the table is unchanged: both cursors are at an edge of the page, and the one
\* that got it was at an edge of the page before, which the one back faces.
EdgesInv ==
    fresh => \A c \in {next, previous} :
        (c # NoCursor /\ NotNullTable(c.ordering)) => EdgeOf(items, c)

CameInv ==
    /\ came.by \in {"none", "next", "previous"}
    /\ came.by # "none" =>
        /\ fresh /\ at # NoCursor
        /\ came.by = "next" => ~at.backwards
        /\ came.by = "previous" => at.backwards
        /\ NotNullTable(at.ordering) => EdgeOf(came.rows, at)
        /\ Back(at) # NoCursor =>
              /\ Back(at).ordering = at.ordering
              /\ NotNullTable(at.ordering) => Faces(at, Back(at))

BackInv == Inv /\ EdgesInv /\ CameInv

\* What follows a row that a seek finds, it finds too.
LEMMA SeekGoesOn ==
    ASSUME Inv, NEW c, c # NoCursor, CursorOK(c, FALSE) \/ CursorOK(c, TRUE), c.ordering = ordering,
           NotNullTable(ordering), NEW r \in Ahead(c), NEW s \in table,
           Before(Walked(ordering, c), r, s)
    PROVE  s \in Ahead(c)
<1>. DEFINE w == Walked(ordering, c)
<1>1. table \subseteq Row /\ ordering \in Orderings /\ r \in table /\ Seek(w, c.values, r)
  BY DEF Inv, Typed, Ahead
<1>2. /\ w \in Seq(Clause) /\ DOMAIN w = DOMAIN ordering
      /\ \A x : NotNull(w, x) <=> NotNull(ordering, x)
  BY <1>1, WalkedOrdering
<1>3. c.values \in [DOMAIN w -> Int]
  BY <1>2 DEF CursorOK
<1>4. NotNull(w, r) /\ NotNull(w, s) /\ r \in Row /\ s \in Row
  BY <1>1, <1>2 DEF NotNullTable
<1>5. Seek(w, Values(w, r), s)
  BY <1>2, <1>4, BeforeIsSeek
<1>6. Seek(w, c.values, s)
  BY <1>1, <1>2, <1>3, <1>4, <1>5, SeekIsTransitive
<1>. QED
  BY <1>6 DEF Ahead

\* A page has its cursors at its edges, and the one back faces the one that got it.
LEMMA PageEdges ==
    ASSUME Inv, NEW c, CursorOK(c, FALSE) \/ CursorOK(c, TRUE), Page(c), NotNullTable(ordering)
    PROVE  /\ Forth(c)' # NoCursor => EdgeOf(items', Forth(c)')
           /\ Back(c)' # NoCursor => /\ c # NoCursor
                                     /\ EdgeOf(items', Back(c)') /\ Faces(c, Back(c)')
<1>. DEFINE w == Walked(ordering, c)
            o == ordering
            b == c.backwards
<1>0. /\ UNCHANGED <<table, ordering, limit>>
      /\ c = NoCursor \/ c.ordering = ordering
      /\ o \in Orderings
  BY DEF Page, Inv, Typed
<1>1. b \in BOOLEAN /\ w = Way(o, b)
  <2>1. b = TRUE \/ b = FALSE
    BY DEF CursorOK, NoCursor
  <2>. QED
    BY <2>1 DEF Walked, Way
<1>2. /\ table \subseteq Row
      /\ \A r, s \in table :
            /\ Before(Way(o, ~b), r, s) <=> Before(w, s, r)
            /\ r = s \/ Before(w, r, s) \/ Before(w, s, r)
            /\ ~(Before(w, r, s) /\ Before(w, s, r))
  BY <1>0, <1>1, WaysOf
<1>3. /\ items' \in SUBSET Ahead(c) /\ IsFirst(items', limit, Ahead(c), w)
      /\ \/ next' = NoCursor /\ previous' = NoCursor
         \/ \E near, far \in items' :
                /\ \A r \in items' \ {near} : Before(w, near, r)
                /\ \A r \in items' \ {far} : Before(w, r, far)
                /\ Forth(c)' \in {NoCursor, CursorAt(far, c.backwards)}
                /\ Forth(c)' # NoCursor => Cardinality(items') = limit
                /\ Back(c)' \in {NoCursor, CursorAt(near, ~c.backwards)}
                /\ c = NoCursor => Back(c)' = NoCursor
  BY PageShows
<1>4. Ahead(c) \subseteq table /\ \A r \in items', s \in Ahead(c) \ items' : ~Before(w, s, r)
  BY <1>3 DEF Ahead, IsFirst
<1>5. \A r \in Ahead(c), s \in table : Before(w, r, s) => s \in Ahead(c)
  <2>1. CASE c = NoCursor
    BY <2>1 DEF Ahead
  <2>2. CASE c # NoCursor
    BY <1>0, <2>2, SeekGoesOn
  <2>. QED
    BY <2>1, <2>2
<1>6. CASE next' = NoCursor /\ previous' = NoCursor
  BY <1>6 DEF Forth, Back
<1>7. ASSUME NEW near \in items', NEW far \in items',
             \A r \in items' \ {near} : Before(w, near, r),
             \A r \in items' \ {far} : Before(w, r, far),
             Forth(c)' \in {NoCursor, CursorAt(far, c.backwards)},
             Forth(c)' # NoCursor => Cardinality(items') = limit,
             Back(c)' \in {NoCursor, CursorAt(near, ~c.backwards)},
             c = NoCursor => Back(c)' = NoCursor
      PROVE  /\ Forth(c)' # NoCursor => EdgeOf(items', Forth(c)')
             /\ Back(c)' # NoCursor => /\ c # NoCursor
                                       /\ EdgeOf(items', Back(c)') /\ Faces(c, Back(c)')
  <2>1. near \in table /\ far \in table
    BY <1>3, <1>4, <1>7
  <2>2. ASSUME Forth(c)' # NoCursor
        PROVE  EdgeOf(items', Forth(c)')
    <3>1. /\ Forth(c)'.ordering = o /\ Forth(c)'.values = Values(o, far)
          /\ Forth(c)'.backwards = b /\ Cardinality(items') = limit
      BY <1>7, <2>2 DEF CursorAt
    <3>. DEFINE S == {r \in table : ~Before(w, far, r)}
    <3>2. items' \subseteq S
      BY <1>2, <1>3, <1>4, <1>7, <2>1
    <3>3. \A r \in items', s \in S \ items' : ~Before(Way(o, ~b), s, r)
      <4>. SUFFICES ASSUME NEW r \in items', NEW s \in S \ items', Before(w, r, s)
                    PROVE  FALSE
        BY <1>2, <1>3, <1>4
      <4>1. s \in Ahead(c) /\ r \in table
        BY <1>3, <1>4, <1>5
      <4>2. ~Before(w, s, far)
        BY <1>4, <1>7, <4>1
      <4>3. s # far /\ s \in table
        BY <1>7
      <4>. QED
        BY <1>2, <2>1, <4>2, <4>3
    <3>4. IsFiniteSet(S) /\ Cardinality(S) \in Nat /\ Cardinality(items') <= Cardinality(S)
      <4>1. IsFiniteSet(S)
        BY FS_Subset DEF Inv, Typed
      <4>. QED
        BY <3>2, <4>1, FS_Subset, FS_CardinalityType
    <3>5. limit \in Nat
      BY BoundsAssumption DEF Inv, Typed
    <3>6. IsFirst(items', limit, S, Way(o, ~b))
      BY <3>1, <3>3, <3>4, <3>5 DEF IsFirst
    <3>7. S = UpTo(o, b, far)
      BY <1>1 DEF UpTo
    <3>. HIDE DEF S
    <3>. QED
      BY <2>1, <3>1, <3>2, <3>6, <3>7 DEF EdgeOf
  <2>3. ASSUME Back(c)' # NoCursor
        PROVE  /\ c # NoCursor
               /\ EdgeOf(items', Back(c)') /\ Faces(c, Back(c)')
    <3>1. /\ Back(c)'.ordering = o /\ Back(c)'.values = Values(o, near)
          /\ Back(c)'.backwards = ~b /\ c # NoCursor
      BY <1>7, <2>3 DEF CursorAt
    <3>2. UpTo(o, ~b, near) = {r \in table : ~Before(w, r, near)}
      BY <1>2, <2>1 DEF UpTo
    <3>3. \A r \in Ahead(c) : ~Before(w, r, near)
      BY <1>2, <1>4, <1>7, <2>1
    <3>4. \A r \in table : ~Before(w, r, near) => r \in Ahead(c)
      BY <1>2, <1>3, <1>5, <1>7, <2>1
    <3>5. UpTo(o, ~b, near) = Ahead(c)
      BY <1>4, <3>2, <3>3, <3>4
    <3>6. Way(o, ~(~b)) = w
      BY <1>1
    <3>7. EdgeOf(items', Back(c)')
      BY <1>3, <2>1, <3>1, <3>5, <3>6 DEF EdgeOf
    <3>8. Ahead(c) = {r \in table : Seek(Way(o, c.backwards), c.values, r)}
      BY <1>1, <3>1 DEF Ahead
    <3>9. Faces(c, Back(c)')
      BY <2>1, <3>1, <3>5, <3>8 DEF Faces
    <3>. QED
      BY <3>1, <3>7, <3>9
  <2>. QED
    BY <2>2, <2>3
<1>. QED
  BY <1>3, <1>6, <1>7

\* What a page is, and the one before it while nothing has changed.
LEMMA PageBack ==
    ASSUME BackInv, NEW c \in {NoCursor, at, next, previous}, Page(c)
    PROVE  EdgesInv' /\ CameInv'
<1>1. Inv /\ (CursorOK(c, FALSE) \/ CursorOK(c, TRUE))
  BY DEF BackInv, Inv, Typed, CursorOK
<1>2. /\ UNCHANGED <<table, ordering, limit>> /\ at' = c /\ fresh' = TRUE
      /\ came' = IF ~fresh THEN NoPage
                 ELSE [rows |-> items, by |-> CASE c # NoCursor /\ c = next -> "next"
                                                [] c # NoCursor /\ c = previous -> "previous"
                                                [] OTHER -> "none"]
  BY DEF Page, Walks
<1>3. c = NoCursor \/ c.ordering = ordering
  BY DEF Page
<1>4. /\ Forth(c)' # NoCursor => Forth(c)'.ordering = ordering
      /\ Back(c)' # NoCursor => Back(c)'.ordering = ordering
  <2>1. CASE next' = NoCursor /\ previous' = NoCursor
    BY <2>1 DEF Forth, Back
  <2>2. CASE \E near, far \in items' :
                /\ Forth(c)' \in {NoCursor, CursorAt(far, c.backwards)}
                /\ Back(c)' \in {NoCursor, CursorAt(near, ~c.backwards)}
    <3>1. \A r, x : CursorAt(r, x).ordering = ordering
      BY DEF CursorAt
    <3>. QED
      BY <2>2, <3>1
  <2>. QED
    BY <1>1, <2>1, <2>2, PageShows
<1>5. NotNullTable(ordering) =>
        /\ Forth(c)' # NoCursor => EdgeOf(items', Forth(c)')
        /\ Back(c)' # NoCursor => /\ c # NoCursor
                                  /\ EdgeOf(items', Back(c)') /\ Faces(c, Back(c)')
  BY <1>1, PageEdges
<1>6. {next', previous'} = {Forth(c)', Back(c)'}
  BY DEF Forth, Back
<1>7. ASSUME NEW x \in {next', previous'}, x # NoCursor, NotNullTable(x.ordering)
      PROVE  EdgeOf(items', x)
  BY <1>4, <1>5, <1>6, <1>7
<1>8. EdgesInv'
  <2>1. next' # NoCursor /\ NotNullTable(next'.ordering) => EdgeOf(items', next')
    BY <1>7
  <2>2. previous' # NoCursor /\ NotNullTable(previous'.ordering) => EdgeOf(items', previous')
    BY <1>7
  <2>3. (NotNullTable(next.ordering))' => NotNullTable(next'.ordering)
    BY <1>2 DEF NotNullTable
  <2>4. (NotNullTable(previous.ordering))' => NotNullTable(previous'.ordering)
    BY <1>2 DEF NotNullTable
  <2>5. EdgeOf(items', next') => EdgeOf(items, next)'
    BY <1>2 DEF EdgeOf, UpTo
  <2>6. EdgeOf(items', previous') => EdgeOf(items, previous)'
    BY <1>2 DEF EdgeOf, UpTo
  <2>. QED
    BY <2>1, <2>2, <2>3, <2>4, <2>5, <2>6 DEF EdgesInv
<1>a. \/ came'.by = "none"
      \/ /\ fresh /\ c # NoCursor /\ came'.rows = items
         /\ \/ c = next /\ came'.by = "next"
            \/ c = previous /\ came'.by = "previous"
  <2>0. c = NoCursor \/ ~(c = next /\ c = previous)
    BY DEF BackInv, Inv, Typed, CursorOK
  <2>. DEFINE by == CASE c # NoCursor /\ c = next -> "next"
                     [] c # NoCursor /\ c = previous -> "previous"
                     [] OTHER -> "none"
  <2>1. fresh => came' = [rows |-> items, by |-> by]
    BY <1>2
  <2>2. ~fresh => came' = NoPage
    BY <1>2
  <2>3. CASE c # NoCursor /\ c = next
    <3>1. by = "next"
      BY <2>0, <2>3, Zenon
    <3>. HIDE DEF by
    <3>. QED
      BY <2>1, <2>2, <2>3, <3>1 DEF NoPage
  <2>4. CASE c # NoCursor /\ c = previous
    <3>1. by = "previous"
      BY <2>0, <2>4, Zenon
    <3>. HIDE DEF by
    <3>. QED
      BY <2>1, <2>2, <2>4, <3>1 DEF NoPage
  <2>5. CASE ~(c # NoCursor /\ c = next) /\ ~(c # NoCursor /\ c = previous)
    <3>1. by = "none"
      BY <2>5, Zenon
    <3>. HIDE DEF by
    <3>. QED
      BY <2>1, <2>2, <3>1 DEF NoPage
  <2>. QED
    BY <2>3, <2>4, <2>5
<1>9. ASSUME came'.by = "none" PROVE CameInv'
  <2>1. "none" # "next" /\ "none" # "previous"
    OBVIOUS
  <2>. QED
    BY <1>9, <2>1, Zenon DEF CameInv
<1>10. ASSUME came'.by # "none" PROVE CameInv'
  <2>1. /\ c # NoCursor /\ came'.rows = items
        /\ \/ c = next /\ came'.by = "next"
           \/ c = previous /\ came'.by = "previous"
    BY <1>a, <1>10
  <2>2. c.ordering = ordering
    BY <1>3, <2>1
  <2>3. /\ came'.by = "next" => ~c.backwards
        /\ came'.by = "previous" => c.backwards
    BY <1>1, <2>1 DEF Inv, Typed, CursorOK
  <2>4. NotNullTable(c.ordering) => EdgeOf(items, c)
    BY <1>a, <1>10, <2>1 DEF BackInv, EdgesInv
  <2>5. Back(at)' = Back(c)'
    BY <1>2 DEF Back
  <2>6. (NotNullTable(at.ordering))' => NotNullTable(ordering)
    BY <1>2, <2>2 DEF NotNullTable
  <2>7. EdgeOf(items, c) => EdgeOf(came.rows, at)'
    BY <1>2, <2>1 DEF EdgeOf, UpTo
  <2>8. Faces(c, Back(c)') => Faces(at, Back(at))'
    BY <1>2, <2>5 DEF Faces, UpTo
  <2>. QED
    <3>1. (NotNullTable(at.ordering))' => EdgeOf(came.rows, at)'
      BY <2>2, <2>4, <2>6, <2>7
    <3>2. Back(at)' # NoCursor => /\ Back(at)'.ordering = c.ordering
                                  /\ (NotNullTable(at.ordering))' => Faces(at, Back(at))'
      BY <1>4, <1>5, <2>2, <2>5, <2>6, <2>8
    <3>. QED
      BY <1>2, <2>1, <2>3, <3>1, <3>2 DEF CameInv
<1>. QED
  BY <1>8, <1>9, <1>10

\* A change of the table forgets the page before; another order keeps everything.
LEMMA NextBack == BackInv /\ [Next]_vars => BackInv'
<1>. SUFFICES ASSUME BackInv, [Next]_vars PROVE BackInv'
  OBVIOUS
<1>1. Inv'
  BY NextInv DEF BackInv
<1>2. ASSUME NEW c \in {NoCursor, at, next, previous}, Page(c) PROVE BackInv'
  BY <1>1, <1>2, PageBack DEF BackInv
<1>3. ASSUME came' = NoPage, fresh' = FALSE PROVE BackInv'
  BY <1>1, <1>3 DEF BackInv, EdgesInv, CameInv, NoPage
<1>4. CASE UNCHANGED <<table, limit, items, at, next, previous, came, fresh>>
  BY <1>1, <1>4 DEF BackInv, EdgesInv, CameInv, EdgeOf, Faces, UpTo, NotNullTable, Back
<1>. QED
  BY <1>2, <1>3, <1>4 DEF Next, Reorder, Insert, Delete, Update, Changes, vars, client

\* The cursor back from a page brings the page before, while the table is as it was
\* (cursor_page, _cursor_page: a page read backwards is turned round).
THEOREM WalksGoBack == Spec => ThereAndBack
<1>1. Init => BackInv
  BY InitInv DEF Init, BackInv, EdgesInv, CameInv, NoPage
<1>2. ASSUME BackInv, NEW c \in {next, previous}, Page(c), c # NoCursor,
             came.by = IF c = previous THEN "next" ELSE "previous",
             \A r \in table : NotNull(ordering, r)
      PROVE  items' = came.rows
  <2>1. Inv /\ (CursorOK(c, FALSE) \/ CursorOK(c, TRUE)) /\ c.ordering = ordering
    BY <1>2 DEF BackInv, Inv, Typed, Page
  <2>2. /\ fresh /\ at # NoCursor
        /\ came.by = "next" => ~at.backwards
        /\ came.by = "previous" => at.backwards
        /\ NotNullTable(at.ordering) => EdgeOf(came.rows, at)
        /\ Back(at) # NoCursor =>
              /\ Back(at).ordering = at.ordering
              /\ NotNullTable(at.ordering) => Faces(at, Back(at))
    BY <1>2 DEF BackInv, CameInv
  <2>3. c = Back(at) /\ at.backwards \in BOOLEAN /\ c.backwards = ~at.backwards
    <3>1. CASE c = previous
      BY <1>2, <2>1, <2>2, <3>1 DEF Back, Inv, Typed, CursorOK
    <3>2. CASE c # previous
      BY <1>2, <2>1, <2>2, <3>2 DEF Back, Inv, Typed, CursorOK
    <3>. QED
      BY <3>1, <3>2
  <2>4. at.ordering = ordering /\ NotNullTable(ordering)
    BY <1>2, <2>1, <2>2, <2>3 DEF NotNullTable
  <2>. DEFINE o == ordering
              b == at.backwards
              w == Walked(ordering, c)
  <2>5. w = Way(o, ~b)
    BY <2>3 DEF Walked, Way
  <2>6. PICK e \in came.rows :
          /\ e \in table /\ at.values = Values(o, e)
          /\ came.rows \subseteq UpTo(o, b, e)
          /\ IsFirst(came.rows, limit, UpTo(o, b, e), Way(o, ~b))
    BY <2>2, <2>4 DEF EdgeOf
  <2>7. PICK n \in table :
          /\ c.values = Values(o, n)
          /\ {r \in table : Seek(Way(o, b), at.values, r)} = UpTo(o, ~b, n)
    BY <1>2, <2>2, <2>3, <2>4 DEF Faces
  <2>8. o \in Orderings
    BY <2>1 DEF Inv, Typed
  <2>9. \A r, s \in table : r = s \/ Before(Way(o, ~b), r, s) \/ Before(Way(o, ~b), s, r)
    <3>. SUFFICES ASSUME NEW d \in BOOLEAN, NEW r \in table, NEW s \in table
                  PROVE  r = s \/ Before(Way(o, d), r, s) \/ Before(Way(o, d), s, r)
      OBVIOUS
    <3>. QED
      BY <2>1, <2>8, WaysOf
  <2>10. ASSUME NEW d \in BOOLEAN, NEW m \in table, NEW r \in table
         PROVE  Seek(Way(o, d), Values(o, m), r) <=> Before(Way(o, d), m, r)
    <3>1. /\ Way(o, d) \in Seq(Clause) /\ table \subseteq Row
          /\ NotNull(Way(o, d), m) /\ NotNull(Way(o, d), r)
          /\ Values(Way(o, d), m) = Values(o, m)
      BY <2>1, <2>4, <2>8, WaysOf DEF NotNullTable
    <3>. QED
      BY <3>1, BeforeIsSeek, SeekIsBefore
  <2>11. Ahead(c) = {r \in table : Before(Way(o, ~b), n, r)}
    BY <1>2, <2>3, <2>5, <2>7, <2>10 DEF Ahead
  <2>12. Ahead(c) = table \ UpTo(o, ~b, n)
    BY <2>11 DEF UpTo
  <2>13. UpTo(o, ~b, n) = {r \in table : Before(Way(o, b), e, r)}
    BY <2>3, <2>6, <2>7, <2>10
  <2>14. Ahead(c) = UpTo(o, b, e)
    BY <2>12, <2>13 DEF UpTo
  <2>15. items' \in SUBSET Ahead(c) /\ IsFirst(items', limit, Ahead(c), Way(o, ~b))
    BY <1>2, <2>1, <2>5, PageShows
  <2>16. IsFiniteSet(Ahead(c)) /\ limit \in Nat
    <3>1. Ahead(c) \in SUBSET table
      BY <2>11
    <3>. QED
      BY <2>1, <3>1, FS_Subset, BoundsAssumption DEF Inv, Typed
  <2>17. \A r, s \in Ahead(c) : r = s \/ Before(Way(o, ~b), r, s) \/ Before(Way(o, ~b), s, r)
    BY <2>9, <2>11
  <2>. QED
    BY <2>6, <2>14, <2>15, <2>16, <2>17, FirstIsUnique
<1>3. BackInv /\ [Next]_vars =>
        [\A c \in {next, previous} :
            (/\ Page(c) /\ c # NoCursor
             /\ came.by = IF c = previous THEN "next" ELSE "previous"
             /\ \A r \in table : NotNull(ordering, r))
                => items' = came.rows]_vars
  BY <1>2
<1>. QED
  BY <1>1, <1>3, NextBack, PTL DEF Spec, ThereAndBack
==============================================================================
