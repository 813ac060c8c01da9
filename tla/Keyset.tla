-------------------------------- MODULE Keyset --------------------------------
(***************************************************************************)
(* Pages by cursor: cursor_page() called again and again, forwards and      *)
(* backwards, while other sessions insert, delete and change rows           *)
(* (src/sqlakit/_query.py, src/sqlakit/orm.py).                             *)
(*                                                                         *)
(* A row gives a value, or NULL, to every attribute.  A page is the set of   *)
(* its rows: its order is the ordering's.                                   *)
(***************************************************************************)
EXTENDS Integers, FiniteSets, SequencesExt

CONSTANTS
    Attribute,
    Null,
    Row,         \* the rows there may be
    CursorKey,   \* the attributes that tell rows apart, in the key's order
    Requests,    \* what order_by() is called with: sequences of clauses
    Limits,
    MaxChanges   \* Bound: how often the table is changed

Clause == [attribute : Attribute, descending : BOOLEAN]

ASSUME RowAssumption ==
    /\ Row \subseteq [Attribute -> Int \cup {Null}] /\ Null \notin Int
    /\ CursorKey \in Seq(Attribute) \ {<<>>}
    /\ \A r \in Row, k \in DOMAIN CursorKey : r[CursorKey[k]] # Null
ASSUME BoundsAssumption == Limits \subseteq Nat \ {0} /\ MaxChanges \in Nat

\* The columns a cursor walks: what was asked, then the key, each once.  The key
\* goes the way of the column before it.
With(ordering, clause) ==
    IF \E i \in DOMAIN ordering : ordering[i].attribute = clause.attribute
    THEN ordering ELSE Append(ordering, clause)
WithKey(ordering, key) ==
    With(ordering, [attribute |-> key, descending |-> Last(ordering).descending])
KeysetOrdering(request) == FoldLeft(WithKey, FoldLeft(With, <<>>, request), CursorKey)

IsOrdering(ordering) ==
    /\ ordering \in Seq(Clause)
    /\ \A k \in DOMAIN CursorKey :
            \E i \in DOMAIN ordering : ordering[i].attribute = CursorKey[k]

ASSUME RequestsAssumption == \A q \in Requests : IsOrdering(KeysetOrdering(q))

Orderings == {KeysetOrdering(q) : q \in Requests}

------------------------------------------------------------------------------
(* How a database orders rows, NULL first, and what a seek finds. *)

Lower(x, y) == y # Null /\ (x # Null => x < y)
Sorts(clause, x, y) == IF clause.descending THEN Lower(y, x) ELSE Lower(x, y)

Before(ordering, r, s) ==
    \E i \in DOMAIN ordering :
        /\ \A j \in 1 .. (i - 1) : r[ordering[j].attribute] = s[ordering[j].attribute]
        /\ Sorts(ordering[i], r[ordering[i].attribute], s[ordering[i].attribute])

Flipped(ordering) ==
    [i \in DOMAIN ordering |-> [ordering[i] EXCEPT !.descending = ~@]]

\* A comparison with NULL holds for nothing.
Compares(clause, x, y) ==
    x # Null /\ y # Null /\ (IF clause.descending THEN x < y ELSE x > y)

\* Mutant: the columns are compared one by one, as if each stood alone.
SeekEachColumn(ordering, values, r) ==
    \A i \in DOMAIN ordering :
        LET x == r[ordering[i].attribute]
        IN x = values[i] \/ Compares(ordering[i], x, values[i])

\* Mutant: the row of the cursor is found again.
SeekFromRow(ordering, values, r) ==
    \E i \in DOMAIN ordering :
        /\ \A j \in 1 .. (i - 1) : r[ordering[j].attribute] = values[j]
        /\ \/ Compares(ordering[i], r[ordering[i].attribute], values[i])
           \/ i = Len(ordering) /\ r[ordering[i].attribute] = values[i]

\* The rows after the one whose values a cursor holds: a row comparison, or in
\* mixed directions the chain it stands for.
Seek(ordering, values, r) ==
    \E i \in DOMAIN ordering :
        /\ \A j \in 1 .. (i - 1) : r[ordering[j].attribute] = values[j]
        /\ Compares(ordering[i], r[ordering[i].attribute], values[i])

Values(ordering, r) == [i \in DOMAIN ordering |-> r[ordering[i].attribute]]
NotNull(ordering, r) == \A i \in DOMAIN ordering : r[ordering[i].attribute] # Null

------------------------------------------------------------------------------
NoCursor == [ordering |-> <<>>, values |-> <<>>, backwards |-> FALSE]

VARIABLES
    table,           \* the rows that are there
    ordering,        \* of the query
    limit,
    items,           \* the rows of the page
    at,              \* the cursor that got it
    next, previous,  \* the cursors on it
    walk,            \* history: a run of pages in one direction, each got by the
                     \* cursor of the one before, with the rows shown, and those
                     \* that have been there, unchanged, since it began
    came,            \* history: the page before, while the table is unchanged
    fresh,           \* history: it is unchanged since the page was read
    changes

client == <<ordering, limit, items, at, next, previous>>
vars == <<table, client, walk, came, fresh, changes>>

SameKey(r, s) == \A k \in DOMAIN CursorKey : r[CursorKey[k]] = s[CursorKey[k]]
IsTable(rows) == \A r, s \in rows : SameKey(r, s) => r = s

NoPage == [rows |-> {}, by |-> "none"]

Init ==
    /\ table \in {rows \in SUBSET Row : IsTable(rows)} /\ IsFiniteSet(table)
    /\ ordering \in Orderings
    /\ limit \in Limits
    /\ items = {}
    /\ at = NoCursor /\ next = NoCursor /\ previous = NoCursor
    /\ walk = [ordering |-> ordering, start |-> NoCursor, shown |-> {}, stayed |-> {}]
    /\ came = NoPage /\ fresh = FALSE
    /\ changes = 0

\* Backwards is the same walk with every direction flipped.
Walked(o, c) == IF c.backwards THEN Flipped(o) ELSE o

\* What the statement of a page finds, before its limit.
Ahead(c) == {r \in table : c = NoCursor \/ Seek(Walked(ordering, c), c.values, r)}

\* What ORDER BY and LIMIT make of a set of rows.
IsFirst(rows, n, all, o) ==
    /\ \A r \in rows, s \in all \ rows : ~Before(o, s, r)
    /\ Cardinality(rows) = IF Cardinality(all) < n THEN Cardinality(all) ELSE n

CursorAt(r, backwards) ==
    [ordering |-> ordering, values |-> Values(ordering, r), backwards |-> backwards]

\* A cursor at a row that is NULL in the ordering raises, and there is no page.
MayPoint(c, r) == c = NoCursor \/ NotNull(ordering, r)

\* Mutant: a page read backwards is not turned round.
CursorPageAsRead(c, near, far, more) ==
    /\ next' = IF more \/ c.backwards THEN CursorAt(far, FALSE) ELSE NoCursor
    /\ previous' = IF (IF c.backwards THEN more ELSE c # NoCursor)
                   THEN CursorAt(near, TRUE) ELSE NoCursor
    /\ MayPoint(next', far) /\ MayPoint(previous', near)

\* The cursors of a page whose nearest and farthest rows these are.  Read backwards
\* it is turned round, and the page ahead is the one the request came from.
CursorPage(c, near, far, more) ==
    LET first == IF c.backwards THEN far ELSE near
        last  == IF c.backwards THEN near ELSE far
    IN /\ next' = IF more \/ c.backwards THEN CursorAt(last, FALSE) ELSE NoCursor
       /\ previous' = IF (IF c.backwards THEN more ELSE c # NoCursor)
                      THEN CursorAt(first, TRUE) ELSE NoCursor
       /\ MayPoint(next', last) /\ MayPoint(previous', first)

\* The page got by cursor c continues the run of the one before it.
Continues(c) ==
    /\ c # NoCursor
    /\ c = IF walk.start.backwards THEN previous ELSE next

Walks(c, rows) ==
    /\ walk' = IF Continues(c) THEN [walk EXCEPT !.shown = @ \cup rows]
               ELSE [ordering |-> ordering, start |-> c, shown |-> rows, stayed |-> table]
    /\ came' = IF ~fresh THEN NoPage
               ELSE [rows |-> items, by |-> CASE c # NoCursor /\ c = next -> "next"
                                              [] c # NoCursor /\ c = previous -> "previous"
                                              [] OTHER -> "none"]
    /\ fresh' = TRUE

\* cursor_page(): one row more than asked for tells whether others follow.  A
\* cursor made for another ordering is refused.
Page(c) ==
    /\ c = NoCursor \/ c.ordering = ordering
    /\ at' = c
    /\ \E rows \in SUBSET Ahead(c) :
        /\ IsFirst(rows, limit + 1, Ahead(c), Walked(ordering, c))
        /\ items' \in SUBSET rows
        /\ IsFirst(items', limit, rows, Walked(ordering, c))
        /\ \/ items' = {} /\ next' = NoCursor /\ previous' = NoCursor
           \/ \E near, far \in items' :
                /\ \A r \in items' \ {near} : Before(Walked(ordering, c), near, r)
                /\ \A r \in items' \ {far} : Before(Walked(ordering, c), r, far)
                /\ CursorPage(c, near, far, Cardinality(rows) > limit)
    /\ Walks(c, items')
    /\ UNCHANGED <<table, ordering, limit, changes>>

\* The query is ordered otherwise, and the cursors are kept.
Reorder ==
    /\ ordering' \in Orderings \ {ordering}
    /\ UNCHANGED <<table, limit, items, at, next, previous, walk, came, fresh, changes>>

Changes(rows, gone) ==
    /\ changes < MaxChanges /\ changes' = changes + 1
    /\ table' = rows
    /\ walk' = [walk EXCEPT !.stayed = @ \ gone]
    /\ came' = NoPage /\ fresh' = FALSE
    /\ UNCHANGED client

Insert(r) == (\A s \in table : ~SameKey(r, s)) /\ Changes(table \cup {r}, {})
Delete(r) == Changes(table \ {r}, {r})
Update(r, s) == r # s /\ SameKey(r, s) /\ Changes((table \ {r}) \cup {s}, {r})

Next ==
    \/ \E c \in {NoCursor, at, next, previous} : Page(c)
    \/ Reorder
    \/ \E r \in Row : Insert(r)
    \/ \E r \in table : Delete(r) \/ \E s \in Row : Update(r, s)

Spec == Init /\ [][Next]_vars
------------------------------------------------------------------------------
\* The rows cursor c has in front of it.
InFront(c, r) == c = NoCursor \/ Seek(Walked(c.ordering, c), c.values, r)

WalkEnded == (IF walk.start.backwards THEN previous ELSE next) = NoCursor

\* A walk that has come to its end, either way, has shown every row that was in
\* front of it and stayed as it was, whatever was inserted, deleted and changed
\* between its pages, and however many rows tie on what the query is ordered by
\* (_keyset_ordering, _seek, _cursor_page).
EveryRowIsShown ==
    WalkEnded =>
        \A r \in walk.stayed :
            (NotNull(walk.ordering, r) /\ InFront(walk.start, r)) => r \in walk.shown

\* No page of a walk shows again what an earlier one has shown.
ShownOnce ==
    [][\A c \in {next, previous} :
        (Page(c) /\ Continues(c)) => items' \cap walk.shown = {}]_vars

\* While the table is as it was, the cursor back from a page got by the cursor
\* forward brings the page before, and the other way round: the last page may be
\* a short one, and the first (cursor_page: "the page it names comes out").
ThereAndBack ==
    [][\A c \in {next, previous} :
        (/\ Page(c) /\ c # NoCursor
         /\ came.by = IF c = previous THEN "next" ELSE "previous"
         /\ \A r \in table : NotNull(ordering, r))
            => items' = came.rows]_vars

==============================================================================
