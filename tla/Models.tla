-------------------------------- MODULE Models --------------------------------
(***************************************************************************)
(* Models that save themselves and queries that write, on one connection:   *)
(* what is committed at once and what waits for a block, what the sessions  *)
(* of the blocks hold, and what an exception undoes (ModelMixin and Query   *)
(* in src/sqlakit/orm.py, over the blocks of src/sqlakit/_db.py).           *)
(***************************************************************************)
EXTENDS Queries

CONSTANTS
    Initial,     \* the tables a run may find
    BulkQueries, \* the queries callers write in bulk
    MaxDepth,    \* bound: the blocks open one inside another
    MaxWrites    \* bound: the writes of a run

ASSUME InitialAssumption ==
    Initial \subseteq Tables /\ \A table \in Initial : IsFiniteSet(table)
ASSUME BulkAssumption == BulkQueries \subseteq Queries
ASSUME DepthAssumption == MaxDepth \in 1 .. 2 /\ MaxWrites \in Nat

VARIABLES
    connection, \* its rows, and those it had when each transaction and
                \* savepoint now open on it was begun
    blocks,     \* the blocks open: what each ends, whether its session has
                \* begun a transaction, the rows its instances hold
    detached,   \* an instance a caller kept from a block that has ended
    reported,   \* the table as the writes that have returned describe it
    writes      \* how many there have been

vars == <<connection, blocks, detached, reported, writes>>

------------------------------------------------------------------------------
(* The connection and its transaction. *)

Begun(c) == IF c.saved = <<>> THEN [c EXCEPT !.saved = <<c.rows>>] ELSE c
WithSavepoint(c) == [c EXCEPT !.saved = Append(@, c.rows)]
Ended(c) == [c EXCEPT !.saved = Front(@)]
RolledBack(c) == [rows |-> Last(c.saved), saved |-> Front(c.saved)]
Committed(c) == [c EXCEPT !.saved = <<>>]

------------------------------------------------------------------------------
(* The blocks, as the context knows them. *)

Top == Len(blocks)
Held == blocks[Top].held
IdsOf(rows) == {r.id : r \in rows}

HasSession == blocks # <<>>

InTransaction == \E d \in 1 .. Top : blocks[d].kind = "transaction"

Block(kind, ends) == [kind |-> kind, ends |-> ends, begun |-> FALSE,
                      held |-> {}, before |-> reported]

Init ==
    /\ \E table \in Initial :
         connection = [rows |-> table, saved |-> <<>>] /\ reported = table
    /\ blocks = <<>>
    /\ detached = {}
    /\ writes = 0

(* connect(): the connection bound, or one of its own. *)
Connect ==
    /\ Top < MaxDepth
    /\ Top = 0 \/ InTransaction
    /\ blocks' = Append(blocks, Block("connect", "nothing"))
    /\ UNCHANGED <<connection, detached, reported, writes>>

(***************************************************************************)
(* transaction(): joins the one around it, takes a savepoint in it, takes   *)
(* over the one the session of connect() has begun, or begins one.          *)
(***************************************************************************)
Transaction(savepoint) ==
    LET ends == IF InTransaction THEN IF savepoint THEN "savepoint" ELSE "nothing"
                ELSE IF HasSession /\ blocks[Top].begun THEN "lender"
                ELSE "root"
    IN /\ Top < MaxDepth
       /\ savepoint => InTransaction
       /\ blocks' = Append(blocks, Block("transaction", ends))
       /\ connection' = CASE ends = "savepoint" -> WithSavepoint(connection)
                          [] ends = "root" -> Begun(connection)
                          [] OTHER -> connection
       /\ UNCHANGED <<detached, reported, writes>>

------------------------------------------------------------------------------
(* The end of a block, whose session closes with it. *)

(* The caller keeps an instance of the session that closes, or none. *)
Detaches ==
    \/ detached' = detached
    \/ \E r \in Held : detached' = {r}

EndConnect ==
    /\ blocks[Top].kind = "connect"
    /\ connection' = IF blocks[Top].begun THEN RolledBack(connection) ELSE connection
    /\ blocks' = Front(blocks)
    /\ reported' = reported

(* What its session holds is flushed as each write returns: nothing is left. *)
Keep ==
    /\ connection' = CASE blocks[Top].ends = "nothing" -> connection
                       [] blocks[Top].ends = "lender" -> Committed(connection)
                       [] OTHER -> Ended(connection)
    /\ blocks' = IF blocks[Top].ends = "lender"
                 THEN <<[blocks[1] EXCEPT !.begun = FALSE]>> ELSE Front(blocks)
    /\ reported' = reported

(* The session of the block that lent its transaction forgets what it held. *)
Undo ==
    LET b == blocks[Top]
        undone == IF b.ends = "nothing" THEN connection ELSE RolledBack(connection)
        lender == [blocks[1] EXCEPT
                     !.begun = FALSE,
                     !.held = {r \in undone.rows : r.id \in IdsOf(@)}]
    IN /\ connection' = undone
       /\ blocks' = IF b.ends = "lender" THEN <<lender>> ELSE Front(blocks)
       /\ reported' = IF b.ends = "nothing" THEN reported ELSE b.before

End(raised) ==
    /\ HasSession
    /\ \/ EndConnect
       \/ blocks[Top].kind = "transaction" /\ IF raised THEN Undo ELSE Keep
    /\ Detaches
    /\ UNCHANGED writes

------------------------------------------------------------------------------
\* Mutant: a write flushes, whoever owns the transaction.
FlushesAlways(rows, held) ==
    /\ connection' = [Begun(connection) EXCEPT !.rows = rows]
    /\ blocks' = [blocks EXCEPT ![Top].held = held,
                                ![Top].begun = @ \/ ~InTransaction]

\* Mutant: a write commits, whoever owns the transaction.
CommitsAlways(rows, held) ==
    /\ connection' = [connection EXCEPT
                        !.rows = rows,
                        !.saved = [i \in DOMAIN @ |-> rows]]
    /\ blocks' = [blocks EXCEPT ![Top].held = held]

(***************************************************************************)
(* _persist: the session of the block flushes in a transaction, and commits *)
(* where nothing else would.  A write changes the rows, and the instances   *)
(* its session is left with.                                               *)
(***************************************************************************)
Persist(rows, held) ==
    IF InTransaction
    THEN /\ connection' = [connection EXCEPT !.rows = rows]
         /\ blocks' = [blocks EXCEPT ![Top].held = held]
    ELSE /\ connection' = [rows |-> rows, saved |-> <<>>]
         /\ blocks' = [blocks EXCEPT ![Top].held = held, ![Top].begun = FALSE]

\* What a write makes of the rows of its transaction is what callers are told.
Seen == {connection.rows, reported}

Writes(change, held) ==
    /\ HasSession
    /\ writes < MaxWrites
    /\ writes' = writes + 1
    /\ Persist(change[connection.rows], held)
    /\ reported' = change[reported]
    /\ UNCHANGED detached

(* A read begins a transaction where the session of connect() has none. *)
Reads(held) ==
    /\ connection' = IF InTransaction THEN connection ELSE Begun(connection)
    /\ blocks' = [blocks EXCEPT ![Top].held = held,
                                ![Top].begun = @ \/ ~InTransaction]
    /\ UNCHANGED <<detached, reported, writes>>

With(rows, r) == {s \in rows : s.id # r.id} \cup {r}
Without(rows, ids) == {s \in rows : s.id \notin ids}
Revalued(rows, ids, v) ==
    {IF s.id \in ids THEN [s EXCEPT !.value = v] ELSE s : s \in rows}
Remarked(rows, ids, marked) ==
    {IF s.id \in ids THEN [s EXCEPT !.marked = marked] ELSE s : s \in rows}

(* The database counts keys up, past every row it has and any it has given. *)
KnownIds ==
    IdsOf(connection.rows \cup detached \cup UNION {blocks[d].held : d \in 1 .. Top})
NewIds(n) == {Max({0} \cup KnownIds) + i : i \in 1 .. n}

Saved(r) == HasSession /\ r \in Held /\ r.id \in IdsOf(connection.rows)

(* save() of a new instance, create() and create_many(). *)
NewRows(n, v) == {[id |-> id, value |-> v, marked |-> FALSE] : id \in NewIds(n)}

SaveNew(v) ==
    /\ HasSession
    /\ NewIds(1) \subseteq Id
    /\ Writes([rows \in Seen |-> rows \cup NewRows(1, v)], Held \cup NewRows(1, v))

(* What create_many() writes nobody holds. *)
CreateMany(n, v) ==
    /\ HasSession
    /\ NewIds(n) \subseteq Id
    /\ Writes([rows \in Seen |-> rows \cup NewRows(n, v)], Held)

(* update() and save() of an instance of this block: what differs is written. *)
Save(r, v) ==
    /\ Saved(r)
    /\ v # r.value
    /\ Writes([rows \in Seen |-> Revalued(rows, {r.id}, v)],
              With(Held, [r EXCEPT !.value = v]))

Delete(r, force) ==
    /\ Saved(r)
    /\ IF force
       THEN Writes([rows \in Seen |-> Without(rows, {r.id})], Held \ {r})
       ELSE Writes([rows \in Seen |-> Remarked(rows, {r.id}, TRUE)],
                   With(Held, [r EXCEPT !.marked = TRUE]))

(* A mark the instance does not know of is not cleared: nothing differs. *)
Restore(r) ==
    /\ Saved(r)
    /\ Writes([rows \in Seen |-> IF r.marked THEN Remarked(rows, {r.id}, FALSE) ELSE rows],
              With(Held, [r EXCEPT !.marked = FALSE]))

(***************************************************************************)
(* save() of an instance from an earlier block is refused; merge() reads    *)
(* the row, and the values the instance holds win.                          *)
(***************************************************************************)
MergeAndSave(r) ==
    LET known == {s \in Held : s.id = r.id}
        read == IF known # {} THEN known ELSE {s \in connection.rows : s.id = r.id}
        Copied(rows, s) ==
            LET valued == IF r.value = s.value THEN rows ELSE Revalued(rows, {r.id}, r.value)
            IN IF r.marked = s.marked THEN valued ELSE Remarked(valued, {r.id}, r.marked)
    IN /\ r \in detached
       /\ HasSession
       /\ IdsOf(known) \subseteq IdsOf(connection.rows)
       /\ IF read = {} THEN Writes([rows \in Seen |-> With(rows, r)], With(Held, r))
          ELSE \E s \in read :
                 Writes([rows \in Seen |-> Copied(rows, s)], With(Held, r))

Refresh(r) ==
    /\ Saved(r)
    /\ \E s \in connection.rows : s.id = r.id /\ Reads(With(Held, s))

(***************************************************************************)
(* get(): a row the session holds is not read again, unless loader options  *)
(* came with the query or a filter has to be asked.                         *)
(***************************************************************************)
GetBy(q, id, options) ==
    LET found == Get(q, id, connection.rows)
        known == {r \in Held : r.id = id}
    IN /\ HasSession
       /\ ~LookupRefused(q)
       /\ ~LooksUpByKey(q) \/ known = {} \/ options
       /\ Reads(IF options THEN Without(Held, IdsOf(found)) \cup found
                ELSE Held \cup {r \in found : known = {}})

BulkUpdate(q, v) ==
    /\ HasSession
    /\ ~BulkRefused(q)
    /\ Writes([rows \in Seen |-> Revalued(rows, IdsOf(Touched(q, rows)), v)],
              Revalued(Held, IdsOf(Touched(q, Held)), v))

BulkDelete(q, force) ==
    LET Removed(rows) == rows \ Touched(q, rows)
        Hidden(rows) == Remarked(rows, IdsOf(Touched(q, rows)), TRUE)
    IN /\ HasSession
       /\ ~BulkRefused(q)
       /\ IF force THEN Writes([rows \in Seen |-> Removed(rows)], Removed(Held))
          ELSE Writes([rows \in Seen |-> Hidden(rows)], Hidden(Held))

Next ==
    \/ Connect
    \/ \E savepoint \in BOOLEAN : Transaction(savepoint)
    \/ \E raised \in BOOLEAN : End(raised)
    \/ \E v \in Value : SaveNew(v)
    \/ \E n \in 1 .. 2, v \in Value : CreateMany(n, v)
    \/ \E r \in Row, v \in Value : Save(r, v)
    \/ \E r \in Row, force \in BOOLEAN : Delete(r, force)
    \/ \E r \in Row : Restore(r) \/ MergeAndSave(r) \/ Refresh(r)
    \/ \E q \in BulkQueries, id \in Id, options \in BOOLEAN : GetBy(q, id, options)
    \/ \E q \in BulkQueries, v \in Value : BulkUpdate(q, v)
    \/ \E q \in BulkQueries, force \in BOOLEAN : BulkDelete(q, force)

Spec == Init /\ [][Next]_vars

------------------------------------------------------------------------------
(* What the models and their queries promise. *)

(***************************************************************************)
(* What a write reported is there, and stays: through whatever blocks it    *)
(* runs in, the rows are those the writes that returned describe, without   *)
(* the ones of a transaction or savepoint that an exception has left.       *)
(***************************************************************************)
WhatIsReportedIsThere == connection.rows = reported

(***************************************************************************)
(* Whoever else reads the database sees a transaction as a whole: nothing   *)
(* of it while it is open, and a write outside of one as soon as it has     *)
(* returned.                                                               *)
(***************************************************************************)
Others(c) == IF c.saved = <<>> THEN c.rows ELSE c.saved[1]

OthersSeeTransactionsWhole ==
    [][/\ InTransaction /\ InTransaction' => Others(connection') = Others(connection)
       /\ writes' # writes /\ ~InTransaction => Others(connection') = reported']_vars

(***************************************************************************)
(* The reads of one query are of the same rows: count() and exists() agree  *)
(* with what all() may return, first() and one() give its first and its     *)
(* only row, latest() and earliest() the extremes of it, in_bulk() and      *)
(* get() its rows by key.  first() sets a limit of its own and latest() is  *)
(* of queries not ordered or cut before.                                   *)
(***************************************************************************)
RowsOf(q, table) == UNION {ToSet(s) : s \in All(q, table)}

ReadsOf(q, table) ==
    /\ {<<>>} \cup First(q, table) = {<<>>} \cup {SubSeq(s, 1, Min({1, Len(s)})) : s \in All(q, table)}
    /\ ~q.raw =>
         /\ Counts(q, table) = {Len(s) : s \in All(q, table)}
         /\ Columns(q, table) = {[i \in DOMAIN s |-> s[i].value] : s \in All(q, table)}
         /\ Exists(q, table) = {n > 0 : n \in Counts(q, table)}
         /\ \A k \in InBulk(q, table, "id") :
              \E s \in All(q, table) : {k[id] : id \in DOMAIN k} = ToSet(s)
         /\ One(q, table) # {} <=> Counts(q, table) = {1}
    /\ ~LookupRefused(q) /\ q.having = {} =>
         \A id \in Id : Get(q, id, table) = {r \in RowsOf(q, table) : r.id = id}
    /\ ~q.raw /\ q.order = <<>> /\ q.offset = None /\ q.limit = None =>
         /\ \A s \in Latest(q, "id", table), r \in RowsOf(q, table) : r.id <= s[1].id
         /\ \A s \in Earliest(q, "id", table), r \in RowsOf(q, table) : r.id >= s[1].id

TableReads == {<<table, \A q \in Queries : ReadsOf(q, table)>> : table \in Tables}

ReadsAgree == <<connection.rows, TRUE>> \in TableReads

(***************************************************************************)
(* The pages of an ordered query, each read by a statement of its own and   *)
(* each followed while it says that another follows, show every row of the  *)
(* query once, whatever rows tie and however the database breaks the tie.   *)
(***************************************************************************)
PagesOf(q, limit, total, table) ==
    LET last == Cardinality(table) \div limit
        answers == [n \in 0 .. last |-> Page(q, limit, n * limit, total, table)]
    IN {pages \in [0 .. last -> UNION {answers[n] : n \in 0 .. last}] :
          \A n \in 0 .. last : pages[n] \in answers[n]}

ShowsOnce(pages, rows, limit) ==
    LET read == {n \in DOMAIN pages : \A m \in 0 .. n - 1 : pages[m].has_next}
        shown == {<<n, i>> : n \in read, i \in 1 .. limit}
        at == {p \in shown : p[2] <= Len(pages[p[1]].items)}
    IN /\ {pages[p[1]].items[p[2]] : p \in at} = rows
       /\ Cardinality(at) = Cardinality(rows)
       /\ \A n \in read : pages[n].has_next => pages[n].items # <<>>

Paged == {q \in Queries : ~PageRefused(q) /\ q.limit = None /\ q.offset = None}

TablePages ==
    {<<table, \A q \in Paged, limit \in Limits, total \in BOOLEAN :
                \A pages \in PagesOf(q, limit, total, table) :
                  ShowsOnce(pages, RowsOf(q, table), limit)>> : table \in Tables}

PagesShowEveryRowOnce == <<connection.rows, TRUE>> \in TablePages

(***************************************************************************)
(* A bulk update or delete writes to the rows the query reads, no more and  *)
(* no fewer, or it is refused.  A query that narrows its groups is the one  *)
(* that is neither: see the property after this one.                       *)
(***************************************************************************)
WritesWhatItReads(q, table) ==
    ~BulkRefused(q) => \A s \in All(q, table) : ToSet(s) = Touched(q, table)

TableWrites ==
    {<<table, \A q \in Queries : q.having = {} => WritesWhatItReads(q, table)>> :
       table \in Tables}

BulkWritesWhatItReads == <<connection.rows, TRUE>> \in TableWrites

(***************************************************************************)
(* What the documentation promises: update() and delete() raise "if the     *)
(* query carries anything a statement drops" (src/sqlakit/orm.py:454), so   *)
(* what is not refused writes to the rows it reads, groups or not.          *)
(***************************************************************************)
BulkRefusesWhatItDrops == \A q \in Queries : WritesWhatItReads(q, connection.rows)
==============================================================================
