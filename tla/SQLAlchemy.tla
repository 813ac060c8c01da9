------------------------------ MODULE SQLAlchemy ------------------------------
(***************************************************************************)
(* What src/sqlakit relies on in SQLAlchemy 2.0 and in the database below  *)
(* it: a connection with its transaction and its stack of savepoints, and  *)
(* sessions that join them.  None of it is code of this repository: it is  *)
(* external, modelled from the calls src/sqlakit/_db.py makes and from what *)
(* its tests expect of them.                                               *)
(*                                                                         *)
(* Every operator takes the state w of that layer and returns the next:    *)
(*   w.stack[c]    the transaction on connection c: empty when there is    *)
(*                 none, else its root and then one layer per savepoint,   *)
(*                 each with the rows written since it was taken           *)
(*   w.auto        the connections in AUTOCOMMIT                           *)
(*   w.session[s]  the session of the block at level s                     *)
(*   w.handle[d]   the Transaction object block d holds                    *)
(*   w.committed   the rows that are permanent                             *)
(***************************************************************************)
EXTENDS Integers, Sequences, FiniteSets, FiniteSetsExt

CONSTANTS
    MaxDepth,   \* bound: how many blocks may be open one inside another
    Row         \* the rows a run may write, one per write

ASSUME MaxDepthAssumption == MaxDepth \in Nat \ {0}

Level == 1 .. MaxDepth

(***************************************************************************)
(* A tag names a transaction object of a connection: its root, the         *)
(* savepoint of a block or the savepoint a session joined with.  Gone is   *)
(* an object that has ended, while somebody still refers to it.            *)
(***************************************************************************)
Root == <<"root", 0>>
NoTag == <<"none", 0>>
Gone == <<"gone", 0>>
BlockTag(d) == <<"block", d>>
SessionTag(s) == <<"session", s>>
LiveTag == {Root} \cup {BlockTag(d) : d \in Level} \cup {SessionTag(d) : d \in Level}
Tag == LiveTag \cup {NoTag, Gone}

Layer == [tag : LiveTag, rows : SUBSET Row]

Modes == {"none", "conditional_savepoint", "rollback_only", "create_savepoint"}

Session == [mode    : Modes,              \* join_transaction_mode; "none": no session
            conn    : 0 .. MaxDepth,      \* its bind, 0 before a lazy checkout
            begun   : BOOLEAN,            \* in_transaction()
            stuck   : BOOLEAN,            \* a commit raised half way
            join    : Tag,                \* the transaction it joined or began
            commits : BOOLEAN,            \* whether commit() ends that one
            nested  : Seq([of : Level, live : BOOLEAN]),  \* begin_nested() of blocks
            pending : SUBSET Row]         \* added, not flushed

NoSession == [mode |-> "none", conn |-> 0, begun |-> FALSE, stuck |-> FALSE,
              join |-> NoTag, commits |-> FALSE, nested |-> <<>>, pending |-> {}]

NewSession(mode, c) == [NoSession EXCEPT !.mode = mode, !.conn = c]

NoHandle == [conn |-> 0, tag |-> NoTag]

Fresh == [stack     |-> [c \in Level |-> <<>>],
          auto      |-> {},
          session   |-> [s \in Level |-> NoSession],
          handle    |-> [d \in Level |-> NoHandle],
          committed |-> {}]

------------------------------------------------------------------------------
(* Connection *)

InTransaction(w, c) == w.stack[c] # <<>>
InNested(w, c) == Len(w.stack[c]) > 1
TopTag(w, c) == w.stack[c][Len(w.stack[c])].tag
HasTag(w, c, t) == \E i \in DOMAIN w.stack[c] : w.stack[c][i].tag = t
Position(w, c, t) == Max({0} \cup {i \in DOMAIN w.stack[c] : w.stack[c][i].tag = t})
RowsFrom(w, c, i) == UNION {w.stack[c][j].rows : j \in i .. Len(w.stack[c])}
Uncommitted(w, c) == RowsFrom(w, c, 1)

\* The rows a reader of some connection can see.
Held(w) == w.committed \cup UNION {Uncommitted(w, c) : c \in DOMAIN w.stack}

\* The objects of connection c named in E have ended: whoever holds one knows.
Forget(w, c, E) ==
    LET Nested(n) == [n EXCEPT !.live = @ /\ BlockTag(n.of) \notin E]
        Joined(x) == IF x.conn # c THEN x
                     ELSE [x EXCEPT !.join = IF @ \in E THEN Gone ELSE @,
                                    !.nested = [i \in DOMAIN @ |-> Nested(@[i])]]
        Known(h) == IF h.conn = c /\ h.tag \in E THEN [h EXCEPT !.tag = Gone] ELSE h
    IN [w EXCEPT !.session = [s \in Level |-> Joined(@[s])],
                 !.handle = [d \in Level |-> Known(@[d])]]

\* The first statement on a connection begins its transaction.
Autobegin(w, c) ==
    IF InTransaction(w, c) THEN w
    ELSE [w EXCEPT !.stack[c] = <<[tag |-> Root, rows |-> {}]>>]

\* An AUTOCOMMIT connection keeps each statement at once.
Write(w, c, rows) ==
    LET b == Autobegin(w, c)
        top == Len(b.stack[c])
    IN IF c \in w.auto THEN [b EXCEPT !.committed = @ \cup rows]
       ELSE [b EXCEPT !.stack[c][top].rows = @ \cup rows]

TakeSavepoint(w, c, t) ==
    LET b == Autobegin(w, c)
    IN [b EXCEPT !.stack[c] = Append(@, [tag |-> t, rows |-> {}])]

\* RELEASE keeps the rows in the layer below, and ends every later savepoint.
Release(w, c, t) ==
    LET i == Position(w, c, t)
        below == w.stack[c][i - 1]
        merged == [below EXCEPT !.rows = @ \cup RowsFrom(w, c, i)]
    IN IF ~HasTag(w, c, t) THEN w
       ELSE Forget([w EXCEPT !.stack[c] = Append(SubSeq(@, 1, i - 2), merged)], c, {t})

RollbackTo(w, c, t) ==
    IF ~HasTag(w, c, t) THEN w
    ELSE Forget([w EXCEPT !.stack[c] = SubSeq(@, 1, Position(w, c, t) - 1)], c, {t})

\* Ending the root ends every savepoint, and every object of them knows.
EndRoot(w, c, kept) == [Forget(w, c, LiveTag) EXCEPT !.committed = @ \cup kept,
                                                     !.stack[c] = <<>>]

Keep(w, c, t) == IF t = Root THEN EndRoot(w, c, Uncommitted(w, c)) ELSE Release(w, c, t)

Undo(w, c, t) == CASE t = Root -> EndRoot(w, c, {})
                   [] t \in {NoTag, Gone} -> w
                   [] OTHER -> RollbackTo(w, c, t)

\* Back to the pool: what is outstanding is rolled back.
CloseConnection(w, c) == [EndRoot(w, c, {}) EXCEPT !.auto = @ \ {c}]

------------------------------------------------------------------------------
(* Session *)

\* The first use of the connection joins its transaction, or begins one.
JoinSession(w, s) ==
    LET x == w.session[s]
        c == x.conn
        Joined(v, t, ends) == [v EXCEPT !.session[s] =
                                    [@ EXCEPT !.begun = TRUE, !.join = t, !.commits = ends]]
        isolates == \/ x.mode = "create_savepoint"
                    \/ x.mode = "conditional_savepoint" /\ InNested(w, c)
    IN CASE x.join # NoTag -> Autobegin(w, c)
         [] x.join = NoTag /\ ~InTransaction(w, c) -> Joined(Autobegin(w, c), Root, TRUE)
         [] x.join = NoTag /\ InTransaction(w, c) /\ isolates ->
                Joined(TakeSavepoint(w, c, SessionTag(s)), SessionTag(s), TRUE)
         [] OTHER -> Joined(w, TopTag(w, c), FALSE)

AddToSession(w, s, r) ==
    LET x == w.session[s]
    IN [w EXCEPT !.session[s] = [x EXCEPT !.begun = TRUE, !.pending = @ \cup {r}]]

FlushSession(w, s) ==
    LET x == w.session[s]
    IN IF x.pending = {} THEN w
       ELSE [Write(JoinSession(w, s), x.conn, x.pending) EXCEPT !.session[s].pending = {}]

\* A nested transaction of session s that ended behind its back, or has not.
HasEnded(w, s, i) ==
    LET x == w.session[s]
    IN ~x.nested[i].live \/ ~HasTag(w, x.conn, BlockTag(x.nested[i].of))

\* commit() goes from the innermost nested transaction to the outermost, and
\* raises on one that ended behind the session's back: this is the last of them.
Failing(w, s) == Max({0} \cup {i \in DOMAIN w.session[s].nested : HasEnded(w, s, i)})

ReleaseNested(w, s, i) ==
    LET x == w.session[s]
        n == Len(x.nested)
    IN IF i > n THEN w
       ELSE [Forget(Release(w, x.conn, BlockTag(x.nested[i].of)), x.conn,
                    {BlockTag(x.nested[j].of) : j \in i .. n})
             EXCEPT !.session[s].nested = SubSeq(@, 1, i - 1)]

Reset(w, s) == [w EXCEPT !.session[s] = NewSession(@.mode, @.conn)]
Stuck(w, s) == [w EXCEPT !.session[s].stuck = TRUE]

\* commit(): flush, release the nested ones, end what it began.
CommitSession(w, s) ==
    LET f == FlushSession(w, s)
        k == Failing(f, s)
        inner == ReleaseNested(f, s, k + 1)
        x == inner.session[s]
    IN CASE k > 0 \/ (x.commits /\ x.join = Gone) -> Stuck(inner, s)
         [] k = 0 /\ x.commits /\ x.join # Gone -> Reset(Keep(inner, x.conn, x.join), s)
         [] OTHER -> Reset(inner, s)

\* Rolling back the nested transactions from the i-th on goes back to the first of
\* them that is still there, and all of them have ended.
RollbackFrom(w, s, i) ==
    LET x == w.session[s]
        from == i .. Len(x.nested)
        there == {j \in from : ~HasEnded(w, s, j)}
        r == IF there = {} THEN w
             ELSE RollbackTo(w, x.conn, BlockTag(x.nested[Min(there)].of))
    IN IF from = {} THEN w
       ELSE [Forget(r, x.conn, {BlockTag(x.nested[j].of) : j \in from})
             EXCEPT !.session[s].nested = SubSeq(@, 1, i - 1)]

\* rollback(): whatever it joined is rolled back, its own or not.
RollbackSession(w, s) ==
    LET inner == RollbackFrom(w, s, 1)
        x == w.session[s]
    IN Reset(Undo(inner, x.conn, x.join), s)

\* close(): as rollback(), but it leaves alone a transaction it only joined.
CloseSession(w, s) == IF w.session[s].commits THEN RollbackSession(w, s) ELSE Reset(w, s)

DropSession(w, s) == [w EXCEPT !.session[s] = NoSession]

\* begin_nested() and connection(): the session takes the savepoint of block d.
BeginNested(w, s, d) ==
    LET j == JoinSession(FlushSession(w, s), s)
    IN [TakeSavepoint(j, j.session[s].conn, BlockTag(d)) EXCEPT
            !.session[s].nested = Append(@, [of |-> d, live |-> TRUE])]

HoldsNested(w, s, d) == \E i \in DOMAIN w.session[s].nested : w.session[s].nested[i].of = d
NestedPosition(w, s, d) ==
    CHOOSE i \in DOMAIN w.session[s].nested : w.session[s].nested[i].of = d

\* The SessionTransaction begin_nested() returned, committed or rolled back.
CommitNested(w, s, d) ==
    LET f == FlushSession(w, s)
        i == NestedPosition(f, s, d)
        k == Failing(f, s)
    IN IF k >= i THEN Stuck(ReleaseNested(f, s, k + 1), s) ELSE ReleaseNested(f, s, i)

RollbackNested(w, s, d) ==
    [RollbackFrom(w, s, NestedPosition(w, s, d))
     EXCEPT !.session[s].pending = {}, !.session[s].stuck = FALSE]
==============================================================================
