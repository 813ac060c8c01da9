-------------------------------- MODULE Blocks --------------------------------
(***************************************************************************)
(* The blocks of one Database in one context: connect(), session_factory(),*)
(* autocommit() and transaction(), opened one inside another, with what     *)
(* each binds to the context (its _Scope and its _Outer), which connection  *)
(* it runs on, how its session joins the transaction there, and what its    *)
(* end commits or rolls back (src/sqlakit/_db.py, src/sqlakit/_base.py).    *)
(*                                                                         *)
(* Level d is the block opened d-th in the context.  A connection is named  *)
(* by the level of the block that opened it, a scope and an _Outer by the   *)
(* level of the block that bound them.  Between two blocks the code of the  *)
(* user runs: statements on the connection, and adds, queries, commits and  *)
(* rollbacks on the session of a block.                                     *)
(***************************************************************************)
EXTENDS SQLAlchemy

CONSTANTS
    TransactionOptions,  \* the arguments transaction() is called with
    KeptOps              \* what the user calls on a session kept from an
                         \* enclosing block

Options == [savepoint : BOOLEAN, rollback : BOOLEAN, join_nested : BOOLEAN]
Ops == {"add", "query", "commit", "rollback"}

ASSUME OptionsAssumption == TransactionOptions \subseteq Options
ASSUME KeptOpsAssumption == KeptOps \subseteq Ops

VARIABLES
    depth,    \* how many blocks are open
    block,    \* the open blocks, outermost first
    sa,       \* connections, sessions and the database
    used,     \* the rows written so far
    wrote,    \* history: the rows that reached a block's connection while it was open
    crossed,  \* history: the open transactions on a lent connection across which
              \* a session kept from further out was used
    result    \* how the last step ended, when it closed a block

vars == <<depth, block, sa, used, wrote, crossed, result>>

(***************************************************************************)
(* What a block ends on its way out: nothing, the transaction of the       *)
(* connection, a savepoint of the connection, one the owning session took  *)
(* for it, or the transaction of the session that lent the connection.     *)
(***************************************************************************)
Ends == {"nothing", "root", "savepoint", "nested", "lender"}
Kinds == {"closed", "connect", "session", "autocommit", "transaction"}
Results == {"none", "ok", "kept", "undone", "rolled_back", "failure", "listed_failure"}

\* What the body of a block raises: nothing, an error, or one that its
\* commit_on_error lists.  What a commit raises is listed or not in the same way.
Exits == {"none", "error", "listed"}
Failures == {"failure", "listed_failure"}

\* How the flush of a commit ends: well, refused by the database, or raised before
\* anything was sent to it.
Flushes == {"done", "refused", "unsent"}

Block == [kind        : Kinds,
          conn        : 0 .. MaxDepth,  \* 0: a lazy checkout that has not happened
          autocommit  : BOOLEAN,        \* _Scope.autocommit
          outer       : 0 .. MaxDepth,  \* the _Outer bound while it is open, 0: none
          join_nested : BOOLEAN,        \* of its own _Outer, as the next two
          savepoint   : BOOLEAN,
          owner       : 0 .. MaxDepth,
          rollback    : BOOLEAN,
          ends        : Ends]

Closed == [kind |-> "closed", conn |-> 0, autocommit |-> FALSE, outer |-> 0,
           join_nested |-> TRUE, savepoint |-> FALSE, owner |-> 0,
           rollback |-> FALSE, ends |-> "nothing"]

\* A block as it is opened, on connection c and with _Outer o bound.
NewBlock(kind, c, o) == [Closed EXCEPT !.kind = kind, !.conn = c, !.outer = o]

Init ==
    /\ depth = 0
    /\ block = [d \in Level |-> Closed]
    /\ sa = Fresh
    /\ used = {}
    /\ wrote = [d \in Level |-> {}]
    /\ crossed = {}
    /\ result = "none"

------------------------------------------------------------------------------
(* What a new block finds bound. *)

Outer == IF depth = 0 THEN 0 ELSE block[depth].outer

\* Mutant: the outer transaction is never found.
OuterToJoinNever == 0

OuterToJoin == IF Outer # 0 /\ block[Outer].join_nested THEN Outer ELSE 0

\* Mutant: join_nested=False opts out of joining only.
ScopeToReuseAlways == depth

ScopeToReuse == IF Outer # 0 /\ ~block[Outer].join_nested THEN 0 ELSE depth

ScopeToBorrow ==
    IF ScopeToReuse = 0 \/ block[ScopeToReuse].autocommit THEN 0 ELSE ScopeToReuse

\* Mutant: savepoints are always taken on the connection.
SavepointOwnerNone(o) == 0

\* The session that takes savepoints on the connection of _Outer o, 0 for none.
SavepointOwner(o) ==
    IF block[o].owner # 0 /\ sa.session[block[o].owner].mode # "none"
    THEN block[o].owner ELSE 0

\* Whether the session of the new block owns the savepoints of its connection.
OwnsSavepoints(outer, savepoint) ==
    IF outer = 0 THEN savepoint ELSE ~savepoint /\ block[outer].owner # 0

\* How the session of block d joins the transaction open on its connection.
JoinMode(bl, d) ==
    LET o == bl[d].outer
    IN CASE o = 0 \/ (o # 0 /\ bl[o].conn # bl[d].conn) -> "conditional_savepoint"
         [] o # 0 /\ bl[o].conn = bl[d].conn /\ bl[o].owner = d -> "create_savepoint"
         [] OTHER -> "rollback_only"

\* Checking a lazy connection out is part of whatever first needs it.
ConnectionOf(d) == IF block[d].conn = 0 THEN d ELSE block[d].conn
CheckedOut(d) == [block EXCEPT ![d].conn = ConnectionOf(d)]
Bound(d) == IF sa.session[d].mode # "none" /\ sa.session[d].conn = 0
            THEN [sa EXCEPT !.session[d].conn = d] ELSE sa

\* The session of block d, which reading db.session creates.
WithSession(d) ==
    IF sa.session[d].mode = "none"
    THEN [sa EXCEPT !.session[d] = NewSession(JoinMode(block, d), block[d].conn)]
    ELSE Bound(d)

\* The rows a step brings to connection c count for the blocks open on it.
Moves(w, c) ==
    /\ sa' = w
    /\ wrote' = [d \in Level |->
                    CASE d > depth' -> {}
                      [] d <= depth /\ d <= depth' /\ block'[d].conn = c ->
                             wrote[d] \cup (Held(w) \ Held(sa))
                      [] OTHER -> wrote[d]]

------------------------------------------------------------------------------
(* Opening a block. *)

\* Bound: a session dropped before its close leaves its savepoint on the
\* connection; no block opens on top of more layers than this.
MaxLayers == MaxDepth + 2

Opens(bl, b) ==
    /\ \A c \in Level : Len(sa.stack[c]) < MaxLayers
    /\ depth' = depth + 1
    /\ block' = [bl EXCEPT ![depth + 1] = b]
    /\ result' = "none"
    /\ UNCHANGED <<used, crossed>>

\* connect(): on the connection already bound, or on one of its own.
OpenConnect ==
    /\ depth < MaxDepth
    /\ LET d == depth + 1
           s == ScopeToReuse
       IN \/ /\ s # 0
             /\ Opens(CheckedOut(s), NewBlock("connect", ConnectionOf(s), Outer))
             /\ Moves(Bound(s), 0)
          \/ /\ s = 0
             /\ Opens(block, NewBlock("connect", d, Outer))
             /\ Moves(sa, 0)

\* session_factory(): the session at once, the connection on its first use.
OpenSession ==
    /\ depth < MaxDepth
    /\ LET d == depth + 1
           s == ScopeToReuse
           Opened(w, m, c) == [w EXCEPT !.session[d] = NewSession(m, c)]
       IN \/ /\ s # 0
             /\ Opens(CheckedOut(s), NewBlock("session", ConnectionOf(s), Outer))
             /\ Moves(Opened(Bound(s), JoinMode(block', d), ConnectionOf(s)), 0)
          \/ /\ s = 0
             /\ Opens(block, NewBlock("session", 0, Outer))
             /\ Moves(Opened(sa, "conditional_savepoint", 0), 0)

\* autocommit(): joins the transaction around it, or binds an AUTOCOMMIT
\* connection of its own and leaves the context without an outer one.
OpenAutocommit ==
    /\ depth < MaxDepth
    /\ LET d == depth + 1
           o == OuterToJoin
       IN \/ /\ o # 0
             /\ Opens(block, NewBlock("autocommit", block[o].conn, Outer))
             /\ Moves(sa, 0)
          \/ /\ o = 0
             /\ Opens(block, [NewBlock("autocommit", d, 0) EXCEPT !.autocommit = TRUE])
             /\ Moves([sa EXCEPT !.auto = @ \cup {d}], 0)

TransactionBlock(c, opt, savepoint, owner, ends) ==
    [NewBlock("transaction", c, depth + 1) EXCEPT
        !.join_nested = opt.join_nested, !.rollback = opt.rollback,
        !.savepoint = savepoint, !.owner = owner, !.ends = ends]

\* transaction() inside a transaction it joins: takes part in it, or takes a
\* savepoint, through the session that owns the savepoints there if one does.
JoinTransaction(o, opt, savepoint) ==
    LET d == depth + 1
        c == block[o].conn
        holder == SavepointOwner(o)
        owner == IF OwnsSavepoints(o, savepoint) THEN d ELSE block[o].owner
        Joined(ends) == TransactionBlock(c, opt, savepoint, owner, ends)
    IN \/ /\ ~savepoint
          /\ Opens(block, Joined("nothing"))
          /\ Moves(sa, c)
       \/ /\ savepoint /\ holder # 0
          /\ ~sa.session[holder].stuck
          /\ Opens(block, Joined("nested"))
          /\ Moves(BeginNested(sa, holder, d), c)
       \/ /\ savepoint /\ holder = 0
          /\ Opens(block, Joined("savepoint"))
          /\ Moves([TakeSavepoint(sa, c, BlockTag(d)) EXCEPT
                        !.handle[d] = [conn |-> c, tag |-> BlockTag(d)]], c)

\* transaction() with none to join: on the connection of the block around it,
\* where a session that is in a transaction keeps it, or on one of its own.
BeginTransaction(opt, savepoint) ==
    LET d == depth + 1
        s == ScopeToBorrow
        c == IF s # 0 THEN ConnectionOf(s) ELSE d
        owner == IF OwnsSavepoints(0, savepoint) THEN d ELSE 0
        Begun(ends) == TransactionBlock(c, opt, savepoint, owner, ends)
        w == IF s # 0 THEN Bound(s) ELSE sa
        bl == IF s # 0 THEN CheckedOut(s) ELSE block
    IN \/ /\ s # 0 /\ sa.session[s].begun
          /\ Opens(bl, Begun("lender"))
          /\ Moves(w, c)
       \/ /\ s = 0 \/ (s # 0 /\ ~sa.session[s].begun)
          /\ Opens(bl, Begun("root"))
          /\ Moves([Autobegin(w, c) EXCEPT !.handle[d] = [conn |-> c, tag |-> Root]], c)

OpenTransaction(opt) ==
    /\ depth < MaxDepth
    /\ LET o == OuterToJoin
           savepoint == opt.savepoint \/ opt.rollback \/ (o # 0 /\ block[o].savepoint)
       IN \/ o # 0 /\ JoinTransaction(o, opt, savepoint)
          \/ o = 0 /\ BeginTransaction(opt, savepoint)

------------------------------------------------------------------------------
(* The code of the user, inside the innermost block. *)

Unused == Row \ used
NextRow == CHOOSE r \in Row : r \notin used

\* A session the user can reach: db.session, or one kept from a block around.
MayUse(s, op) ==
    \/ s = depth
    \/ s < depth /\ op \in KeptOps /\ sa.session[s].mode # "none"

\* The open transactions that run on the connection of another block.
Borrowing == {d \in 1 .. depth : block[d].kind = "transaction"
                                 /\ block[block[d].conn].kind # "transaction"}

\* The session of block s is used, or its connection.
Uses(bl, s) ==
    /\ block' = bl /\ result' = "none"
    /\ crossed' = crossed \cup (Borrowing \cap ((s + 1) .. depth))
    /\ UNCHANGED depth

Execute ==
    /\ depth > 0 /\ Unused # {}
    /\ LET c == ConnectionOf(depth)
       IN Uses(CheckedOut(depth), depth) /\ Moves(Write(Bound(depth), c, {NextRow}), c)
    /\ used' = used \cup {NextRow}

Add(s) ==
    /\ Unused # {} /\ MayUse(s, "add") /\ ~sa.session[s].stuck
    /\ LET w == IF sa.session[s].mode = "none" THEN WithSession(s) ELSE sa
       IN Uses(block, s) /\ Moves(AddToSession(w, s, NextRow), 0)
    /\ used' = used \cup {NextRow}

Query(s) ==
    /\ MayUse(s, "query") /\ ~sa.session[s].stuck
    /\ LET w == WithSession(s)
       IN Uses(CheckedOut(s), s) /\ Moves(JoinSession(FlushSession(w, s), s), ConnectionOf(s))
    /\ UNCHANGED used

Commit(s) ==
    /\ MayUse(s, "commit") /\ sa.session[s].begun /\ ~sa.session[s].stuck
    /\ LET flushes == sa.session[s].pending # {}
           w == IF flushes THEN WithSession(s) ELSE sa
       IN /\ Uses(IF flushes THEN CheckedOut(s) ELSE block, s)
          /\ Moves(CommitSession(w, s), ConnectionOf(s))
    /\ UNCHANGED used

Rollback(s) ==
    /\ MayUse(s, "rollback") /\ sa.session[s].begun
    /\ Uses(block, s) /\ Moves(RollbackSession(sa, s), 0)
    /\ UNCHANGED used

------------------------------------------------------------------------------
(* Closing the innermost block: its session, its context, its transaction,  *)
(* its connection, in that order.  exc is what reaches a step of it from    *)
(* the one before: what the body raised, or what a commit raised since.     *)

\* Mutants: commit_on_error is ignored; the error is; it is asked of the errors
\* of the body alone.
KeepsOnlySuccess(exc) == exc = "none"
KeepsEverything(exc) == TRUE
KeepsErrorsOfTheBody(exc) == exc \in {"none", "listed"}

Keeps(exc) == exc \in {"none", "listed", "listed_failure"}

\* The end of the block's own session.  A commit that raises skips its close, and
\* what it raises is what the rest of the end sees; a flush that raises has rolled
\* the session back, with the transaction it joined in order to send its rows.
CloseOwnSession(d, exc, commits, flush, fails) ==
    LET w == Bound(d)
        committed == CommitSession(w, d)
        reached == IF flush = "refused" THEN JoinSession(w, d) ELSE sa
        opened == sa.session[d].mode # "none"
        after == CASE ~opened -> [sa |-> sa, exc |-> exc]
                   [] opened /\ ~commits -> [sa |-> CloseSession(sa, d), exc |-> exc]
                   [] opened /\ commits /\ flush # "done" ->
                          [sa |-> RollbackSession(reached, d), exc |-> fails]
                   [] OTHER -> [sa |-> committed,
                                exc |-> IF committed.session[d].stuck THEN fails ELSE exc]
    IN [after EXCEPT !.sa = DropSession(@, d)]

\* Whether the transaction object the block holds is still active.
Active(w, d) ==
    IF block[d].ends = "nested" THEN HoldsNested(w, block[d].owner, d)
    ELSE w.handle[d].tag # Gone

\* Transaction._finish: what the block ends, after its session.
Finish(r, d) ==
    LET b == block[d]
        w == r.sa
        lender == d - 1
        keeps == Keeps(r.exc) /\ ~b.rollback
        Ended(v, s) == [sa |-> v, exc |-> IF v.session[s].stuck THEN "failure" ELSE r.exc]
    IN CASE b.ends = "nothing" -> r
         [] b.ends = "lender" ->
                IF keeps THEN Ended(CommitSession(w, lender), lender)
                ELSE [r EXCEPT !.sa = RollbackSession(w, lender)]
         [] b.ends \in {"root", "savepoint", "nested"} /\ ~Active(w, d) ->
                IF ~InTransaction(w, b.conn) /\ r.exc = "none"
                THEN [r EXCEPT !.exc = "rolled_back"] ELSE r
         [] b.ends = "nested" /\ Active(w, d) ->
                IF keeps THEN Ended(CommitNested(w, b.owner, d), b.owner)
                ELSE [r EXCEPT !.sa = RollbackNested(w, b.owner, d)]
         [] OTHER ->
                LET t == w.handle[d].tag
                IN IF ~keeps THEN [r EXCEPT !.sa = Undo(w, b.conn, t)]
                   ELSE [sa |-> Keep(w, b.conn, t),
                         exc |-> IF HasTag(w, b.conn, t) THEN r.exc ELSE "failure"]

Outcome(exc) == CASE exc = "none" -> "ok"
                  [] exc = "listed" -> "kept"
                  [] exc = "error" -> "undone"
                  [] OTHER -> exc

\* The block is gone from the context; a connection it opened goes back.
Pops(r) ==
    LET d == depth
        closed == IF block[d].conn = d THEN CloseConnection(r.sa, d) ELSE r.sa
    IN /\ depth' = d - 1
       /\ block' = [block EXCEPT ![d] = Closed]
       /\ Moves([closed EXCEPT !.handle[d] = NoHandle], block[d].conn)
       /\ crossed' = crossed \ {d}
       /\ result' = Outcome(r.exc)
       /\ UNCHANGED used

\* A flush has nothing to fail on when nothing is pending.
MayFlush(flush) == flush = "done" \/ sa.session[depth].pending # {}

\* connect() and session_factory() close their session, and commit nothing.
ExitConnect(exc) ==
    /\ depth > 0 /\ block[depth].kind \in {"connect", "session"}
    /\ Pops(CloseOwnSession(depth, exc, FALSE, "done", "failure"))

ExitAutocommit(exc, flush) ==
    /\ depth > 0 /\ block[depth].kind = "autocommit" /\ MayFlush(flush)
    /\ Pops(CloseOwnSession(depth, exc, exc = "none", flush, "failure"))

ExitTransaction(exc, flush, fails) ==
    /\ depth > 0 /\ block[depth].kind = "transaction" /\ MayFlush(flush)
    /\ Pops(Finish(CloseOwnSession(depth, exc, Keeps(exc), flush, fails), depth))

------------------------------------------------------------------------------
OpenBlock ==
        \/ OpenConnect
        \/ OpenSession
        \/ OpenAutocommit
        \/ \E opt \in TransactionOptions : OpenTransaction(opt)

Use == \/ Execute
       \/ \E s \in 1 .. depth : Add(s) \/ Query(s) \/ Commit(s) \/ Rollback(s)

Exit == \E exc \in Exits :
            \/ ExitConnect(exc)
            \/ \E flush \in Flushes :
                   \/ ExitAutocommit(exc, flush)
                   \/ \E fails \in Failures : ExitTransaction(exc, flush, fails)

Next == OpenBlock \/ Use \/ Exit

Spec == Init /\ [][Next]_vars
------------------------------------------------------------------------------
(* Properties. *)

\* The type of what is bound to the context.
BindingsTypeOK ==
    /\ depth \in 0 .. MaxDepth
    /\ block \in [Level -> Block]

(***************************************************************************)
(* The transaction block d relies on has not been ended behind its back:   *)
(* what it is to end is still there.                                       *)
(***************************************************************************)
TransactionLives(d) ==
    CASE block[d].ends = "lender" -> sa.session[d - 1].commits /\ sa.session[d - 1].join = Root
      [] block[d].ends = "nested" ->
             \E i \in DOMAIN sa.session[block[d].owner].nested :
                sa.session[block[d].owner].nested[i] = [of |-> d, live |-> TRUE]
      [] OTHER -> sa.handle[d].tag # Gone

\* Nobody has used a session kept from the blocks around d on the connection
\* that one of them lent it.
NotShared(d) == d \notin crossed

\* No session of a block around d holds the transaction d is to end.  One does when
\* d found it on the connection, that a connect() in between handed down (_owned).
HoldsAlone(d) ==
    \A s \in 1 .. d - 1 :
        ~(sa.session[s].conn = block[d].conn /\ sa.session[s].commits /\ sa.session[s].join = Root)

Transactions == {d \in 1 .. depth : block[d].kind = "transaction"}

\* A step that closes the innermost block, a transaction.
EndsTransaction == depth' < depth /\ block[depth].kind = "transaction"

Written == wrote[depth] \cup (Held(sa') \ Held(sa)) \cup sa.session[depth].pending

\* On the connection a transaction opened, no block or session still holds a
\* savepoint the database has dropped: they are released in the order they were
\* taken, one session owning them all (_Outer.owner, Transaction.__enter__), even
\* when a session kept from an enclosing block commits half way through the
\* blocks below it.  Once a commit of that session has raised half way, it may keep
\* the savepoints of blocks that are gone, until it is rolled back.
SavepointsInOrder ==
    \A d \in 1 .. depth :
        LET x == sa.session[d]
            c == block[d].conn
            InOrder == c # 0 /\ block[c].kind = "transaction"
                         /\ (block[c].owner # 0 => ~sa.session[block[c].owner].stuck)
        IN InOrder =>
            /\ (block[d].ends = "savepoint" /\ sa.handle[d].tag # Gone)
                    => HasTag(sa, c, BlockTag(d))
            /\ x.join \notin {NoTag, Gone} => HasTag(sa, c, x.join)
            /\ \A i \in DOMAIN x.nested :
                    x.nested[i].live => HasTag(sa, c, BlockTag(x.nested[i].of))

\* Blocks below transaction(join_nested=False) never run on its connection,
\* however they are nested (BaseDatabase._scope_to_reuse, _outer_to_join).
ApartStaysApart ==
    \A d \in Transactions, e \in 1 .. depth :
        (d < e /\ ~block[d].join_nested) => block[e].conn # block[d].conn

\* No step but its own end makes permanent anything written inside a transaction
\* that is still there and is its own: neither the blocks and sessions on its
\* connection, nor a session kept from a block around it, whatever they commit: the
\* outermost block owns the commit (Transaction._finish).
OutermostOwnsTheCommit ==
    [][\A d \in Transactions :
        (/\ block[d].ends = "root" /\ TransactionLives(d) /\ HoldsAlone(d)
         /\ d <= depth' /\ block[d].conn \notin sa.auto)
            => wrote'[d] \cap sa'.committed = {}]_vars

\* A transaction that ends well keeps all that is there to keep, its session's
\* unflushed work included: for good when it holds the transaction, else in the
\* transaction around it (Transaction._close_session, _finish).
KeptWorkIsHeld ==
    [][(EndsTransaction /\ TransactionLives(depth) /\ NotShared(depth)
            /\ ~block[depth].rollback /\ result' \in {"ok", "kept"})
        => (wrote[depth] \cap Held(sa)) \cup sa.session[depth].pending
            \subseteq IF block[depth].ends \in {"root", "lender"} THEN sa'.committed
                      ELSE Held(sa')]_vars

\* A transaction that is undone, by an error or by rollback=True, leaves nothing
\* written inside it, by its own session, by those below or by the sessions kept
\* from the blocks around, unless it only takes part in another.  So does one that
\* began its own and whose commit raised, unless commit_on_error lists that error.
UndoneWorkIsGone ==
    [][(EndsTransaction /\ TransactionLives(depth) /\ NotShared(depth)
            /\ block[depth].ends # "nothing" /\ block[depth].conn \notin sa.auto
            /\ \/ result' = "undone"
               \/ result' = "failure" /\ block[depth].ends = "root"
               \/ /\ result' \in {"ok", "kept", "listed_failure"}
                  /\ block[depth].rollback)
        => Written \cap Held(sa') = {}]_vars

\* The rows written on the connection of block d and not above the savepoint that
\* its session isolates itself with: those a failing flush of that session leaves.
Isolated(d) ==
    LET c == block[d].conn
        i == Position(sa, c, SessionTag(d))
    IN IF i = 0 THEN Held(sa) ELSE Held(sa) \ RowsFrom(sa, c, i)

\* When the commit of its session raises what commit_on_error lists, an outermost
\* transaction that owns the savepoints of its connection loses the work of that
\* session and nothing else: what the connection and the blocks below wrote is
\* committed, for _finish asks _keeps again, of that error.
ListedFailureKeepsTheRest ==
    [][(EndsTransaction /\ TransactionLives(depth) /\ NotShared(depth)
            /\ ~block[depth].rollback /\ result' = "listed_failure"
            /\ block[depth].owner = depth /\ block[depth].ends \in {"root", "lender"})
        => wrote[depth] \cap Isolated(depth) \subseteq sa'.committed]_vars

==============================================================================
