# SQLAKit in TLA+

A model of [SQLAKit](../src/README.md), the layer over SQLAlchemy that binds
connections, sessions and transactions to the current context. The modules say
what its code does, TLC checks them on small instances, and TLAPS proves what
matters most for every instance.

`PROJECT.json` lists the components, the runs, the mutants that show each
property can fail, the lines each definition models, the findings, the hazards
and the theorems.

## The system

SQLAKit has no server and no storage of its own. What it keeps is the binding
between a context (a thread or a task) and what runs there, and that binding is
where it can go wrong.

| Part | Code | State | Operations |
|---|---|---|---|
| Blocks and transactions | `_db.py`, `_base.py` | per context: the `_Scope` (connection, session, lazy checkout, autocommit) and the `_Outer` (transaction, savepoint owner) | `connect`, `session_factory`, `autocommit`, `transaction`, their ends; `session`, `connection` |
| Engine, lazy checkout | `_db.py`, `_base.py` | `_engine`, `_engine_lock`; the cell of a lazy block | `engine`, `dispose`, `_Lazy.get` |
| Recording | `_base.py`, `_recording.py` | `_recordings` per context; `_listening`, `_listened`; start times in `connection.info` | `recording`, the two cursor listeners |
| Retrying transactions | `_db.py`, `_base.py` | the attempt | a decorated call |
| asyncio twin | `asyncio/` | as above, per task; `_Lazy._alock`, `Transaction._stacks` | as above, awaited; `_Lazy.aget`, the shielded ends |
| Registry and routing | `_base.py`, `_registry.py`, `_routing.py` | `_default`, `_aliased`, `_routers`; the `using()` of a context | `configure`, `register`, `using`, `route`, `db_for`, `transactions`, `dispose` |
| Queries and pages | `_query.py`, `orm.py` | none: statements and cursors are values | the builders, the reads, `get`, `page`, `cursor_page`, bulk writes |
| Models | `_model.py`, `orm.py` | what a session holds | `save`, `delete`, `restore`, `merge`, `create`, `create_many` |
| SQL templates | `_sql.py`, `sql.py` | `_loaded`, `_included` | reading, including, scanning, expanding, binding |
| Testing | `pytest_plugin.py`, `testing.py` | fixtures, the schema | `provisioned_tables`, a transaction per test |
| Command line | `_cli.py` and the modules it calls | none | reports |

They interact through calls and through the context. A session is created by
the block it belongs to and by its first use; a transaction asks the context
which block to join; a statement reaches the listeners of whatever engine its
connection came from; a model asks the registry for its database and the
database whether a block owns the commit.

Hard behaviour, and so the subject of the properties:

- blocks nest in any order, and each looks at what the others left: whether a
  transaction is open, on which connection, and which session owns savepoints;
- the code inside a block may commit or roll back sessions it kept from blocks
  further out, ending savepoints and transactions of blocks that are still open;
- a flush, a commit or the code of a block may fail, at every point of an end;
- threads share one database: its engine, its locks, its listeners;
- contexts are copied to tasks and threads, which may outlive the block, and a
  task may be cancelled wherever it waits;
- the databases of a registry are replaced, routed to and disposed of while blocks
  are open, and committed one after the other;
- a table changes between the pages of a walk, a file between two readings of it;
- what a query can carry and what a statement can do are not the same, and a
  template is text until the moment it runs.

What makes each part correct is stated by the properties of its module, listed with
their code in `PROJECT.json` and in the comments above them.

## Modules

| Module | What it models |
|---|---|
| `SQLAlchemy` | external: connections with a stack of savepoints, sessions that join them, handles |
| `Blocks` | blocks of one database in one context, on top of `SQLAlchemy` |
| `Engine` | threads that share the engine of a database, and one lazy cell |
| `Recording` | contexts that record, on pooled connections, while the engine changes |
| `Retry` | one call of a retrying function |
| `Keyset` | pages by cursor over a table that others change |
| `Queries` | pure: a query of one model, its builders, and what the database answers it |
| `Models` | models and queries that write, in two blocks, on top of `Queries` |
| `Registry` | the databases of a registry, their routing, and blocks over several |
| `Units` | abstract: work is done in a unit, and kept or dropped with all of it |
| `Templates` | threads that read template files, and two caches of them |
| `Scanner` | pure: how a template is cut into SQL and calls |
| `Rendering` | one template from its text to its statement, on top of `Scanner` |
| `Tasks` | tasks of one event loop on one asyncio database, failed and cancelled |
| `MCBlocks`, `MCEngine`, `MCRecording`, `MCKeyset`, `MCModels`, `MCRegistry`, `MCTemplates`, `MCRendering`, `MCTasks` | instances for TLC |
| `BlocksProofs`, `SavepointsProofs` (which extends it), `DatabaseProofs` (of `Engine`, `Retry` and `Registry`), `RecordingProofs`, `KeysetProofs`, `ModelsProofs`, `TasksProofs`, `TemplatesProofs` | proofs |

### SQLAlchemy and Blocks

`SQLAlchemy` holds no code of this repository. Its operators take the state `w`
of connections, sessions and database and return the next, so that one action
of `Blocks` can compose the calls the code makes in order. `w.stack[c]` is the
transaction on a connection: its root and one layer per savepoint, each with
the rows written since. A row is written once, so a run can tell what became of
each write. It models what `_db.py` and its tests rely on: autobegin, the three
`join_transaction_mode`s, savepoints released with everything above them, a
`commit()` that raises on a savepoint ended behind the session's back, a rollback
of a nested transaction that ends those inside it too, a `close()` that leaves a joined transaction alone.

In `Blocks`, level `d` is the block opened `d`-th. `block[d]` is what it bound:
its connection (named by the level that opened it, 0 for a lazy checkout that
has not happened), the `_Outer` in force inside it, and what its end is to end:
`nothing`, its own `root`, a `savepoint` of the connection, a savepoint `nested`
in the owning session, or the transaction of the `lender` session.

| Action | Code |
|---|---|
| `OpenConnect`, `OpenSession`, `OpenAutocommit`, `OpenTransaction(opt)` | `Database.connect`, `session_factory`, `_autocommit`, `Transaction.__enter__` |
| `Execute` | a statement on `db.connection` |
| `Add(s)`, `Query(s)`, `Commit(s)`, `Rollback(s)` | calls on the session of block `s`: `db.session` when `s` is the innermost, one kept from further out otherwise |
| `ExitConnect`, `ExitAutocommit`, `ExitTransaction` | the end of the innermost block: session, context, transaction, connection, in that order. `exc` is what reaches each step of the end from the one before: what the body raised (an error, or one `commit_on_error` lists), then what a commit raised. `flush` is how the flush of the end goes (done, refused by the database, raised before anything was sent), `fails` whether `commit_on_error` lists what a commit raises |

`OuterToJoin`, `ScopeToReuse`, `ScopeToBorrow`, `OwnsSavepoints`, `JoinMode` and
`SavepointOwner` are the methods of `BaseDatabase` with those names. `Keeps` is `_keeps`,
which the end of a transaction asks twice: for the session, of what the body raised, and
for the transaction, of what came out of the end of the session. A commit that raises
what `commit_on_error` lists ends in `listed_failure`, and `ListedFailureKeepsTheRest` says
what it leaves.

### Engine

A step of a thread is what it does between two points where another may run.
The locks are variables, so that what they protect is what the model shows:
`Check` reads `_engine` without the lock, `Look` reads it under it, `Build` and
`Assign` are apart, and `Read` is the second, unlocked read that returns it.
`DisposeEngine` and `Forget` are the two halves of `dispose()`. A `get` goes through
the cell of a lazy block and its lock first (`TakeCell`, `CheckOut`), then
through the engine. Building an engine and opening a connection may raise.

### Recording

`Begin` and `End` are the two ends of `recording()`, with `Listen` and `Silence`
under their lock. `StatementBegan` and `StatementEnded` are the two listeners,
where the engine of the connection has them; `StatementFails` is a statement
that raises, for which SQLAlchemy calls no listener. `conn[k].started` is
`connection.info["sqlakit_started"]`, which stays with the pooled connection.
`Spawn` copies a context. A statement is an ordinary query, one of a file that
`skip_queries_from` names, or transaction control.

### Retry

One call of a decorated function, alone, in `connect()`, in a transaction it
joins or in one kept apart. Each attempt is a transaction as `Blocks` has it,
reduced to its effect on rows: row 0 is the caller's, row `n` that of run `n`. What a
commit that raises leaves (`EndedByCommit`) depends on whether `commit_on_error` lists its
error, as in `Blocks`.

### Keyset

A row gives a value, or NULL, to each attribute; a table is a set of rows that
differ in the key. `KeysetOrdering` is `_keyset_ordering`, `Seek` the comparison
`_seek` writes (one row comparison, or in mixed directions the chain it stands
for), `Before` what the database sorts by. `Page(c)` is `cursor_page(cursor=c)`
from its statement to its cursors; a page whose cursor would hold NULL raises and
changes nothing, so it is no step. `Insert`, `Delete` and `Update` are other
sessions, `Reorder` a caller that orders the query otherwise and keeps its
cursors, which are then refused. A page is the set of its rows, since its order is
the ordering's; that a page read backwards is turned round shows in which of its
rows the two cursors are at. The history `walk` is a run of pages in one
direction, each got by the cursor of the one before.

### Queries and Models

`Queries` has no variables. A query is a record of what was built so far; a builder
gives the set of queries it may return, empty where it raises. The table has a key, a
value some rows of which `__query_filter__` hides, a mark of a soft delete and a
foreign key that may be NULL. `Ordered`, `JoinsFor` and `Conflicting` resolve the names
a caller orders by and the joins they need; `Filtered` adds the filters; `All`, `First`,
`Counts`, `Exists`, `Get`, `InBulk`, `Page` and the others are the statements, and each
is the *set* of the answers a database may give, since rows that tie come in any order.

`Models` puts writes on it. `connection` has the rows and those to go back to at each
open transaction and savepoint; `blocks` is one or two blocks, each with the rows its
session holds. `Persist` is `_persist`: commit where nothing else would, flush where a
block does. `reported` is the table as the calls that returned describe it.

| Action | Code |
|---|---|
| `Connect`, `Transaction(savepoint)`, `End(raised)` | the blocks of `Blocks`, reduced to what they keep |
| `SaveNew`, `CreateMany`, `Save`, `Delete`, `Restore`, `MergeAndSave`, `Refresh` | the methods of a model of those names, each to its commit or flush |
| `GetBy`, `BulkUpdate`, `BulkDelete` | `Query.get`, `Query.update`, `Query.delete` |

The reads and the pages are not actions: they change nothing. `ReadsAgree`,
`PagesShowEveryRowOnce` and `BulkWritesWhatItReads` ask them of every query of two
builders, on every table the writes reach.

### Registry and Units

A database is a number, in the order in which they are made. `own` is the default one
that `configure()` built, `held` the one `register()` was given for the default alias,
`aliased` the others. A router is reduced to its answer for each model. `using` is the
`ContextVar`; a block that `using()` opens keeps what it found there, an object of
`using()` that is entered itself keeps the token of its last entry. `ConfigureMany` is one
step with three ends, since what is built before an entry raises stays;
`transactions()` is one step for each database, on the way in and on the way out. Of the
arguments it hands to each of them, `rollback` and `commit_on_error` are there: an error
goes from one database to the next (`Raises`), which is undone by it (`phase = "fails"`)
unless it is listed, and a commit may raise either kind (`CameTo`). A body that is
undone by its error or by `rollback=True` is one case, `failed`.
`DbFor(m)` is `db_for`. `Write` is what a model does with it. `under` is a history: the
`using()` block a row was to go with when it was written.

`Units` is what a database promises: `KeepsUnits` maps the transactions of `Registry`
to it (a unit is a database, open while blocks are): every step of `Registry` is a step
of `Units` or leaves its variables alone.

### Templates

A file is the version its last write gave it, a template the versions it was made of. A
thread has a stack of the templates it is reading. Reading the text and asking for the
modification time are two steps (`ReadText`, `Stat`), and so are the choice of the oldest
cached entry, its deletion and the store of the new one (`ChooseVictim`, `Evict`,
`Store`): other threads and `Change`, a write or a removal, come in between. `Include` is
the next `tpl.include` of the text, from the cache or by reading the file. The history
`seen` is what a call may hand out: what was on disk during it, and, of a file written
while a thread was reading (`torn`), every version.

### Scanner and Rendering

SQL is a sequence of tokens. `Scanner` is `_Scanner` and `_grouped`: where a call opens
and closes, where an argument ends, whether a condition needs brackets. `Rendering` has
two steps for each text. `ReadTemplate` cuts it up, checks its calls and resolves them to
their macros, or refuses it; `RenderTemplate` expands them with the values of one call
for one database, binds what they bind, and gives the statement what its SQL names. A
macro is built in, written in SQL, or a function with its SQL in a file. The second half of
the module is the reference: what the text says, read off it without expanding anything.
`Parameters` is `parameters()`, with `NamesIn` the walk under it: the names made for the SQL
of a file are left out where that SQL holds them itself, not where it hands them to a call.
Both are recursive over texts, with RECURSIVE operators, and hold no theorem.

### Tasks

A task is not interrupted between two awaits, so a step goes from one await to the next,
and an await ends as awaits do: done, raised, or cancelled (`Cancel`). `TakeLock` and
`CheckOut` are `_Lazy.aget`. `Connect`, `Begin`, `Leave`, `Finish` and `Close` follow
`connect()` and a `transaction()` block, whose close runs on without a task that is
cancelled in it (`CloseShielded`). `stacks` is `Transaction._stacks`: a decorated function
enters an instance of its own for each call (`_recreate_cm`, here `Recreated`). A body may
roll its transaction back (`RollBack`) and go on, which begins another (`BeginAnother`);
its end then raises, or does not (`Finish`). Main opens
the lazy block, and with `Grouped` leaves it only after its tasks.

## Runs

Every property of a run that passes has a mutant in `PROJECT.json`: a change of the code
under which the same run fails. A deadlock is an error in `keyset` and `models`; in the
others every behaviour ends when the calls its bounds allow have been made.

| Run | Bounds | Shows |
|---|---|---|
| `blocks` | 2 blocks, 2 rows, every option; the session of the outer block is used in the inner one too | what ends well is kept, what is undone is gone; a commit that raises what is listed loses the work of its session alone |
| `blocks_nested` | 3 blocks, 1 row; kept sessions commit | savepoints are in order; what is kept apart stays apart; the outermost block owns the commit |
| `engine` | 3 threads, 2 calls each, 3 engines | no engine is lost; one checkout; every call ends |
| `recording` | 2 contexts, 2 recordings, 2 connections, 3 statements, 2 engines | listeners come off; a block records what it runs, timed from its own start |
| `retry` | 3 retries | the number of runs; one attempt's work is kept |
| `keyset` | tables of up to 3 rows with ranks 1, 2 and NULL, 3 orderings, limits 1 and 2, 2 changes | a walk shows what stayed, once; there and back is the same page |
| `models` | 3 keys, 2 values, 2 blocks, 2 writes; queries of 2 builders | what a call reports is there, and seen whole by others; reads agree; pages show every row once; bulk writes write what the query reads |
| `registry` | 3 databases, 2 aliases, 2 models, 2 rows, 3 blocks, 1 handle | no pool is lost; the override follows the blocks; a failed commit is the last, unless its error is listed; the work under `using()` is one |
| `templates` | 4 files and 1 text, one file included twice and one in a circle; 2 threads, 2 calls, 2 changes, room for 1 template | reading ends; what is handed out is fresh; a failure has a reason; the cache is bounded |
| `rendering` | every text of up to 5 tokens, conditions with nested calls, those of a file's SQL among them, 2 databases | calls are balanced; each is one condition; the branch not taken does not run; statements read their values; what is asked for is enough |
| `tasks` | 3 tasks, 1 call each, 2 cancellations | connections go back; a call ends its own transaction; every call ends |
| `bug_bulk_having` | as `models` | violated: see below |

Two blocks show what a block does to the one around it, since a block
looks at its own scope and at one `_Outer`; three are needed where a session
owns savepoints of blocks below it, for a block that must not fall back on
a connection two levels up, and for a session that `connect()` in between hides. Kept
sessions only commit in the run of three: `rollback()` of one undoes the savepoints
below it behind the backs of their blocks, and `SavepointsInOrder` and `UndoneWorkIsGone`
are then violated (see below). Two rows tell what an inner block wrote from what
the outer one did. Three threads let one build while another disposes and a
third waits for the cell. Three statements are one that fails, one that is cut
across and one that is recorded. Three rows on two ranks tie at the boundary of
a page of one or two, with a last page that is full and one that is not; two changes
replace the row a cursor was made at. Two builders are every pair of narrowings and
orderings, which is where one hides what the other asked for; two writes are one and what
depends on it. Three databases are a default one, one beside it, and one that replaces
either; three blocks are `transactions()` with a block inside or around it. A cache of
one template is full as soon as a file includes two. Three tasks are one that holds the
lock, one that waits and is cancelled, and one that must not be left waiting.

Symmetry is used in `recording`, `registry` and `templates`, which have no liveness
property, over constants that nothing distinguishes.

Two constants of the runs are what the callers of the code are asked to do, and the runs
say nothing of callers that do otherwise. `Grouped`: a block ends after the tasks it was
lent to, as `TaskGroup` and `gather()` make it; without it a task that outlives a lazy
block checks its connection out when nobody is left to close it, and `ConnectionsGoBack`
is violated. `Reentered`: an object of `using()` is entered once at a time; entered again,
its second exit resets nothing, the override outlives the block, and
`UsingFollowsTheBlocks` is violated.

`OutermostOwnsTheCommit` is of a transaction that no session around the block holds
(`HoldsAlone`). `KeptWorkIsHeld` and `UndoneWorkIsGone` say nothing of a block whose own
transaction a session has already ended (`TransactionLives`), nor of one on a
connection lent by a block whose session the user goes on using (`NotShared`):
what happens there is told below. `SavepointsInOrder` says nothing of a connection
whose owning session has raised half way through a commit and was not rolled back: with
four blocks, that commit may give up below a savepoint that the one it rolled back to
has dropped already, and the session keeps it until its block ends.

Fairness: in `Engine`, weak fairness of each thread's steps. Threads
are scheduled preemptively and hold a lock only while an engine is built or a
connection is opened. Nothing makes a thread call. Weak fairness is enough
because calls are bounded: a lock that others take in turn is free in the end.
In `Tasks`, weak fairness of each task's steps, of main's and of the closes that run on
without their task: an event loop resumes what is ready, and every await is taken to end.
Nothing makes a task call, or cancels it. The lock of the cell is handed on in turn by
asyncio; weak fairness is enough for the same reason as above.

`Reads` of a query, `page` and `in_bulk` are of a table that nobody else changes between
their statements; `Keyset` has the changes.

## Where the code and its documentation part

One is a run of its own, violated by what the code does, with the lines in `findings`:
`bug_bulk_having`. `update()` and `delete()` of a query promise a `BulkQueryError` "if the
query carries anything a statement drops", and refuse a limit, an offset, an order and a
join, but not `having()`, nor `group_by()`: they write to rows the same query does not read.

The others were met while the modules were written, and are modelled as the code has them:

- `_db.py:586`: a session inside a transaction rolls it back, a statement begins
  another, and the block ends without the `TransactionRolledBackError` of
  `exceptions.py:234` and `docs/testing.md:725`. A savepoint block whose own session
  rolled it back also ends quietly there, though the comment says that the transaction
  around it holds the work. `CallsEndTheirOwn` has the same of an asyncio call (`another`).
- `_db.py:283`: with `commit_on_error` "what was written before it stays". Where the error
  is that of the commit of the block's own session, what stays depends on the options:
  with `savepoint=True` the transaction is committed without the work of that session,
  and without it the failing flush has rolled the whole transaction back.
  `ListedFailureKeepsTheRest` is of the first. In the same way `transactions()` goes on to
  commit the databases that are left after one whose commit raised a listed error.
- `_db.py:429`: `transaction()` in `connect()` does not commit when the session there
  had only added, where `docs/context.md:114` says it commits what is outstanding. And
  `transaction(rollback=True)` is handed to that session too, whose `commit()` inside the
  block is then permanent.
- `_base.py:649`: `transaction()` in `connect()` in `autocommit()` runs on the AUTOCOMMIT
  connection, which the docstring above it excludes.
- `_db.py:107`: `engine` returns None when another thread disposes between its two reads,
  and the caller meets an `AttributeError`.
- `_db.py:622`: in `connect()` a failed attempt undoes the caller's work, and the retry
  returns as if nothing were lost, though `docs/context.md:203` retries only the block that
  owns the transaction. The other way round, a call inside
  `transaction(join_nested=False)` owns its transaction and is not run again:
  `in_transaction()` does not tell the two apart.
- `_sql.py:1120`: `parameters()` returns none "a macro binds itself, as
  `@sql_macro("file.sql")` does", says its docstring (`_sql.py:1104`). Where the SQL of the
  file hands one to another macro, as a file with `tpl.if_set(:id, c = :id)` does, it returns
  the name made for it. `WhatIsAskedForIsEnough` is of the other names (`OwnNames`): a call
  need not pass those.
- `_query.py:1050`: a row that is NULL in the ordering may be passed over by a walk that
  ends without the `NullCursorValueError` of `docs/queries.md:578`: only a row a cursor is
  made at is looked at.

Behaviour no document speaks of, which a caller may not expect:

- A `connect()` inside a `connect()` hides the session of the outer one: a
  `transaction()` below both runs in the transaction that session has begun
  (`_db.py:431`), which the session may then commit half way through, and whose end in
  the block makes the next `commit()` of the session raise.
- A session kept from a savepoint block that is rolled back inside a savepoint block
  below drops the savepoint of that one too, which still takes it for active: what it
  writes afterwards is not undone by its end.
- A task that outlives the block whose context it copied goes on recording into it
  while another recording is open; a block that disposes of the database records nothing
  that runs on the next engine, which is why `BlocksRecordTheirStatements` asks which
  engine the connection is of.
- `configure()` asks whether an engine exists, not whether a block or a recording is
  open: after `dispose()` inside one it replaces the `ContextVar`s and the counts they are
  to be reset in.
- The close of the connection of a lazy block (`asyncio/_db.py:374`) is the one that is
  not shielded: cancelled, the connection is left to the pool (`main = "cut"` in `Tasks`).
- Tasks that share the connection of a block share its transaction: the `transaction()`
  of one takes over what another began (`asyncio/_db.py:465`), and threads that share a
  block may each create its session, the second in place of the first (`_base.py:341`).
- A template written out in the code is kept for good, whatever becomes of the files it
  includes: `FreshTemplates` is of files.
- A macro that takes an optional parameter twice, as in `tpl.between(x, :p, :p)`, raises
  `KeyError` where `:p` is not passed: it is deleted twice (`_sql.py:1406`).
- A statement that names a parameter the call did not pass is refused, unless a macro
  before it has bound a value under that very name (`:ids__1` after `tpl.each(:ids)`): it
  then reads that value. `MCPassed` passes such a name wherever a text has it.
- `exists()` and `first()` put their own limit in place of the query's, and `limit(0)` with
  it; `page()` puts its limit and offset in place, while the count keeps the query's;
  `latest()` and `earliest()` add to an order the query has. `get()` of a query whose two
  filters are lifted ignores `having()`.
- An instance of an outer block saved in an inner one is not written: the inner
  session is flushed or committed, not the one that holds it (`orm.py:734`). `delete()` of a
  soft-deleting model marks an instance from an earlier block, and nothing is written or
  raised (`orm.py:678`); `save()` is refused there.
- `save()` in a `connect()` inside a `connect()` whose session has read joins that session's
  transaction, and is rolled back with it; in a `connect()` inside
  `transaction(join_nested=False)` it only flushes.

## Proofs

All of them hold for every value of the constants, under the named assumptions
of the modules (the bounds are natural numbers, sentinels are not members). A type
invariant is a property of a run in `Engine` alone; in the others it is a part of the
inductive invariant, where the proof needs it.

- `BlocksProofs`: `ApartStaysApart`, `OutermostOwnsTheCommit` and, stated for the proofs
  alone, `OneSavepointOwner`, for any depth of nesting, any options and any rows. None is
  inductive alone.
  `ApartStaysApart`: a block that joins takes the connection of its `_Outer`, so
  `BindingsInv` adds where an `_Outer` stands (an open transaction, the innermost one
  that is bound), that transactions have a connection from the start, that a
  connection is opened at or below its user, that an owner of savepoints is a
  transaction around on the same connection (`OwnersBelow`), that a block which found
  nothing to join is not on the connection of a transaction around it (`OwnersApart`),
  and what a block may end (`EndsRight`). Each action is shown to be one of
  three kinds of step (opening, using, closing), and each kind to keep the invariant;
  nothing of `SQLAlchemy` is needed. The other two need it. `DataInv` adds what the layer below is in every state
  (`Ok`: types, a session without a connection joined nothing, a connection out of
  a transaction has no handle on its root, a row is pending once), that each session is
  on the connection of its block and takes savepoints only as the owner (`SessionsFit`),
  that a block which ends a root has the handle of it (`HandlesFit`), that no
  session opened in or under a live transaction holds its root (`HoldersFit`), where
  each row is (`RowsInv`), and that what a live transaction wrote is on its own
  connection, uncommitted, or nowhere (`WroteInv`). Every operator of `SQLAlchemy` is
  shown once to be a move (`Works`): rows come in on one connection only, they become
  permanent there only, and only in autocommit or by the end of a root that no block
  holds afterwards. Moves compose, so each handler is one; an opening or a
  closing adds a session, a handle or a connection to it. That gives `DataStep`, from
  which `DataInv'` and the action property both follow.
  The outermost transaction ends with all its rows or with none: `OutermostIsUndone` and
  `OutermostIsKept` are `UndoneWorkIsGone` and `KeptWorkIsHeld` of the blocks that began
  their transaction on a connection not in autocommit, and need no `NotShared`. The first is
  of an error, of the body or of the commit, that is not listed, and of `rollback=True`. The move of
  an operator bounds what may appear; keeping needs the other half (`Retains`): joining,
  flushing, releasing and the commit of a session that does not hold the root lose no row
  of the connection and leave the root. A rollback by such a session leaves the root, or
  nothing on the connection (`RollbackEnds`), so the end of the block's own session
  does too (`ClosesOwnRoot`), and what `Transaction._finish` then does to it is the end of
  that root (`FinishesRoot`).
- `SavepointsProofs`: `SavepointsInOrder`, for the same constants, where no `rollback()` is
  called on a kept session (`SavepointsOrdered`; commits, queries and adds of kept sessions are all in). It is not
  inductive: it says what is held is there, and a step needs to know who holds what is
  there. `OrderInv` adds, of each connection that an open transaction opened
  (`Ordered`): its savepoints rise with the levels that took them (`Rising`); each is held,
  by the block that took it, by the owning session as its own, or as one it took for a
  block (`TagHeld`); only the owner takes any through a session, in the order of the
  blocks (`NestedFits`), and then no block holds one itself (`HandleFits`); what a session
  joined is the last savepoint of the blocks around it (`JoinFits`). A commit that raised
  half way leaves savepoints of blocks that are gone (`Stale`), which only a stuck owner
  has. Around that, `Tree` says which blocks are on such a connection, and that each of
  them found a transaction there as its outer one. Every operator of `SQLAlchemy` is
  shown to touch one connection (`Only`) and to keep it in order; each handler is then a
  few of them on the connection it uses, the others spared (`Spares`).
- `DatabaseProofs`, of `Engine`: types, `NoEngineIsLost` and `OneCheckout`, for any number of
  threads. `EngineInv` says who is where holds which lock, and what cannot have changed
  since: nobody else builds, assigns or forgets under the lock of the engine,
  and the cell stays closed while its lock is held past the look at it.
- `RecordingProofs`: `ListenersComeOff`, and the action properties
  `BlocksRecordTheirStatements` and `OpenBlocksTimeTheirStatements`. The code only counts,
  so `Inv` says what the count counts: `_listening` is the number of open recordings, each
  the block of one context at one place, and only the held engine is listened on.
  `StatementsInv` adds what a statement meets when it ends: the blocks of its context end
  the recordings around it, each open recording is on the held engine, and, while one
  around it is open, its start is the last its connection noted, whatever statements that
  raised left below.
- `KeysetProofs`: `EveryRowIsShown`, `ShownOnce` and `ThereAndBack`, for every table, ordering,
  limit and number of changes. The lemmas say that an ordering that ends in the key
  is total on a table (`BeforeIsTotal`, at the first column that differs), and
  that a seek from a row without NULL finds the rows without NULL after it, and no
  other (`SeekIsBefore`, `BeforeIsSeek`, `SeekIsTransitive`). `Inv` adds to the
  first property what holds before the end: each row that stayed was shown or is
  in front of the cursor that goes on, and no row shown is. For the third, `BackInv` says
  how the cursors of a page stand to it: a page is the first rows the other way too, counted
  from the row its cursor is at (`EdgesInv`), and a cursor back faces exactly the rows that
  the cursor which got the page had not passed (`CameInv`). The first rows of a total order
  are unique (`FirstIsUnique`), so the page back is the page before.
- `DatabaseProofs`, of `Registry`: `NoPoolIsLost`, `UsingFollowsTheBlocks` where not `Reentered`,
  `NothingCommitsAfterAFailure`, `WorkUnderUsingIsOne` where not `Reentered`, and that
  `Registry` implements `Units` (`KeepsUnits`), for any number of aliases, databases and blocks. `RegistryInv` adds that what
  `transactions()` has still to open is held by the registry; `StackInv` is the types of
  the stack, on which each opening is a push and each end a pop. `OverrideInv` says of
  every `using()` block that it kept the override of the innermost one below it,
  `TokensInv` that an object entered has one block and its token is that block's, and
  `AllInv` that no `using()` block is among those of a `transactions()`. A step of `Units`
  follows from what a push or a pop does to the databases with a block open.
  `NothingCommitsAfterAFailure` adds that while the databases are left to be kept, none was
  undone, and that the phase in which they are undone never goes back: only a commit that
  raises what is listed lets the next one commit.
  `WrittenInv` adds that a row written under a `using()` block is in the transaction of
  that block's database and in no other until it ends: a model placed on the default
  alias, or on the database of it, is moved there (`FollowsWritesThere`), as long as the
  alias of the block names the database the block is open on.
- `TasksProofs`: `ConnectionsGoBack` and `CallsEndTheirOwn`, for any number of tasks, calls
  and cancellations, where `Grouped`. `Inv` says what each await leaves to whom: who is
  past the look at the cell holds its lock, and while it is held the cell stays empty; the
  count of connections is that of the cell; a task out of its blocks has closed its own;
  and an instance has on its stack the block of the call it was made for, and no other.
- `TemplatesProofs`: all four properties of `Templates`, for any files, includes, threads,
  changes and sizes of the cache. `PlaceInv` says where a template being read stands: those
  below it are what its chain holds, each calls the next, and all differ.
  `BoundInv` counts a thread about to store as an entry. A failure is traced along the
  stack to the template asked for; the cache fails a call only if another thread deleted
  the entry it chose (`VictimInv`). For `FreshTemplates`, `FrameInv` says of each template
  being read that it is made of itself and of the includes done so far, each as it was on
  disk during the call, and as it is now unless torn; `KeptInv` that a kept template is
  whole and that a file in it that has changed since has another time than the one noted,
  which is why a look at the times is enough. What a source includes, however deep, is
  `Reach`: the least set that holds it and what its members include.
- `ModelsProofs`: `WhatIsReportedIsThere` and `OthersSeeTransactionsWhole`, for any keys,
  values, queries and number of writes. `SavedFor` says which tables the connection keeps for the
  blocks open: each block that ends something keeps the one it found, and a session that
  began by reading keeps the table as it is; `EndsFit` says what each ends. What a
  write changes is of no matter, only that it does the same to the table and to what
  is reported (`WritesKeep`), and every end puts back a table that was kept, or none.
  `BulkWritesWhatItReads` and `PagesShowEveryRowOnce` are of every query that calls build
  and of every table that writes make: tables stay finite and hold each key once, since a
  new key is past all known ones (`FiniteTables`), and whatever the calls, their number and
  their order, a query is `Shaped`: a record of those fields, its ordering a sequence of
  clauses. The page theorem rests on the tiebreaker: an ordering that names the key
  orders any two rows (`BeforeIsTotal`), so a table has one sorting by it at most
  (`SortingIsUnique`); the pages are slices of that one, and each place in it is one place
  of one page (`PlaceIs`, `PlaceIsOne`). `ReadsAgree` rests on the converse: whatever the
  clauses and the places of their NULLs, an ordering goes in no circle (`BeforeIsStrict`),
  so the rows have a sorting by it (`SortingExists`, by insertion, on the least number of rows
  that would have none); every answer leaves as many of them (`CutLeaves`), so each read has an
  answer and `count()` one.
- `DatabaseProofs`, of `Retry`: `RunsAtMost` and
  `OneAttemptIsKept`, for every `max_retries`.

Model-checked alone: the liveness of `Engine` and `Tasks` (fairness is out of the
prover's reach); `KeptWorkIsHeld` and `UndoneWorkIsGone` of the blocks of `Blocks` that
did not begin their transaction (the first also of those in autocommit), which need to know in which layer of a connection each
row is, where `DataInv` knows the connection and `OrderInv` the layers; `ListedFailureKeepsTheRest`,
for the same reason; and `Rendering`,
which is recursive over texts.

## Not modelled

- `Blocks`: `commit()` and `rollback()` called on the connection itself,
  `unbound()`, the session of a closed block, flushes that fail before the end.
- `Engine`: the end of a lazy block while a thread still reaches for its
  connection (`Tasks` has it between tasks).
- `Recording`: recordings of several databases at once and what a recording adds
  up to; the two listeners are put on and taken off in one step. A context holds
  at most one connection at a time.
- `Keyset`: the bytes of a cursor, and how a driver compares what it decodes to; NULL
  sorts first, as in SQLite and MySQL.
- `Queries`, `Models`: what loader options load, `chunks()`, statements of
  `with_statement()` beyond that most builders refuse them, more than two blocks,
  instances two sessions share, `tables_for()`.
- `Registry`: the options of a database, `savepoint` and `join_nested` of the blocks, a
  flush that fails before its database was sent anything (so a commit that raises keeps
  nothing of its database, listed or not), and the `ContextVar`s that `configure()`
  replaces; a registry is used by one context.
- `Templates`: two writes in one tick of the file system's clock, which no check of
  modification times can tell apart.
- `Rendering`: the words a macro writes around its values, and what a driver makes of
  a parameter.
- `Tasks`: a transaction on a connection that tasks share, `commit_on_error` and `rollback`
  (as in `Blocks`), a body that commits on the connection itself, `ping()`,
  `provisioned_tables()`. The blocks of one task nest as those of `Blocks`, call for call,
  and so do its recordings and retries.
- Testing: the fixtures open the blocks of `Blocks` and the transactions of
  `Registry` and leave their order to `contextlib.ExitStack`; the schema is not part of
  any state here. `drop_all()` runs in a transaction that may join one still open.
- Command line, exports, exceptions and types: text in, text out.

## Plan

1. Proofs: `UndoneWorkIsGone` of the inner blocks of `Blocks`, from `DataInv` and
   `OrderInv`, and the rows of each layer.
2. `Blocks` shown to refine `Units`, once a unit may nest.
3. A transaction on a connection that tasks share, in `Tasks`.
4. `unbound()` and the connection's own `commit()` in `Blocks`.
5. `provisioned_tables` and a transaction per test, with setups that fail half way.
