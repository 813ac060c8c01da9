------------------------------- MODULE Registry -------------------------------
(***************************************************************************)
(* The registry of databases (src/sqlakit/_base.py, _registry.py, and        *)
(* db_for in _model.py): which database an alias names, where a model        *)
(* lives, how using() moves it while a block is open, the transactions       *)
(* opened on one database or on all of them, and what a configuration may    *)
(* replace.  One context runs it; the asyncio registry awaits the same       *)
(* calls.                                                                   *)
(*                                                                         *)
(* A database is a number, in the order they were made.  Each configuration  *)
(* makes the default database anew, as it resets every attribute of it.     *)
(***************************************************************************)
EXTENDS Integers, Sequences, FiniteSets, SequencesExt

CONSTANTS
    Alias,         \* the aliases other than the default one
    Default,       \* DEFAULT_ALIAS
    NoAlias,       \* no alias: a router that passes, a context nobody moved
    Model,         \* the models
    Placement,     \* __db__ of each model: an alias, or a database of its own
    Routing,       \* what the routers in force answer, model by model
    Row,           \* the rows the models write
    Handle,        \* the objects using() returned that are entered directly
    HandleAlias,   \* the alias each of them stands for
    Reentered,     \* whether one is entered again while it is
    MaxDatabases,  \* bound: how many databases are made
    MaxDepth       \* bound: how many blocks are open

Db == 1 .. MaxDatabases
NoDb == 0
AnyAlias == Alias \cup {Default}

ASSUME AliasAssumption ==
    /\ Default \notin Alias /\ NoAlias \notin AnyAlias
    /\ IsFiniteSet(Alias)
ASSUME RoutingAssumption ==
    /\ AnyAlias \cap (Db \cup {NoDb}) = {}
    /\ Placement \in [Model -> AnyAlias \cup Db]
    /\ Routing \subseteq [Model -> AnyAlias \cup {NoAlias}]
ASSUME HandleAssumption ==
    /\ HandleAlias \in [Handle -> AnyAlias]
    /\ NoAlias \notin Handle
    /\ Reentered \in BOOLEAN
ASSUME BoundsAssumption == MaxDatabases \in Nat /\ MaxDepth \in Nat

VARIABLES
    made,     \* how many databases there are
    own,      \* the default database configure() built, NoDb before it has
    held,     \* the one register() was given for the default alias (_default)
    aliased,  \* the others with their aliases, in order (_aliased)
    routers,  \* the answers of the routers in force
    engines,  \* the databases that connected
    using,    \* the override of the context (_using)
    tokens,   \* what each handle resets the override to
    resets,   \* the handles that may: a token is used once
    blocks,   \* the open blocks, innermost last
    phase,    \* whether a transactions() is being entered, or left: to keep the work
              \* of the databases that are left ("exit"), or to undo it ("fails")
    left,     \* the aliases it has not opened yet
    first,    \* its first block
    work,     \* the rows written in the open transaction of each database
    kept,     \* the rows committed
    under,    \* history: the using() block that was to move what wrote each row,
              \* 0: none
    ends      \* history: what the databases of the transactions() that is ending
              \* came to, in the order they ended

registry == <<made, own, held, aliased, routers>>
override == <<using, tokens, resets>>
all == <<phase, left, first>>
vars == <<registry, engines, override, blocks, all, work, kept, under, ends>>

------------------------------------------------------------------------------
(* Where things are. *)

Aliases == <<Default>> \o [i \in DOMAIN aliased |-> aliased[i].alias]
Holds(alias) == alias \in ToSet(Aliases)

\* The database the registry answers with for an alias it holds.
At(alias) ==
    IF alias = Default THEN IF held = NoDb THEN own ELSE held
    ELSE aliased[CHOOSE i \in DOMAIN aliased : aliased[i].alias = alias].db

\* Mutant: a model pinned to the default database itself stays on it.
MovedByAlias(placement) == using # NoAlias /\ placement = Default

\* Whether the override of the context moves a model placed there: by alias,
\* or by the database that is the default one.
Moved(placement) ==
    /\ using # NoAlias
    /\ \/ placement = Default
       \/ placement \in Db /\ placement = At(Default)

\* The routers first, then the model.
PlacementOf(m) == IF routers[m] # NoAlias THEN routers[m] ELSE Placement[m]

\* The database a model lives on, NoDb when its alias is unknown.
DbFor(m) ==
    LET placement == PlacementOf(m)
        alias == IF Moved(placement) THEN using ELSE placement
    IN CASE alias \in Db -> alias
         [] alias \notin Db /\ Holds(alias) -> At(alias)
         [] OTHER -> NoDb

Configured == own # NoDb \/ held # NoDb

\* Mutant: only the default database is asked whether it connected.
ConnectedDefault == own \in engines

Connected == own \in engines \/ \E i \in DOMAIN aliased : aliased[i].db \in engines

OpenOn(d) == {i \in DOMAIN blocks : blocks[i].db = d}

------------------------------------------------------------------------------
(* Configuring. *)

\* Not while transactions() goes from one database to the next.
Idle == phase = "none"

NotAll == phase' = "none" /\ left' = <<>> /\ first' = 0

Init ==
    /\ made = 0 /\ own = NoDb /\ held = NoDb
    /\ aliased = <<>>
    /\ routers \in Routing
    /\ engines = {}
    /\ using = NoAlias
    /\ tokens = [h \in Handle |-> NoAlias] /\ resets = {}
    /\ blocks = <<>>
    /\ phase = "none" /\ left = <<>> /\ first = 0
    /\ work = [d \in Db |-> {}]
    /\ kept = {}
    /\ under = [r \in Row |-> 0]
    /\ ends = <<>>

Work == <<engines, override, blocks, all, work, kept, under>>

Makes(n) == made' = made + n

\* configure(url): the aliases stay.
Configure ==
    /\ Idle /\ held = NoDb /\ ~Connected /\ made < MaxDatabases
    /\ Makes(1) /\ own' = made + 1
    /\ routers' \in Routing
    /\ UNCHANGED <<held, aliased, Work>>

\* configure({...}): the default database first, then the others in order, then
\* the routers; one that cannot be built leaves what came before it replaced.
ConfigureMany(order, fails) ==
    /\ Idle /\ held = NoDb /\ ~Connected /\ made + 1 + Len(order) <= MaxDatabases
    /\ own' = made + 1
    /\ \/ /\ fails = "database" /\ order # <<>>
          /\ Makes(1)
          /\ UNCHANGED <<aliased, routers>>
       \/ /\ fails \in {"routers", "nothing"}
          /\ Makes(1 + Len(order))
          /\ aliased' = [i \in DOMAIN order |-> [alias |-> order[i], db |-> made + 1 + i]]
          /\ IF fails = "routers" THEN UNCHANGED routers ELSE routers' \in Routing
    /\ UNCHANGED <<held, Work>>

\* register(): a database made before, or one that connected on its own.
Register(alias, d, connected) ==
    /\ Idle /\ d \in 1 .. made + 1 /\ d \in Db
    /\ connected => d = made + 1
    /\ Makes(IF d > made THEN 1 ELSE 0)
    /\ \/ alias = Default /\ ~Configured /\ held' = d /\ UNCHANGED aliased
       \/ /\ alias # Default /\ ~Holds(alias)
          /\ aliased' = Append(aliased, [alias |-> alias, db |-> d])
          /\ UNCHANGED held
    /\ engines' = IF connected THEN engines \cup {d} ELSE engines
    /\ UNCHANGED <<own, routers, override, blocks, all, work, kept, under>>

Route ==
    /\ Idle /\ routers' \in Routing
    /\ UNCHANGED <<made, own, held, aliased, Work>>

Disposed == {own, held} \cup {aliased[i].db : i \in DOMAIN aliased}

Dispose ==
    /\ Idle
    /\ engines' = engines \ Disposed
    /\ UNCHANGED <<registry, override, blocks, all, work, kept, under>>

------------------------------------------------------------------------------
(* Blocks. *)

\* to: the alias using() was given, if it was; handle: the object entered, when
\* nothing is opened; before: what the override is reset to; first: the first
\* block of the transactions() it belongs to.
Block == [db : Db \cup {NoDb}, to : AnyAlias \cup {NoAlias}, handle : Handle \cup {NoAlias},
          before : AnyAlias \cup {NoAlias}, first : 0 .. MaxDepth]

\* Mutant: a block resets the override to nothing.
PlainOutermost(d) == [db |-> d, to |-> NoAlias, handle |-> NoAlias, before |-> NoAlias, first |-> 0]

Plain(d) == [db |-> d, to |-> NoAlias, handle |-> NoAlias, before |-> using, first |-> 0]

Opens(b) ==
    /\ Len(blocks) < MaxDepth
    /\ blocks' = Append(blocks, b)
    /\ engines' = IF b.db = NoDb THEN engines ELSE engines \cup {b.db}

\* transaction() on one of the databases.
Open(alias) ==
    /\ Idle /\ Holds(alias) /\ At(alias) # NoDb
    /\ Opens(Plain(At(alias)))
    /\ UNCHANGED <<registry, override, all, work, kept, under>>

\* using(alias).transaction(): the override, then the block.  When that one does
\* not open, the override is taken back and nothing has changed.
OpenUsing(alias) ==
    /\ Idle /\ Holds(alias) /\ At(alias) # NoDb
    /\ Opens([Plain(At(alias)) EXCEPT !.to = alias])
    /\ using' = alias
    /\ UNCHANGED <<registry, tokens, resets, all, work, kept, under>>

\* with using(alias): the object itself is entered, and keeps one token.
EnterUsing(h) ==
    /\ Idle /\ Holds(HandleAlias[h])
    /\ Reentered \/ h \notin resets
    /\ Opens([Plain(NoDb) EXCEPT !.to = HandleAlias[h], !.handle = h])
    /\ tokens' = [tokens EXCEPT ![h] = using] /\ resets' = resets \cup {h}
    /\ using' = HandleAlias[h]
    /\ UNCHANGED <<registry, all, work, kept, under>>

\* transactions(): the aliases of the moment, one after the other.
OpenAll ==
    /\ Idle /\ Configured /\ Len(blocks) + Len(Aliases) <= MaxDepth
    /\ phase' = "enter" /\ left' = Aliases /\ first' = Len(blocks) + 1
    /\ UNCHANGED <<registry, engines, override, blocks, work, kept, under>>

OpenNext ==
    /\ phase = "enter"
    /\ Opens([Plain(At(Head(left))) EXCEPT !.first = first])
    /\ \/ Len(left) = 1 /\ NotAll
       \/ Len(left) > 1 /\ left' = Tail(left) /\ UNCHANGED <<phase, first>>
    /\ UNCHANGED <<registry, override, work, kept, under>>

\* One does not open: those that did are left by the error, and keep their work when
\* the commit_on_error that transactions() hands to each of them lists it.
OpenNextFails ==
    /\ phase = "enter"
    /\ \/ Len(blocks) < first /\ NotAll
       \/ /\ Len(blocks) >= first
          /\ phase' \in {"exit", "fails"} /\ left' = <<>> /\ UNCHANGED first
    /\ UNCHANGED <<registry, engines, override, blocks, work, kept, under>>

\* The innermost using() block, and whether a model follows it: one that lives
\* on the default database, while the alias still names that of the block.
Innermost == Max({0} \cup {i \in DOMAIN blocks : blocks[i].to # NoAlias})

Follows(m) ==
    /\ Innermost # 0 /\ Holds(blocks[Innermost].to)
    /\ At(blocks[Innermost].to) = blocks[Innermost].db
    /\ PlacementOf(m) \in {Default, At(Default)}

\* A model writes a row through the session of the database it lives on, which
\* has to have a block open.
Write(m, r) ==
    /\ Idle /\ under[r] = 0 /\ r \notin kept
    /\ \A d \in Db : r \notin work[d]
    /\ DbFor(m) # NoDb /\ OpenOn(DbFor(m)) # {}
    /\ work' = [work EXCEPT ![DbFor(m)] = @ \cup {r}]
    /\ under' = [under EXCEPT ![r] = IF Follows(m) THEN Innermost ELSE 0]
    /\ UNCHANGED <<registry, engines, override, blocks, all, kept>>

------------------------------------------------------------------------------
(* The end of the innermost block.  failed: it undoes its work, for an error     *)
(* that commit_on_error does not list or for rollback=True; its commit may     *)
(* raise too, what is listed or not.                                         *)

Top == blocks[Len(blocks)]

\* Mutant: the block that ends first ends the transaction of its database.
EndsWorkAlways == Top.db # NoDb

\* The outermost block of a database ends its transaction.
EndsWork == Top.db # NoDb /\ OpenOn(Top.db) = {Len(blocks)}

\* Mutant: a commit that fails is not known to the databases left.
RaisesAlone(failed, commits, listed) == failed

\* Whether the databases left are undone: the first error that no commit_on_error
\* lists, be it that of a commit, goes through all of them.
Raises(failed, commits, listed) == failed \/ (~commits /\ ~listed)

Closes(failed, commits) ==
    /\ blocks # <<>>
    /\ blocks' = Front(blocks)
    /\ \/ /\ EndsWork
          /\ commits \/ ~failed
          /\ kept' = IF ~failed /\ commits THEN kept \cup work[Top.db] ELSE kept
          /\ work' = [work EXCEPT ![Top.db] = {}]
       \/ ~EndsWork /\ commits /\ UNCHANGED <<kept, work>>
    /\ under' = [r \in Row |-> IF under[r] = Len(blocks) THEN 0 ELSE under[r]]
    /\ UNCHANGED <<registry, engines>>

\* A block of one database, and the override it had set: a block resets to what
\* it found, a handle by the token of its last entry, which resets once.
Close(failed, commits) ==
    /\ Idle /\ blocks # <<>> /\ Top.first = 0
    /\ Closes(failed, commits)
    /\ \/ /\ Top.handle = NoAlias
          /\ using' = IF Top.to # NoAlias THEN Top.before ELSE using
          /\ UNCHANGED <<tokens, resets>>
       \/ /\ Top.handle # NoAlias
          /\ using' = IF Top.handle \in resets THEN tokens[Top.handle] ELSE using
          /\ resets' = resets \ {Top.handle} /\ UNCHANGED tokens
    /\ UNCHANGED all

\* The end of transactions(), from the last database to the first: an error, of
\* the body or of a commit, goes through the blocks that are left, each of which
\* asks its own commit_on_error of it.
CloseAll(failed) ==
    /\ Idle /\ blocks # <<>> /\ Top.first # 0
    /\ phase' = IF failed THEN "fails" ELSE "exit"
    /\ left' = <<>> /\ first' = Top.first
    /\ UNCHANGED <<registry, engines, override, blocks, work, kept, under>>

\* What the database came to: "listed" when its commit raised what is listed.
CameTo(commits, listed) ==
    CASE phase = "fails" -> "undone"
      [] phase # "fails" /\ commits -> "committed"
      [] OTHER -> IF listed THEN "listed" ELSE "undone"

CloseNext(commits, listed) ==
    /\ phase \in {"exit", "fails"}
    /\ Closes(phase = "fails", commits)
    /\ ends' = IF EndsWork THEN Append(ends, CameTo(commits, listed)) ELSE ends
    /\ \/ Len(blocks) = first /\ NotAll
       \/ /\ Len(blocks) # first
          /\ phase' = IF Raises(phase = "fails", commits, listed) THEN "fails" ELSE phase
          /\ UNCHANGED <<left, first>>
    /\ UNCHANGED override

Configuring ==
    \/ Configure
    \/ \E order \in SetToAllKPermutations(Alias), fails \in {"nothing", "database", "routers"} :
            ConfigureMany(order, fails)
    \/ \E alias \in AnyAlias, d \in Db, connected \in BOOLEAN : Register(alias, d, connected)
    \/ Route
    \/ Dispose

Opening ==
    \/ \E alias \in AnyAlias : Open(alias) \/ OpenUsing(alias)
    \/ \E h \in Handle : EnterUsing(h)
    \/ OpenAll
    \/ OpenNext \/ OpenNextFails

Closing ==
    \/ \E failed, commits \in BOOLEAN : Close(failed, commits)
    \/ \E failed \in BOOLEAN : CloseAll(failed)

Next ==
    \/ /\ \/ Configuring
          \/ Opening
          \/ \E m \in Model, r \in Row : Write(m, r)
          \/ Closing
       /\ ends' = <<>>
    \/ \E commits, listed \in BOOLEAN : CloseNext(commits, listed)

Spec == Init /\ [][Next]_vars
------------------------------------------------------------------------------
(* Properties. *)

\* Every database that connected can be disposed of through the registry: no
\* configuration replaces one with a pool, in whatever order databases are
\* configured, registered, connected and disposed of (_reject_if_connected).
NoPoolIsLost == engines \subseteq Disposed

\* The override of the context is that of the innermost using() block open, and
\* gone with the outermost, however the blocks are entered, left or fail
\* (_Using, _Redirected).
UsingFollowsTheBlocks ==
    using = IF Innermost = 0 THEN NoAlias ELSE blocks[Innermost].to

\* transactions() commits from the last database to the first, and stops at the
\* first one that fails: what the others committed by then stays, and no database
\* is committed after one was undone, or after one whose commit raised, unless
\* commit_on_error lists what it raised (Databases.transactions, Transaction._keeps).
NothingCommitsAfterAFailure ==
    \A i, j \in DOMAIN ends :
        (i < j /\ ends[j] = "committed") => ends[i] \in {"committed", "listed"}

\* What the models that follow using() write in its block is kept or undone as
\* one when the transaction of the block ends, and nothing of it is left for
\* another transaction, wherever the models were placed and however blocks,
\* configurations and routers change in between (db_for, _Redirected.__exit__).
WorkUnderUsingIsOne ==
    [][(/\ Len(blocks') < Len(blocks) /\ Top.to # NoAlias /\ Top.db # NoDb /\ EndsWork)
        => LET rows == {r \in Row : under[r] = Len(blocks)}
           IN /\ rows \subseteq kept' \/ rows \cap kept' = {}
              /\ \A d \in Db : rows \cap work'[d] = {}]_vars

\* The transactions of the databases are units of work: a row is written where a
\* transaction is open, and one step keeps or drops all that one of them holds.
U == INSTANCE Units WITH Unit <- Db, Item <- Row, open <- {d \in Db : OpenOn(d) # {}}
KeepsUnits == U!UnitSpec

==============================================================================
