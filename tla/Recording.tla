------------------------------ MODULE Recording ------------------------------
(***************************************************************************)
(* The recordings of one Database: blocks that several contexts open one   *)
(* inside another, the two listeners they share on the engine, and the     *)
(* statements that contexts run on pooled connections meanwhile            *)
(* (BaseDatabase.recording, _listen, _silence, _statement_began, _ended).  *)
(*                                                                         *)
(* A context is that of a thread or a task.  A task that is started inside *)
(* a recording inherits a copy of its context, and may outlive the block.  *)
(***************************************************************************)
EXTENDS Integers, Sequences, FiniteSets, FiniteSetsExt, SequencesExt

CONSTANTS
    Context,
    NoContext,
    Connection,      \* the connections of the pool
    MaxEngines,      \* bound: how many engines are ever built
    MaxRecordings,   \* bound: how many recordings are ever begun
    MaxStatements    \* bound: how many statements are ever run

ASSUME ContextAssumption == NoContext \notin Context
ASSUME RecordingBoundsAssumption ==
    MaxEngines \in Nat /\ MaxRecordings \in Nat /\ MaxStatements \in Nat

VARIABLES
    engine,      \* Database._engine, 0 for None; engines are numbered
    built,       \* how many engines have been built
    listening,   \* BaseDatabase._listening
    listened,    \* BaseDatabase._listened, 0 for None
    hooked,      \* the engines that hold the two listeners
    begun,       \* recordings are numbered as they begin
    recording,   \* what each recording is and holds
    around,      \* BaseDatabase._recordings, the ContextVar
    blocks,      \* the recording blocks each context has open itself
    conn,        \* the connections: their engine, who holds them, their info
    running,     \* the statement each context is running
    ran          \* statements are numbered as they start

vars == <<engine, built, listening, listened, hooked, begun, recording,
          around, blocks, conn, running, ran>>

Recordings == 1 .. MaxRecordings
Statements == 1 .. MaxStatements

\* A statement of a file a recording may skip, transaction control, or neither.
Statement == {"query", "skippable", "control"}

Unbegun == [open |-> FALSE, skips |-> FALSE, on |-> 0, statements |-> {}]
NotRunning == [id |-> 0, is |-> "query"]
NewConnection == [engine |-> 0, holder |-> NoContext, started |-> <<>>]

Init ==
    /\ engine = 0 /\ built = 0
    /\ listening = 0 /\ listened = 0 /\ hooked = {}
    /\ begun = 0 /\ recording = [r \in Recordings |-> Unbegun]
    /\ around = [c \in Context |-> <<>>]
    /\ blocks = [c \in Context |-> <<>>]
    /\ conn = [k \in Connection |-> NewConnection]
    /\ running = [c \in Context |-> NotRunning]
    /\ ran = 0

Idle(c) == running[c] = NotRunning

\* The engine as Database.engine returns it: the current one, or a new one.
TheEngine == IF engine # 0 THEN engine ELSE built + 1

ReadsEngine ==
    /\ TheEngine <= MaxEngines
    /\ engine' = TheEngine /\ built' = Max({built, TheEngine})

------------------------------------------------------------------------------
(* A recording block. *)

Listen ==
    \/ /\ listening = 0
       /\ ReadsEngine
       /\ listened' = TheEngine /\ hooked' = hooked \cup {TheEngine}
       /\ listening' = 1
    \/ /\ listening # 0
       /\ listening' = listening + 1
       /\ UNCHANGED <<engine, built, listened, hooked>>

\* Mutants: every block that ends takes the listeners off; the engine is looked
\* up again rather than held.
SilenceEveryTime ==
    /\ listening' = listening - 1
    /\ listened' = 0 /\ hooked' = hooked \ {listened}

SilenceTheCurrent ==
    /\ listening' = listening - 1
    /\ IF listening = 1 THEN listened' = 0 /\ hooked' = hooked \ {engine}
                        ELSE UNCHANGED <<listened, hooked>>

Silence ==
    /\ listening' = listening - 1
    /\ IF listening = 1 THEN listened' = 0 /\ hooked' = hooked \ {listened}
                        ELSE UNCHANGED <<listened, hooked>>

Begin(c, skips) ==
    LET r == begun + 1
    IN /\ begun < MaxRecordings /\ Idle(c)
       /\ Listen
       /\ begun' = r
       /\ recording' = [recording EXCEPT ![r] = [open |-> TRUE, skips |-> skips,
                                                 on |-> listened', statements |-> {}]]
       /\ around' = [around EXCEPT ![c] = Append(@, r)]
       /\ blocks' = [blocks EXCEPT ![c] = Append(@, r)]
       /\ UNCHANGED <<conn, running, ran>>

End(c) ==
    /\ blocks[c] # <<>> /\ Idle(c)
    /\ recording' = [recording EXCEPT ![Last(blocks[c])].open = FALSE]
    /\ around' = [around EXCEPT ![c] = Front(@)]
    /\ blocks' = [blocks EXCEPT ![c] = Front(@)]
    /\ Silence
    /\ UNCHANGED <<engine, built, begun, conn, running, ran>>

\* A task or a thread that runs in a copy of the context that starts it.
Spawn(c, d) ==
    /\ Idle(c) /\ around[c] # <<>> /\ around[d] = <<>>
    /\ \A k \in Connection : conn[k].holder # d
    /\ around' = [around EXCEPT ![d] = around[c]]
    /\ UNCHANGED <<engine, built, listening, listened, hooked, begun, recording,
                   blocks, conn, running, ran>>

------------------------------------------------------------------------------
(* A connection, and a statement on it. *)

CheckOut(c, k) ==
    /\ Idle(c) /\ conn[k].holder = NoContext
    /\ \A other \in Connection : conn[other].holder # c
    /\ conn[k].engine \in {0, TheEngine}
    /\ ReadsEngine
    /\ conn' = [conn EXCEPT ![k] = [engine |-> TheEngine, holder |-> c, started |-> @.started]]
    /\ UNCHANGED <<listening, listened, hooked, begun, recording, around, blocks,
                   running, ran>>

\* The pool keeps the connection with its info, unless it was disposed of.
CheckIn(c, k) ==
    /\ Idle(c) /\ conn[k].holder = c
    /\ conn' = [conn EXCEPT ![k] = IF @.engine = engine
                                   THEN [@ EXCEPT !.holder = NoContext]
                                   ELSE NewConnection]
    /\ UNCHANGED <<engine, built, listening, listened, hooked, begun, recording,
                   around, blocks, running, ran>>

\* _statement_began, where the engine of the connection has the listeners.
StatementBegan(c, k, is) ==
    /\ ran < MaxStatements /\ Idle(c) /\ conn[k].holder = c
    /\ ran' = ran + 1
    /\ running' = [running EXCEPT ![c] = [id |-> ran + 1, is |-> is]]
    /\ conn' = IF conn[k].engine \in hooked
               THEN [conn EXCEPT ![k].started = Append(@, ran + 1)] ELSE conn
    /\ UNCHANGED <<engine, built, listening, listened, hooked, begun, recording,
                   around, blocks>>

Skipping(c) == \E r \in Range(around[c]) : recording[r].skips

\* The statement is nobody's business.
Ignored(c) ==
    \/ running[c].is = "control"
    \/ running[c].is = "skippable" /\ Skipping(c)

\* What is left in the recordings around a statement, timed from its start.
Taken(c, start) ==
    [r \in Recordings |->
        IF Ignored(c) \/ r \notin Range(around[c]) THEN recording[r]
        ELSE [recording[r] EXCEPT
                !.statements = @ \cup {[id |-> running[c].id, started |-> start]}]]

\* Mutant: the start times are taken in the order they came.
RecordsOldest(c, k) == Taken(c, Head(conn[k].started))

\* _statement_ended pops the last start time of the connection.
Records(c, k) == Taken(c, Last(conn[k].started))

StatementEnded(c, k) ==
    /\ ~Idle(c) /\ conn[k].holder = c
    /\ running' = [running EXCEPT ![c] = NotRunning]
    /\ IF conn[k].engine \in hooked /\ conn[k].started # <<>>
       THEN /\ conn' = [conn EXCEPT ![k].started = Front(@)]
            /\ recording' = Records(c, k)
       ELSE UNCHANGED <<conn, recording>>
    /\ UNCHANGED <<engine, built, listening, listened, hooked, begun, around, blocks, ran>>

\* A statement that raises: after_cursor_execute is not called for it.
StatementFails(c) ==
    /\ ~Idle(c)
    /\ running' = [running EXCEPT ![c] = NotRunning]
    /\ UNCHANGED <<engine, built, listening, listened, hooked, begun, recording,
                   around, blocks, conn, ran>>

\* Database.dispose: what is checked out stays so, on the engine it came from.
Dispose ==
    /\ engine # 0 /\ engine' = 0
    /\ conn' = [k \in Connection |->
                    IF conn[k].holder = NoContext THEN NewConnection ELSE conn[k]]
    /\ UNCHANGED <<built, listening, listened, hooked, begun, recording, around,
                   blocks, running, ran>>

------------------------------------------------------------------------------
Block(c) == End(c) \/ \E skips \in BOOLEAN : Begin(c, skips)

Runs(c) ==
    \/ StatementFails(c)
    \/ \E k \in Connection :
        \/ CheckOut(c, k)
        \/ CheckIn(c, k)
        \/ StatementEnded(c, k)
        \/ \E is \in Statement : StatementBegan(c, k, is)

Next ==
    \/ Dispose
    \/ \E c \in Context :
        \/ Block(c)
        \/ Runs(c)
        \/ \E d \in Context : Spawn(c, d)

Spec == Init /\ [][Next]_vars
------------------------------------------------------------------------------
\* The statement that context c has just finished, and a recording has taken.
Took(r) == recording'[r].statements \ recording[r].statements

\* When the last block ends the listeners come off, off the engine they were put
\* on, though the database was disposed of meanwhile (_listen, _silence).
ListenersComeOff ==
    (\A c \in Context : blocks[c] = <<>>) => hooked = {}

\* A statement that runs to its end inside a recording, on the engine the block
\* listens on, is recorded in every block around it, whatever other contexts
\* begin and end meanwhile (_statement_ended).
BlocksRecordTheirStatements ==
    [][\A c \in Context, k \in Connection, r \in Recordings :
        (/\ running[c].is = "query" /\ StatementEnded(c, k)
         /\ r \in Range(blocks[c]) /\ conn[k].engine = recording[r].on)
            => \E s \in recording'[r].statements : s.id = running[c].id]_vars

\* While its block is open a recording times a statement from its own start,
\* though statements that failed, or began while nobody listened, left the info
\* of the pooled connection uneven (_statement_began, _statement_ended).
OpenBlocksTimeTheirStatements ==
    [][\A r \in Recordings :
        recording[r].open => \A s \in Took(r) : s.started = s.id]_vars

==============================================================================
