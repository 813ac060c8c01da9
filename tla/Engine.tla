-------------------------------- MODULE Engine --------------------------------
(***************************************************************************)
(* The engine of one Database shared by threads: built on first access,    *)
(* disposed of, and built again (Database.engine, dispose, connect), and   *)
(* the connection of one lazy session_factory() block that several threads *)
(* reach through the context they copied (_Lazy).                          *)
(*                                                                         *)
(* A step of a thread is what it does between two points where another may *)
(* run: a read or a write of a shared attribute, the wait for a lock, what *)
(* it builds or opens.                                                     *)
(***************************************************************************)
EXTENDS Integers, FiniteSets

CONSTANTS
    Thread,
    NoThread,
    MaxEngines,   \* bound: how many engines are ever built
    MaxCalls      \* bound: how many calls a thread makes

ASSUME ThreadAssumption == NoThread \notin Thread
ASSUME EngineBoundsAssumption == MaxEngines \in Nat /\ MaxCalls \in Nat

VARIABLES
    engine,      \* Database._engine, 0 for None
    lock,        \* who holds Database._engine_lock
    built,       \* engines are numbered as they are built
    disposed,    \* the engines dispose() has closed the pool of
    cell,        \* _Lazy.connection: the engine it was opened on, 0 for None
    cellLock,    \* who holds _Lazy._lock
    opened,      \* how many connections the cell has opened
    thread       \* what each thread is doing

engineVars == <<engine, lock, built, disposed, cell, cellLock, opened, thread>>

Calls == {"connect", "get", "dispose"}
Places == {"idle", "cell", "checkout", "check", "lock", "look", "build", "assign",
           "read", "open", "connected", "dispose_lock", "dispose", "forget"}

IdleThread == [pc |-> "idle", call |-> "connect", got |-> 0, calls |-> 0]

EngineInit ==
    /\ engine = 0 /\ built = 0 /\ disposed = {}
    /\ lock = NoThread /\ cellLock = NoThread
    /\ cell = 0 /\ opened = 0
    /\ thread = [t \in Thread |-> IdleThread]

ThreadAt(t, pc) == thread[t].pc = pc
Goes(t, pc) == thread' = [thread EXCEPT ![t].pc = pc]

\* Mutant: a call that raises leaves the lock of the cell taken.
ReturnsHolding(t) == Goes(t, "idle") /\ UNCHANGED cellLock

\* The call ends, by returning or by raising: both release the lock of the cell.
Returns(t) ==
    /\ Goes(t, "idle")
    /\ cellLock' = IF cellLock = t THEN NoThread ELSE cellLock

------------------------------------------------------------------------------
(* A thread calls connect(), dispose(), or reaches the connection of the    *)
(* block while it is open.                                                  *)

Call(t, c) ==
    /\ ThreadAt(t, "idle") /\ thread[t].calls < MaxCalls
    /\ thread' = [thread EXCEPT
            ![t] = [pc |-> CASE c = "connect" -> "check"
                             [] c = "get" -> "cell"
                             [] c = "dispose" -> "dispose_lock",
                    call |-> c, got |-> 0, calls |-> @.calls + 1]]
    /\ UNCHANGED <<engine, lock, built, disposed, cell, cellLock, opened>>

(* _Lazy.get *)

TakeCell(t) ==
    /\ ThreadAt(t, "cell") /\ cellLock = NoThread
    /\ cellLock' = t /\ Goes(t, "checkout")
    /\ UNCHANGED <<engine, lock, built, disposed, cell, opened>>

\* Mutant: the cell does not look again once it holds the lock.
CheckOutAgain(t) ==
    /\ ThreadAt(t, "checkout")
    /\ Goes(t, "check") /\ UNCHANGED cellLock
    /\ UNCHANGED <<engine, lock, built, disposed, cell, opened>>

CheckOut(t) ==
    /\ ThreadAt(t, "checkout")
    /\ \/ cell = 0 /\ Goes(t, "check") /\ UNCHANGED cellLock
       \/ cell # 0 /\ Returns(t)
    /\ UNCHANGED <<engine, lock, built, disposed, cell, opened>>

(* Database.engine *)

Check(t) ==
    /\ ThreadAt(t, "check")
    /\ Goes(t, IF engine = 0 THEN "lock" ELSE "read")
    /\ UNCHANGED <<engine, lock, built, disposed, cell, cellLock, opened>>

TakeLock(t) ==
    /\ lock = NoThread /\ lock' = t
    /\ \/ ThreadAt(t, "lock") /\ Goes(t, "look")
       \/ ThreadAt(t, "dispose_lock") /\ Goes(t, "dispose")
    /\ UNCHANGED <<engine, built, disposed, cell, cellLock, opened>>

\* Mutant: the attribute is not looked at again under the lock.
LookAway(t) ==
    /\ ThreadAt(t, "look")
    /\ Goes(t, "build") /\ UNCHANGED lock
    /\ UNCHANGED <<engine, built, disposed, cell, cellLock, opened>>

\* Under the lock the attribute is looked at again.
Look(t) ==
    /\ ThreadAt(t, "look")
    /\ \/ engine = 0 /\ Goes(t, "build") /\ UNCHANGED lock
       \/ engine # 0 /\ Goes(t, "read") /\ lock' = NoThread
    /\ UNCHANGED <<engine, built, disposed, cell, cellLock, opened>>

\* _create_engine() builds one, or raises.
Build(t) ==
    /\ ThreadAt(t, "build")
    /\ \/ /\ built < MaxEngines
          /\ built' = built + 1
          /\ thread' = [thread EXCEPT ![t].pc = "assign", ![t].got = built + 1]
          /\ UNCHANGED <<lock, cellLock>>
       \/ lock' = NoThread /\ Returns(t) /\ UNCHANGED built
    /\ UNCHANGED <<engine, disposed, cell, opened>>

Assign(t) ==
    /\ ThreadAt(t, "assign")
    /\ engine' = thread[t].got
    /\ lock' = NoThread
    /\ thread' = [thread EXCEPT ![t].pc = "read", ![t].got = 0]
    /\ UNCHANGED <<built, disposed, cell, cellLock, opened>>

\* The attribute is read once more, after the lock.
Read(t) ==
    /\ ThreadAt(t, "read")
    /\ thread' = [thread EXCEPT ![t].pc = "open", ![t].got = engine]
    /\ UNCHANGED <<engine, lock, built, disposed, cell, cellLock, opened>>

\* engine.connect(), for a block of the thread or for the cell.
OpenConnection(t) ==
    /\ ThreadAt(t, "open")
    /\ \/ /\ thread[t].got # 0 /\ thread[t].call = "connect"
          /\ Goes(t, "connected") /\ UNCHANGED <<cell, cellLock, opened>>
       \/ /\ thread[t].got # 0 /\ thread[t].call = "get"
          /\ cell' = thread[t].got /\ opened' = opened + 1 /\ Returns(t)
       \/ Returns(t) /\ UNCHANGED <<cell, opened>>   \* connect() raises
    /\ UNCHANGED <<engine, lock, built, disposed>>

CloseConnection(t) ==
    /\ ThreadAt(t, "connected") /\ Returns(t)
    /\ UNCHANGED <<engine, lock, built, disposed, cell, opened>>

(* Database.dispose *)

\* Mutant: dispose() closes the pool of an engine that was never built.
DisposeUnbuilt(t) ==
    /\ ThreadAt(t, "dispose")
    /\ disposed' = disposed \cup {engine}
    /\ Goes(t, "forget") /\ UNCHANGED <<lock, cellLock>>
    /\ UNCHANGED <<engine, built, cell, opened>>

DisposeEngine(t) ==
    /\ ThreadAt(t, "dispose")
    /\ \/ /\ engine # 0 /\ disposed' = disposed \cup {engine}
          /\ Goes(t, "forget") /\ UNCHANGED <<lock, cellLock>>
       \/ engine = 0 /\ lock' = NoThread /\ Returns(t) /\ UNCHANGED disposed
    /\ UNCHANGED <<engine, built, cell, opened>>

\* Readers do not take the lock: until now they found the disposed one.
Forget(t) ==
    /\ ThreadAt(t, "forget")
    /\ engine' = 0 /\ lock' = NoThread /\ Returns(t)
    /\ UNCHANGED <<built, disposed, cell, opened>>

------------------------------------------------------------------------------
Get(t) == TakeCell(t) \/ CheckOut(t)
ReadEngine(t) == Check(t) \/ Look(t) \/ Build(t) \/ Assign(t) \/ Read(t)
Step(t) ==
    \/ Get(t) \/ TakeLock(t) \/ ReadEngine(t)
    \/ OpenConnection(t) \/ CloseConnection(t) \/ DisposeEngine(t) \/ Forget(t)

EngineNext == \E t \in Thread : Step(t) \/ \E c \in Calls : Call(t, c)

\* A thread that can take a step takes it: the locks are held for no longer than
\* it takes to build an engine or to open a connection.  Nothing makes a thread
\* call, and a lock that is free may go to another: MaxCalls bounds how often.
Fairness == \A t \in Thread : WF_engineVars(Step(t))

EngineSpec == EngineInit /\ [][EngineNext]_engineVars /\ Fairness
------------------------------------------------------------------------------
TypeOK ==
    /\ engine \in 0 .. MaxEngines /\ built \in 0 .. MaxEngines
    /\ disposed \subseteq 1 .. built
    /\ lock \in Thread \cup {NoThread} /\ cellLock \in Thread \cup {NoThread}
    /\ cell \in 0 .. MaxEngines /\ opened \in Nat
    /\ thread \in [Thread -> [pc : Places, call : Calls, got : 0 .. MaxEngines,
                              calls : 0 .. MaxCalls]]

\* However the threads meet in it, no engine is built that nobody will dispose
\* of: every one that was built is the current one, is about to be, or has been
\* disposed (Database.engine: "the pool of the loser would never be disposed").
NoEngineIsLost ==
    \A e \in 1 .. built :
        \/ e = engine \/ e \in disposed
        \/ \E t \in Thread : ThreadAt(t, "assign") /\ thread[t].got = e

\* The threads that share a lazy block share one connection: it is checked out
\* once, even while engines come and go (_Lazy.get).
OneCheckout == opened <= 1

\* Every call returns or raises: no lock is kept by a call that failed, and the
\* two locks are never waited for in a circle (_Lazy.get, Database.engine).
CallsEnd == \A t \in Thread : ~ThreadAt(t, "idle") ~> ThreadAt(t, "idle")

==============================================================================
