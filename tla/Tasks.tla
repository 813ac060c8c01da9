--------------------------------- MODULE Tasks ---------------------------------
(***************************************************************************)
(* The tasks of one event loop on one asyncio Database                     *)
(* (src/sqlakit/asyncio/_db.py, and _Lazy.aget of src/sqlakit/_base.py).   *)
(* A task called main may open a lazy session_factory() block and start    *)
(* tasks inside it, which copy its context: they share its scope, and with *)
(* it one connection that is checked out by whichever needs it first.      *)
(* Outside of a block every task opens its own, through connect() or by    *)
(* calling one coroutine function decorated with transaction().            *)
(*                                                                         *)
(* Between two awaits a task is not interrupted, so a step goes from one   *)
(* await to the next; at each await the task may be cancelled, and what it *)
(* waits for may raise.                                                    *)
(***************************************************************************)
EXTENDS Integers, Sequences, SequencesExt

CONSTANTS
    Task,         \* the tasks main starts
    NoTask,
    Grouped,      \* whether main leaves its block only after its tasks, as a
                  \* task group or gather() makes it
    MaxCalls,     \* bound: how many calls a task makes
    MaxCancels    \* bound: how many cancellations there are

ASSUME TaskAssumption == NoTask \notin Task
ASSUME GroupedAssumption == Grouped \in BOOLEAN
ASSUME BoundsAssumption == MaxCalls \in Nat /\ MaxCancels \in Nat

VARIABLES
    block,     \* what main has open: a lazy session_factory() block, or nothing
    main,      \* what main waits for
    cell,      \* _Lazy.connection, whether it is set
    alock,     \* who holds _Lazy._alock
    out,       \* how many connections the cell has opened that are not closed
    own,       \* the connection a task's call opens for itself
    shielded,  \* how many of those are being closed without their task
    tx,        \* the transaction on it, "another" when the body rolled it back and
               \* began one anew
    stacks,    \* Transaction._stacks: whose blocks each instance has open
    pc,        \* what each task waits for
    kind,      \* the call it makes, or made last
    result,    \* how that call ends
    frame,     \* the task whose transaction() block it leaves
    calls,     \* how many calls each task has made
    cancels    \* how many cancellations there were

vars == <<block, main, cell, alock, out, own, shielded, tx, stacks, pc, kind,
          result, frame, calls, cancels>>
lazy == <<cell, alock, out>>
made == <<kind, calls>>

Calls == {"use", "connect", "transaction"}
Connection == {"none", "out", "back"}

\* What a task waits for: the lock of the cell, the connection of the cell, one of
\* its own, BEGIN, its body, the end of the transaction, the close.
Places == {"idle", "cell", "opening", "connecting", "beginning", "inside",
           "ending", "closing"}

\* How the last call ended; "unknown" is a commit that was cancelled.
Results == {"none", "returned", "raised", "unknown"}

Init ==
    /\ block \in {"lazy", "nothing"} /\ main = "tasks"
    /\ cell = "empty" /\ alock = NoTask /\ out = 0
    /\ own = [t \in Task |-> "none"] /\ shielded = 0 /\ tx = [t \in Task |-> "none"]
    /\ stacks = [t \in Task |-> <<>>]
    /\ pc = [t \in Task |-> "idle"] /\ kind = [t \in Task |-> "use"]
    /\ result = [t \in Task |-> "none"] /\ frame = [t \in Task |-> t]
    /\ calls = [t \in Task |-> 0] /\ cancels = 0

At(t, place) == pc[t] = place
Ends(t, place, how) == /\ pc' = [pc EXCEPT ![t] = place]
                       /\ result' = [result EXCEPT ![t] = how]
Goes(t, place) == Ends(t, place, result[t])
Fails(t, place) == Ends(t, place, "raised")

\* Mutant: the instance that decorates the function is entered by every call.
TheDecorator(t) == CHOOSE i \in Task : TRUE

\* The instance a call enters: a decorated function makes one for each call.
Recreated(t) == t

------------------------------------------------------------------------------
(* A task calls. *)

\* Where a call goes first: to the scope main has bound, or to the pool.
FirstAwait ==
    IF block = "nothing" THEN "connecting" ELSE IF cell = "set" THEN "inside" ELSE "cell"

\* db.session needs a block of main, and on the connection of one the tasks end
\* no transaction here.
Callable(call) ==
    /\ call = "use" => block = "lazy"
    /\ call = "transaction" => block = "nothing"

Call(t, call) ==
    /\ At(t, "idle") /\ calls[t] < MaxCalls /\ Callable(call)
    /\ Grouped => main = "tasks"
    /\ Ends(t, FirstAwait, "returned") /\ kind' = [kind EXCEPT ![t] = call]
    /\ calls' = [calls EXCEPT ![t] = @ + 1]
    /\ frame' = [frame EXCEPT ![t] = t]
    /\ own' = [own EXCEPT ![t] = "none"] /\ tx' = [tx EXCEPT ![t] = "none"]
    /\ UNCHANGED <<block, main, lazy, shielded, stacks, cancels>>

(* _Lazy.aget *)

\* Mutant: the cell is not looked at again once the lock is held.
TakeLockAgain(t) ==
    /\ At(t, "cell") /\ alock = NoTask
    /\ Goes(t, "opening") /\ alock' = t
    /\ UNCHANGED <<block, main, cell, out, own, shielded, tx, stacks, made, frame, cancels>>

TakeLock(t) ==
    /\ At(t, "cell") /\ alock = NoTask
    /\ \/ cell = "set" /\ Goes(t, "inside") /\ UNCHANGED alock
       \/ cell = "empty" /\ Goes(t, "opening") /\ alock' = t
    /\ UNCHANGED <<block, main, cell, out, own, shielded, tx, stacks, made, frame, cancels>>

CheckOut(t) ==
    /\ At(t, "opening") /\ alock' = NoTask
    /\ \/ cell' = "set" /\ out' = out + 1 /\ Goes(t, "inside")
       \/ Fails(t, "idle") /\ UNCHANGED <<cell, out>>
    /\ UNCHANGED <<block, main, own, shielded, tx, stacks, made, frame, cancels>>

(* connect(), and the start of a transaction() block *)

Connect(t) ==
    /\ At(t, "connecting")
    /\ \/ /\ own' = [own EXCEPT ![t] = "out"]
          /\ Goes(t, IF kind[t] = "connect" THEN "inside" ELSE "beginning")
       \/ Fails(t, "idle") /\ UNCHANGED own
    /\ UNCHANGED <<block, main, lazy, shielded, tx, stacks, made, frame, cancels>>

\* A start that fails unwinds what it has entered so far: the connection.
UnwindsStart(t) == Fails(t, "closing")

Begin(t) ==
    /\ At(t, "beginning")
    /\ \/ /\ tx' = [tx EXCEPT ![t] = "active"] /\ Goes(t, "inside")
          /\ stacks' = [stacks EXCEPT ![Recreated(t)] = Append(@, t)]
       \/ UnwindsStart(t) /\ UNCHANGED <<tx, stacks>>
    /\ UNCHANGED <<block, main, lazy, own, shielded, made, frame, cancels>>

\* The body rolls its transaction back itself, through a session or the connection.
RollBack(t) ==
    /\ At(t, "inside") /\ tx[t] \in {"active", "another"}
    /\ tx' = [tx EXCEPT ![t] = "undone"]
    /\ UNCHANGED <<block, main, lazy, own, shielded, stacks, pc, made, result, frame, cancels>>

\* A statement after that begins another transaction on the connection.
BeginAnother(t) ==
    /\ At(t, "inside") /\ tx[t] = "undone"
    /\ tx' = [tx EXCEPT ![t] = "another"]
    /\ UNCHANGED <<block, main, lazy, own, shielded, stacks, pc, made, result, frame, cancels>>

(* The end of a call: its body has returned or raised. *)

Leave(t, how) ==
    /\ At(t, "inside")
    /\ \/ own[t] = "none" /\ Ends(t, "idle", how) /\ UNCHANGED <<stacks, frame>>
       \/ /\ own[t] # "none" /\ kind[t] = "connect"
          /\ Ends(t, "closing", how) /\ UNCHANGED <<stacks, frame>>
       \/ /\ kind[t] = "transaction" /\ Ends(t, "ending", how)
          /\ frame' = [frame EXCEPT ![t] = Last(stacks[Recreated(t)])]
          /\ stacks' = [stacks EXCEPT ![Recreated(t)] = Front(@)]
    /\ UNCHANGED <<block, main, lazy, own, shielded, made, tx, cancels>>

\* The transaction of the block that was popped, committed if the body returned.
\* A commit that raises leaves nothing; one the body rolled back says so, unless
\* the connection is in another, which is left to the close.
Finish(t) ==
    /\ At(t, "ending")
    /\ LET f == frame[t]
       IN \/ /\ tx[f] = "active" /\ result[t] = "returned"
             /\ tx' = [tx EXCEPT ![f] = "kept"] /\ Goes(t, "closing")
          \/ /\ tx[f] = "active"
             /\ tx' = [tx EXCEPT ![f] = "undone"] /\ Fails(t, "closing")
          \/ tx[f] = "another" /\ Goes(t, "closing") /\ UNCHANGED tx
          \/ tx[f] \notin {"active", "another"} /\ Fails(t, "closing") /\ UNCHANGED tx
    /\ UNCHANGED <<block, main, lazy, own, shielded, stacks, made, frame, cancels>>

\* What closing a connection leaves of a transaction still open on it: nothing,
\* and of one begun anew no more.
Abandoned(f) == [tx EXCEPT ![f] = IF @ = "active" THEN "undone" ELSE @]

Close(t) ==
    /\ At(t, "closing") /\ Goes(t, "idle")
    /\ own' = [own EXCEPT ![frame[t]] = "back"]
    /\ tx' = Abandoned(frame[t])
    /\ UNCHANGED <<block, main, lazy, shielded, stacks, made, frame, cancels>>

\* AsyncConnection.__aexit__ shields the close: it ends without the task.
CloseShielded ==
    /\ shielded > 0 /\ shielded' = shielded - 1
    /\ UNCHANGED <<block, main, lazy, own, tx, stacks, pc, made, result, frame, cancels>>

------------------------------------------------------------------------------
(* A task is cancelled at an await. *)

\* Mutant: a cancelled checkout keeps the lock.
KeepsLock(t) == alock

\* The lock of the cell is given up with the checkout it was taken for.
GivesUpLock(t) == IF alock = t THEN NoTask ELSE alock

CancelWait(t) ==
    /\ pc[t] \in {"cell", "opening", "connecting"}
    /\ Fails(t, "idle") /\ alock' = GivesUpLock(t)
    /\ UNCHANGED <<own, shielded, tx, stacks>>

CancelBegin(t) ==
    /\ At(t, "beginning") /\ UnwindsStart(t)
    /\ UNCHANGED <<alock, own, shielded, tx, stacks>>

\* How a call ends that is cancelled while it would have returned.
Unknown(t) == IF result[t] = "returned" THEN "unknown" ELSE result[t]

\* Nobody knows whether the database saw a commit that was cancelled.
CancelFinish(t) ==
    /\ At(t, "ending")
    /\ Ends(t, "closing", Unknown(t))
    /\ LET f == frame[t]
       IN \E end \in {"undone"} \cup (IF result[t] = "returned" THEN {"kept"} ELSE {}) :
              tx' = [tx EXCEPT ![f] = IF @ = "active" THEN end ELSE @]
    /\ UNCHANGED <<alock, own, shielded, stacks>>

CancelClose(t) ==
    /\ At(t, "closing")
    /\ Ends(t, "idle", Unknown(t))
    /\ own' = [own EXCEPT ![frame[t]] = "back"] /\ shielded' = shielded + 1
    /\ tx' = Abandoned(frame[t])
    /\ UNCHANGED <<alock, stacks>>

\* A body that is cancelled raises: Leave(t, "raised").
Cancel(t) ==
    /\ cancels < MaxCancels /\ cancels' = cancels + 1
    /\ CancelWait(t) \/ CancelBegin(t) \/ CancelFinish(t) \/ CancelClose(t)
    /\ UNCHANGED <<block, main, cell, out, made, frame>>

------------------------------------------------------------------------------
(* Main leaves its block: session_factory() closes the session, then the    *)
(* connection, if one was checked out.                                      *)

MainLeaves ==
    /\ main = "tasks"
    /\ Grouped => \A t \in Task : At(t, "idle")
    /\ main' = IF block = "lazy" THEN "session" ELSE "done"
    /\ UNCHANGED <<block, lazy, own, shielded, tx, stacks, pc, made, result, frame, cancels>>

\* Whether or not the close of the session raises, or is cancelled.
MainClosesSession ==
    /\ main = "session"
    /\ main' = "connection"
    /\ UNCHANGED <<block, lazy, own, shielded, tx, stacks, pc, made, result, frame, cancels>>

\* This close is not shielded: cancelled, it leaves the connection to the pool.
MainClosesConnection ==
    /\ main = "connection"
    /\ \/ main' = "done" /\ out' = (IF cell = "set" THEN out - 1 ELSE out) /\ UNCHANGED cancels
       \/ /\ cell = "set" /\ cancels < MaxCancels /\ cancels' = cancels + 1
          /\ main' = "cut" /\ UNCHANGED out
    /\ UNCHANGED <<block, cell, alock, own, shielded, tx, stacks, pc, made, result, frame>>

------------------------------------------------------------------------------
Step(t) ==
    \/ TakeLock(t) \/ CheckOut(t) \/ Connect(t) \/ Begin(t)
    \/ \E how \in {"returned", "raised"} : Leave(t, how)
    \/ Finish(t) \/ Close(t)

MainStep == MainLeaves \/ MainClosesSession \/ MainClosesConnection

Next ==
    \/ MainStep \/ CloseShielded
    \/ \E t \in Task :
           \/ Step(t) \/ RollBack(t) \/ BeginAnother(t) \/ Cancel(t)
           \/ \E call \in Calls : Call(t, call)

\* The loop resumes what can go on, bodies return, and a shielded close runs on.
\* Nothing makes a task call, or cancels it.
Fairness ==
    /\ WF_vars(MainStep) /\ WF_vars(CloseShielded)
    /\ \A t \in Task : WF_vars(Step(t))

Spec == Init /\ [][Next]_vars /\ Fairness
------------------------------------------------------------------------------
\* Wherever its calls are cancelled or fail, a task that is out of its blocks has
\* no connection checked out, and once main has left its block neither has the
\* cell, unless that last close was itself cut short (Transaction.__aenter__,
\* _finish, session_factory).
ConnectionsGoBack ==
    /\ \A t \in Task : At(t, "idle") => own[t] # "out"
    /\ main = "done" => out = 0

\* Of two calls of one decorated function that run at once, each ends the
\* transaction it began itself: what a call that returned wrote is kept, what one
\* that raised wrote is undone, and only a commit that was cancelled may be either
\* (Transaction._recreate_cm: "two of them running at once would unwind each
\* other's blocks").  A body that rolled back and went on in another transaction
\* loses its work whether the call returns or raises (_finish, is_active).
CallsEndTheirOwn ==
    \A t \in Task : At(t, "idle") /\ kind[t] = "transaction" =>
        /\ result[t] = "returned" => tx[t] \in {"kept", "another"}
        /\ result[t] = "raised" => tx[t] \in {"none", "undone", "another"}
        /\ result[t] = "unknown" => tx[t] \in {"kept", "undone", "another"}

\* Every call returns or raises, and every connection it began to close is closed:
\* a cancelled checkout does not leave the tasks that wait for it waiting.
CallsEnd ==
    /\ \A t \in Task : ~At(t, "idle") ~> At(t, "idle")
    /\ shielded > 0 ~> shielded = 0
================================================================================
