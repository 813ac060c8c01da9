------------------------------ MODULE TasksProofs ------------------------------
(***************************************************************************)
(* Proofs about Tasks, for any number of tasks, calls and cancellations:   *)
(* every connection goes back, and calls of one decorated function end     *)
(* their own transactions.  The argument is local to a task: what each     *)
(* await leaves open is still there to be closed after it, and an instance *)
(* of the decorator's transaction holds the one block of its call.         *)
(***************************************************************************)
EXTENDS Tasks, TLAPS

Typed ==
    /\ block \in {"lazy", "nothing"}
    /\ main \in {"tasks", "session", "connection", "cut", "done"}
    /\ cell \in {"empty", "set"} /\ alock \in Task \cup {NoTask} /\ out \in Int
    /\ own \in [Task -> Connection] /\ shielded \in Nat
    /\ tx \in [Task -> {"none", "active", "kept", "undone", "another"}]
    /\ DOMAIN stacks = Task
    /\ pc \in [Task -> Places] /\ kind \in [Task -> Calls]
    /\ result \in [Task -> Results] /\ frame \in [Task -> Task]

\* What task t has open, by what it waits for.
CallInv(t) ==
    /\ stacks[t] = IF pc[t] = "inside" /\ kind[t] = "transaction" THEN <<t>> ELSE <<>>
    /\ frame[t] = t
    /\ kind[t] = "transaction" => result[t] # "none" /\ block = "nothing"
    /\ pc[t] = "connecting" => kind[t] # "use"
    /\ pc[t] \in {"cell", "opening", "connecting", "beginning", "inside"} =>
           result[t] = "returned"
    /\ pc[t] \in {"cell", "opening", "connecting"} => own[t] = "none" /\ tx[t] = "none"
    /\ pc[t] \in {"beginning", "ending", "closing"} => own[t] = "out"
    /\ pc[t] \in {"beginning", "ending"} => kind[t] = "transaction"
    /\ pc[t] = "beginning" => tx[t] = "none"
    /\ pc[t] = "inside" /\ kind[t] = "transaction" =>
           own[t] = "out" /\ tx[t] \in {"active", "undone", "another"}
    /\ pc[t] = "inside" /\ kind[t] # "transaction" =>
           own[t] # "back" /\ tx[t] = "none"
    /\ pc[t] = "ending" =>
           tx[t] \in {"active", "undone", "another"} /\ result[t] \in {"returned", "raised"}
    /\ pc[t] \in {"closing", "idle"} /\ kind[t] # "transaction" => tx[t] = "none"
    /\ pc[t] \in {"closing", "idle"} /\ kind[t] = "transaction" =>
           /\ result[t] = "returned" => tx[t] \in {"kept", "another"}
           /\ result[t] = "raised" => tx[t] \in {"none", "undone", "another"}
           /\ result[t] = "unknown" => tx[t] \in {"kept", "undone", "another"}
    /\ pc[t] = "idle" => own[t] # "out"

\* The cell holds what it opened, and is opened only by the holder of its lock.
CellInv ==
    /\ out = IF cell = "set" /\ main # "done" THEN 1 ELSE 0
    /\ \A t \in Task : pc[t] = "opening" <=> alock = t
    /\ alock # NoTask => cell = "empty"
    /\ block = "nothing" => cell = "empty"
    /\ \A t \in Task : pc[t] \in {"cell", "opening"} => block = "lazy"
    /\ main # "tasks" => \A t \in Task : pc[t] = "idle"
    /\ main \in {"session", "connection", "cut"} => block = "lazy"

Inv == Typed /\ CellInv /\ \A t \in Task : CallInv(t)

------------------------------------------------------------------------------
\* Nothing is open at the start.
LEMMA InitInv == Init => Inv
  BY TaskAssumption
  DEF Init, Inv, Typed, CellInv, CallInv, Calls, Places, Results, Connection

\* The steps of a task on its own, for every task.
LEMMA CallKeeps ==
    ASSUME Grouped, Inv, NEW t \in Task, NEW call \in Calls, Call(t, call)
    PROVE  Inv'
  <1>1. Typed'
    BY DEF Inv, Typed, Call, Ends, FirstAwait, lazy, Calls, Places, Results, Connection
  <1>2. CellInv'
    BY DEF Inv, Typed, CellInv, Call, Callable, Ends, FirstAwait, lazy, At, Calls
  <1>3. ASSUME NEW s \in Task PROVE CallInv(s)'
    BY DEF Inv, Typed, CallInv, CellInv, Call, Callable, Ends, FirstAwait, lazy, At, Calls
  <1> QED BY <1>1, <1>2, <1>3 DEF Inv

LEMMA StepKeeps ==
    ASSUME Grouped, Inv, NEW t \in Task, Step(t)
    PROVE  Inv'
  <1> USE TaskAssumption DEF At, Ends, Goes, Fails, lazy, made, Calls, Places, Results, Connection
  <1>1. CASE TakeLock(t)
    <2>1. Typed'
      BY <1>1 DEF Inv, Typed, TakeLock
    <2>2. CellInv'
      BY <1>1 DEF Inv, Typed, CellInv, TakeLock
    <2>3. ASSUME NEW s \in Task PROVE CallInv(s)'
      BY <1>1 DEF Inv, Typed, CellInv, CallInv, TakeLock
    <2> QED BY <2>1, <2>2, <2>3 DEF Inv
  <1>2. CASE CheckOut(t)
    <2>1. Typed'
      BY <1>2 DEF Inv, Typed, CheckOut
    <2>2. CellInv'
      BY <1>2 DEF Inv, Typed, CellInv, CheckOut
    <2>3. ASSUME NEW s \in Task PROVE CallInv(s)'
      BY <1>2 DEF Inv, Typed, CellInv, CallInv, CheckOut
    <2> QED BY <2>1, <2>2, <2>3 DEF Inv
  <1>3. CASE Connect(t)
    <2>1. Typed'
      BY <1>3 DEF Inv, Typed, Connect
    <2>2. CellInv'
      BY <1>3 DEF Inv, Typed, CellInv, Connect
    <2>3. ASSUME NEW s \in Task PROVE CallInv(s)'
      BY <1>3 DEF Inv, Typed, CallInv, Connect
    <2> QED BY <2>1, <2>2, <2>3 DEF Inv
  <1>4. CASE Begin(t)
    <2>1. Typed'
      BY <1>4 DEF Inv, Typed, Begin, UnwindsStart, Recreated
    <2>2. CellInv'
      BY <1>4 DEF Inv, Typed, CellInv, Begin, UnwindsStart
    <2>3. ASSUME NEW s \in Task PROVE CallInv(s)'
      BY <1>4 DEF Inv, Typed, CallInv, Begin, UnwindsStart, Recreated
    <2> QED BY <2>1, <2>2, <2>3 DEF Inv
  <1>5. ASSUME NEW how \in {"returned", "raised"}, Leave(t, how) PROVE Inv'
    <2>0. Last(<<t>>) = t /\ Front(<<t>>) = <<>>
      BY DEF Last, Front
    <2>1. kind[t] = "transaction" => Last(stacks[t]) = t /\ Front(stacks[t]) = <<>>
      BY <1>5, <2>0 DEF Inv, CallInv, Leave
    <2>2. Typed'
      BY <1>5, <2>1 DEF Inv, Typed, Leave, Recreated
    <2>3. CellInv'
      BY <1>5 DEF Inv, Typed, CellInv, Leave
    <2>4. CASE kind[t] = "transaction"
      <3>1. /\ frame' = [frame EXCEPT ![t] = t] /\ stacks' = [stacks EXCEPT ![t] = <<>>]
            /\ Ends(t, "ending", how)
        BY <1>5, <2>1, <2>4 DEF Inv, CallInv, Leave, Recreated
      <3>2. ASSUME NEW s \in Task PROVE CallInv(s)'
        BY <1>5, <2>4, <3>1 DEF Inv, Typed, CallInv, Leave
      <3> QED BY <2>2, <2>3, <3>2 DEF Inv
    <2>5. CASE kind[t] # "transaction"
      <3>1. /\ UNCHANGED <<stacks, frame, own, tx, kind, block>> /\ pc[t] = "inside"
            /\ \/ own[t] = "none" /\ Ends(t, "idle", how)
               \/ own[t] # "none" /\ kind[t] = "connect" /\ Ends(t, "closing", how)
        BY <1>5, <2>5 DEF Leave
      <3>2. own[t] \in {"none", "out"}
        BY <1>5, <2>5 DEF Inv, Typed, CallInv, Leave
      <3>3. ASSUME NEW s \in Task PROVE CallInv(s)'
        BY <2>5, <3>1, <3>2 DEF Inv, Typed, CallInv
      <3> QED BY <2>2, <2>3, <3>3 DEF Inv
    <2> QED BY <2>4, <2>5
  <1>6. CASE Finish(t)
    <2>1. Typed'
      BY <1>6 DEF Inv, Typed, Finish
    <2>2. CellInv'
      BY <1>6 DEF Inv, Typed, CellInv, Finish
    <2>3. ASSUME NEW s \in Task PROVE CallInv(s)'
      BY <1>6 DEF Inv, Typed, CallInv, Finish
    <2> QED BY <2>1, <2>2, <2>3 DEF Inv
  <1>7. CASE Close(t)
    <2>1. Typed'
      BY <1>7 DEF Inv, Typed, CallInv, Close, Abandoned
    <2>2. CellInv'
      BY <1>7 DEF Inv, Typed, CellInv, Close
    <2>3. ASSUME NEW s \in Task PROVE CallInv(s)'
      BY <1>7 DEF Inv, Typed, CallInv, Close, Abandoned
    <2> QED BY <2>1, <2>2, <2>3 DEF Inv
  <1> QED BY <1>1, <1>2, <1>3, <1>4, <1>5, <1>6, <1>7 DEF Step

\* A cancellation leaves what its task had open to be closed.
LEMMA CancelKeeps ==
    ASSUME Grouped, Inv, NEW t \in Task, Cancel(t)
    PROVE  Inv'
  <1> USE TaskAssumption DEF At, Ends, Goes, Fails, lazy, made, Calls, Places, Results, Connection
  <1>1. CASE CancelWait(t)
    <2>1. Typed'
      BY <1>1 DEF Inv, Typed, Cancel, CancelWait, GivesUpLock
    <2>2. CellInv'
      BY <1>1 DEF Inv, Typed, CellInv, Cancel, CancelWait, GivesUpLock
    <2>3. ASSUME NEW s \in Task PROVE CallInv(s)'
      BY <1>1 DEF Inv, Typed, CallInv, Cancel, CancelWait
    <2> QED BY <2>1, <2>2, <2>3 DEF Inv
  <1>2. CASE CancelBegin(t)
    <2>1. Typed'
      BY <1>2 DEF Inv, Typed, Cancel, CancelBegin, UnwindsStart
    <2>2. CellInv'
      BY <1>2 DEF Inv, Typed, CellInv, Cancel, CancelBegin, UnwindsStart
    <2>3. ASSUME NEW s \in Task PROVE CallInv(s)'
      BY <1>2 DEF Inv, Typed, CallInv, Cancel, CancelBegin, UnwindsStart
    <2> QED BY <2>1, <2>2, <2>3 DEF Inv
  <1>3. CASE CancelFinish(t)
    <2>0. frame[t] = t
      BY DEF Inv, CallInv
    <2>5. PICK end \in {"undone"} \cup (IF result[t] = "returned" THEN {"kept"} ELSE {}) :
              tx' = [tx EXCEPT ![t] = IF @ = "active" THEN end ELSE @]
      BY <1>3, <2>0, Zenon DEF CancelFinish
    <2>6. end \in {"undone", "kept"} /\ (end = "kept" => result[t] = "returned")
      BY <2>5
    <2>1. Typed'
      BY <1>3, <2>5, <2>6 DEF Inv, Typed, Cancel, CancelFinish, Unknown
    <2>2. CellInv'
      BY <1>3 DEF Inv, Typed, CellInv, Cancel, CancelFinish
    <2>3. ASSUME NEW s \in Task PROVE CallInv(s)'
      BY <1>3, <2>5, <2>6 DEF Inv, Typed, CallInv, Cancel, CancelFinish, Unknown
    <2> QED BY <2>1, <2>2, <2>3 DEF Inv
  <1>4. CASE CancelClose(t)
    <2>1. Typed'
      BY <1>4 DEF Inv, Typed, CallInv, Cancel, CancelClose, Unknown, Abandoned
    <2>2. CellInv'
      BY <1>4 DEF Inv, Typed, CellInv, Cancel, CancelClose
    <2>3. ASSUME NEW s \in Task PROVE CallInv(s)'
      BY <1>4 DEF Inv, Typed, CallInv, Cancel, CancelClose, Unknown, Abandoned
    <2> QED BY <2>1, <2>2, <2>3 DEF Inv
  <1> QED BY <1>1, <1>2, <1>3, <1>4 DEF Cancel

\* What the tasks do not do themselves: a body that rolls back and goes on, a
\* shielded close, and the end of the block of main, which finds every task at rest.
LEMMA OthersKeep ==
    ASSUME Grouped, Inv,
           MainStep \/ CloseShielded \/ \E t \in Task : RollBack(t) \/ BeginAnother(t)
    PROVE  Inv'
  <1> USE TaskAssumption DEF At, lazy, made, Calls, Places, Results, Connection
  <1>1. CASE MainLeaves
    BY <1>1 DEF Inv, Typed, CellInv, CallInv, MainLeaves
  <1>2. CASE MainClosesSession
    BY <1>2 DEF Inv, Typed, CellInv, CallInv, MainClosesSession
  <1>3. CASE MainClosesConnection
    BY <1>3 DEF Inv, Typed, CellInv, CallInv, MainClosesConnection
  <1>4. CASE CloseShielded
    BY <1>4 DEF Inv, Typed, CellInv, CallInv, CloseShielded
  <1>5. ASSUME NEW t \in Task, RollBack(t) \/ BeginAnother(t) PROVE Inv'
    <2>1. Typed' /\ CellInv'
      BY <1>5 DEF Inv, Typed, CellInv, RollBack, BeginAnother
    <2>2. ASSUME NEW s \in Task PROVE CallInv(s)'
      BY <1>5 DEF Inv, Typed, CallInv, RollBack, BeginAnother
    <2> QED BY <2>1, <2>2 DEF Inv
  <1> QED BY <1>1, <1>2, <1>3, <1>4, <1>5 DEF MainStep

\* Every step keeps the invariant, if main waits for its tasks.
LEMMA NextInv == Grouped /\ Inv /\ [Next]_vars => Inv'
  <1> SUFFICES ASSUME Grouped, Inv, [Next]_vars PROVE Inv'
    OBVIOUS
  <1>1. CASE Next
    BY <1>1, CallKeeps, StepKeeps, CancelKeeps, OthersKeep DEF Next
  <1>2. CASE UNCHANGED vars
    BY <1>2 DEF vars, Inv, Typed, CellInv, CallInv
  <1> QED BY <1>1, <1>2

\* Every connection goes back, whatever is cancelled or fails, when main leaves
\* its block after its tasks.
THEOREM ConnectionsReturned == Grouped => (Spec => []ConnectionsGoBack)
  <1>1. Inv => ConnectionsGoBack
    BY DEF Inv, CellInv, CallInv, ConnectionsGoBack, At
  <1>2. ASSUME Grouped PROVE Spec => []ConnectionsGoBack
    <2>1. Inv /\ [Next]_vars => Inv'
      BY <1>2, NextInv
    <2> QED BY <1>1, <2>1, InitInv, PTL DEF Spec
  <1> QED BY <1>2

\* Calls of one decorated function that run at once end their own transactions, and
\* one that returns lost its work only where its body rolled it back and went on in
\* another transaction (_finish).
THEOREM OwnTransactions == Grouped => (Spec => []CallsEndTheirOwn)
  <1>1. Inv => CallsEndTheirOwn
    BY DEF Inv, CallInv, CallsEndTheirOwn, At
  <1>2. ASSUME Grouped PROVE Spec => []CallsEndTheirOwn
    <2>1. Inv /\ [Next]_vars => Inv'
      BY <1>2, NextInv
    <2> QED BY <1>1, <2>1, InitInv, PTL DEF Spec
  <1> QED BY <1>2
================================================================================
