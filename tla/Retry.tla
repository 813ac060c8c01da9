--------------------------------- MODULE Retry ---------------------------------
(***************************************************************************)
(* One call of a function decorated with transaction(retry_on=...): the    *)
(* attempts it makes, each a transaction() block as Blocks models it, and  *)
(* what they leave of the work around the call                             *)
(* (RetryingTransaction.__call__, BaseRetryingTransaction._retry).         *)
(*                                                                         *)
(* Row 0 is what the caller wrote before the call, row n what the n-th run *)
(* of the function wrote.                                                  *)
(***************************************************************************)
EXTENDS Integers

CONSTANT MaxRetries

ASSUME MaxRetriesAssumption == MaxRetries \in Nat

VARIABLES
    place,       \* what is open around the call
    before,      \* whether the caller wrote there before the call
    savepoint,   \* the savepoint argument of the block
    listed,      \* whether commit_on_error lists the errors of the function, and
                 \* perhaps those of a commit
    pc,
    error,       \* how the last run ended
    attempt,     \* the counter of the loop
    runs,        \* how often the function ran
    written,     \* the rows written on the connection, not permanent yet
    committed    \* the rows that are permanent

retryVars == <<place, before, savepoint, listed, pc, error, attempt, runs, written, committed>>

Rows == 0 .. MaxRetries + 1

\* "apart" is inside transaction(join_nested=False).
Around == {"alone", "connect", "transaction", "apart"}
Ends == {"returned", "raised"}

\* How a run ends: well, with an error retry_on claims, with another, or with one
\* that is no Exception (KeyboardInterrupt, CancelledError).
Outcomes == {"ok", "claimed", "other", "interrupt"}

RetryInit ==
    /\ place \in Around /\ savepoint \in BOOLEAN /\ listed \in BOOLEAN
    /\ before \in BOOLEAN /\ (before => place \in {"connect", "transaction"})
    /\ pc = "called" /\ error = "ok" /\ attempt = 0 /\ runs = 0
    /\ written = (IF before THEN {0} ELSE {}) /\ committed = {}

Run ==
    /\ pc = "called" /\ pc' = "running" /\ runs' = 1
    /\ UNCHANGED <<place, before, savepoint, listed, error, attempt, written, committed>>

WriteRow ==
    /\ pc = "running" /\ written' = written \cup {runs}
    /\ UNCHANGED <<place, before, savepoint, listed, pc, error, attempt, runs, committed>>

\* BaseDatabase.in_transaction, and whether the block joins that transaction.
InTransaction == place \in {"transaction", "apart"}
Joins == place = "transaction"

\* Mutant: one attempt too many.
RetriesOnceMore(outcome) == ~InTransaction /\ outcome = "claimed" /\ attempt <= MaxRetries

\* Whether the call runs its function again: inside a transaction there is no loop.
Retries(outcome) == ~InTransaction /\ outcome = "claimed" /\ attempt < MaxRetries

\* Mutant: an attempt that is made again keeps its work.
KeptAlways(keeps) == committed' = committed \cup written /\ written' = {}

\* The end of the transaction() block around a run: one it owns is committed or
\* rolled back whole, one it joins only back to a savepoint.
Ended(keeps) ==
    IF ~Joins
    THEN committed' = (IF keeps THEN committed \cup written ELSE committed) /\ written' = {}
    ELSE /\ written' = IF savepoint /\ ~keeps THEN written \ {runs} ELSE written
         /\ UNCHANGED committed

Finish(outcome) ==
    /\ pc = "running"
    /\ Ended(outcome = "ok" \/ listed) /\ error' = outcome
    /\ pc' = CASE outcome = "ok" -> "returned"
               [] outcome # "ok" /\ Retries(outcome) -> "waiting"
               [] OTHER -> "raised"
    /\ UNCHANGED <<place, before, savepoint, listed, attempt, runs>>

\* What an error of the commit of the session leaves: the work of the block is undone,
\* and in a transaction it joins without a savepoint perhaps more; when that error is
\* listed too, the block still keeps what the session has not rolled back.
EndedByCommit ==
    \/ Ended(FALSE)
    \/ Joins /\ ~savepoint /\ written' \in {{}, written \ {runs}} /\ UNCHANGED committed
    \/ /\ listed
       /\ \E lost \in SUBSET {runs} :
             IF Joins THEN written' = written \ lost /\ UNCHANGED committed
             ELSE committed' = committed \cup (written \ lost) /\ written' = {}

\* The commit of the block raises, and the loop sees the error.
CommitFails(outcome) ==
    /\ pc = "running"
    /\ EndedByCommit /\ error' = outcome
    /\ pc' = IF Retries(outcome) THEN "waiting" ELSE "raised"
    /\ UNCHANGED <<place, before, savepoint, listed, attempt, runs>>

\* backoff(attempt) has passed; or the wait is interrupted.
Wait ==
    /\ pc = "waiting"
    /\ \/ pc' = "running" /\ attempt' = attempt + 1 /\ runs' = runs + 1 /\ UNCHANGED error
       \/ pc' = "raised" /\ error' = "interrupt" /\ UNCHANGED <<attempt, runs>>
    /\ UNCHANGED <<place, before, savepoint, listed, written, committed>>

RetryNext ==
    \/ Run \/ WriteRow \/ Wait
    \/ \E outcome \in Outcomes : Finish(outcome)
    \/ \E outcome \in Outcomes \ {"ok"} : CommitFails(outcome)

RetrySpec == RetryInit /\ [][RetryNext]_retryVars
------------------------------------------------------------------------------
RetryTypeOK ==
    /\ place \in Around /\ before \in BOOLEAN
    /\ savepoint \in BOOLEAN /\ listed \in BOOLEAN
    /\ pc \in {"called", "running", "waiting"} \cup Ends
    /\ error \in Outcomes /\ attempt \in 0 .. MaxRetries /\ runs \in Rows
    /\ written \subseteq Rows /\ committed \subseteq Rows

\* max_retries counts the extra attempts, and inside another transaction there
\* are none.
RunsAtMost ==
    /\ runs <= MaxRetries + 1
    /\ InTransaction => runs <= 1

\* However often it ran, what a call that returns leaves is the work of its last
\* run, and one that raises, outside a transaction, leaves none: no attempt is
\* half there, and none is there twice (_finish and the loop together).
OneAttemptIsKept ==
    (pc \in Ends /\ ~listed /\ (pc = "returned" \/ ~Joins \/ savepoint))
        => (written \cup committed) \ {0} \subseteq IF pc = "returned" THEN {runs} ELSE {}
================================================================================
