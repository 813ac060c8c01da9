-------------------------------- MODULE Units --------------------------------
(***************************************************************************)
(* What a database promises of the work done in its transactions, whatever  *)
(* opens and ends them: work is done in a unit that is open, and a unit     *)
(* ends with all of its work kept for good, or with none of it.             *)
(***************************************************************************)
CONSTANTS Unit, Item

VARIABLES
    open,  \* the units that are open
    work,  \* what was done in each of them
    kept   \* what was kept for good

UnitInit ==
    /\ open = {}
    /\ work = [u \in Unit |-> {}]
    /\ kept = {}

Begin(u) ==
    /\ u \notin open
    /\ open' = open \cup {u}
    /\ UNCHANGED <<work, kept>>

Do(u, i) ==
    /\ u \in open /\ i \notin kept
    /\ \A v \in Unit : i \notin work[v]
    /\ work' = [work EXCEPT ![u] = @ \cup {i}]
    /\ UNCHANGED <<open, kept>>

End(u) ==
    /\ u \in open
    /\ open' = open \ {u}
    /\ work' = [work EXCEPT ![u] = {}]
    /\ kept' \in {kept, kept \cup work[u]}

UnitNext == \E u \in Unit : Begin(u) \/ End(u) \/ \E i \in Item : Do(u, i)

UnitSpec == UnitInit /\ [][UnitNext]_<<open, work, kept>>
==============================================================================
