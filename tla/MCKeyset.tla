------------------------------- MODULE MCKeyset -------------------------------
(* Small instances of Keyset for TLC. *)
EXTENDS Keyset

Asc(a) == [attribute |-> a, descending |-> FALSE]
Desc(a) == [attribute |-> a, descending |-> TRUE]

MCRow == [rank : {1, 2, Null}, id : 1 .. 3]
MCAttribute == {"rank", "id"}
MCKey == <<"id">>
MCRequests == {<<Asc("rank")>>, <<Desc("rank")>>, <<Desc("rank"), Asc("id"), Asc("rank")>>}
==============================================================================
