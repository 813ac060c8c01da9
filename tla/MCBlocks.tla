------------------------------- MODULE MCBlocks -------------------------------
(* Small instances of Blocks for TLC. *)
EXTENDS Blocks

MCOptions(S) == {o \in Options : <<o.savepoint, o.rollback, o.join_nested>> \in S}

Plain == <<FALSE, FALSE, TRUE>>
Savepoint == <<TRUE, FALSE, TRUE>>
RolledBack == <<FALSE, TRUE, TRUE>>
Apart == <<FALSE, FALSE, FALSE>>

NestedOptions == MCOptions({Savepoint, RolledBack, Apart})
AllOptions == MCOptions({Plain, Savepoint, RolledBack, Apart})
==============================================================================
