------------------------------- MODULE MCEngine -------------------------------
(* Small instances of Engine for TLC. *)
EXTENDS Engine, TLC

CONSTANTS t1, t2, t3

Threads == {t1, t2, t3}
Symmetry == Permutations(Threads)
==============================================================================
