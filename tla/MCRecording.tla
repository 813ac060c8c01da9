------------------------------ MODULE MCRecording ------------------------------
(* Small instances of Recording for TLC. *)
EXTENDS Recording, TLC

CONSTANTS c1, c2, k1, k2

TwoContexts == {c1, c2}
Connections == {k1, k2}
Symmetry == Permutations(TwoContexts) \cup Permutations(Connections)
================================================================================
