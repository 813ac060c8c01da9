----------------------------- MODULE MCRegistry ------------------------------
(* A small instance of Registry for TLC: a replica, a model that says nothing, *)
(* one pinned to the first database made, and a router for the replica.        *)
EXTENDS Registry, TLC

CONSTANTS replica, item, pinned, h, r1, r2

Symmetry == Permutations({r1, r2})

Placements == item :> Default @@ pinned :> 1
Silent == item :> NoAlias @@ pinned :> NoAlias
ToReplica == item :> replica @@ pinned :> NoAlias
Routings == {Silent, ToReplica}
Handles == h :> replica
==============================================================================
